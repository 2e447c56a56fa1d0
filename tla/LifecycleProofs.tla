-------------------------- MODULE LifecycleProofs ---------------------------
(***************************************************************************)
(* Proofs about the life of a device handle, for every number of           *)
(* descriptors, starts and files of the program.                           *)
(***************************************************************************)
EXTENDS Lifecycle, WellFoundedInduction, TLAPS

-----------------------------------------------------------------------------
(* The inductive invariant.                                                *)

\* The programs it is about: those that initialize a handle until it is open and not
\* again, and those that use the network only.  (After a serial session that is
\* opened again its old task may close what the new one opens.)
OneTransport == Reopens => "serial" \notin Transports

\* What may be left of a call.
AtConnect  == <<"connect", "identify", "setPort", "closeUdp", "bind",
                "startTcp", "startUdp", "started">>
AtIdentify == <<"identify", "setPort", "closeUdp", "bind", "startTcp", "startUdp", "started">>
AtSetPort  == <<"setPort", "closeUdp", "bind", "startTcp", "startUdp", "started">>
AtCloseUdp == <<"closeUdp", "bind", "startTcp", "startUdp", "started">>
AtBind     == <<"bind", "startTcp", "startUdp", "started">>
AtStartTcp == <<"startTcp", "startUdp", "started">>
AtStartUdp == <<"startUdp", "started">>
AtStarted    == <<"started">>
AtNotStarted == <<"notStarted">>
AtClear      == <<"clear">>

NetLists == {NetStart, AtConnect, AtIdentify, AtSetPort, AtCloseUdp, AtBind,
             AtStartTcp, AtStartUdp}

DropTcp  == <<"exitTcp", "notStarted">>
EndTcp   == {NoDriver, DropTcp}

AbortExit == <<"exitUdp", "shutTcp", "exitTcp", "notStarted">>
AbortUdp  == {NetAbort, AbortExit}

CloseExit == <<"exitTcp", "shutUdp", "exitUdp", "clear">>
ExitTcps  == {NetExit, CloseExit}

CloseShut == <<"shutUdp", "exitUdp", "clear">>
DropUdp   == <<"exitUdp", "clear">>
EndUdp    == {CloseShut, DropUdp}

AtIdentifySerial == <<"identifySerial", "startSerial", "started">>
AtStartSerial    == <<"startSerial", "started">>
SerialLists == {SerialStart, AtIdentifySerial, AtStartSerial}

AbortDrop == <<"dropPort", "notStarted">>
CloseDrop == <<"dropPort", "clear">>
SerialEnd == {SerialAbort, AbortDrop, SerialExit, CloseDrop}

Todos == NetLists \cup AbortUdp \cup EndTcp \cup ExitTcps \cup EndUdp \cup SerialLists
         \cup SerialEnd \cup {AtStarted, AtNotStarted, AtClear, <<>>}

TodoInv == todo \in Todos

Spawned == {AtStartUdp, AtStarted}   \* a task of the start may run

CallInv ==
    /\ todo \in NetLists => mode = "net" /\ rc = 0
    /\ todo \in ExitTcps \cup EndUdp => mode = "net"
    /\ todo \in SerialLists \cup SerialEnd => mode = "serial"
    /\ todo \in SerialLists => ~Reopens
    /\ todo \in NetLists \cup SerialLists \cup AbortUdp \cup EndTcp
               \cup {AtStarted, AtNotStarted, SerialAbort, AbortDrop}
         => phase = "new"
    /\ todo \in {AtStarted, AtClear} => mode # "none"

PhaseInv ==
    /\ phase = "open" => mode # "none"
    /\ phase = "failed" => mode = "none" /\ todo = <<>>
    /\ phase = "closed" => zeroed
    /\ phase = "notClosed" => zeroed \/ ~Reopens
    /\ mode = "serial" => zeroed \/ ~Reopens
    /\ mode = "net" /\ todo = <<>> /\ ~zeroed => phase = "open"

\* Serial tasks and network tasks never run at once, and a network task never finds
\* the status ERROR, so that it reconnects nothing.
Active(t) == task[t] # Unused

TaskInv ==
    /\ \A t \in Tasks : Active(t) =>
           IF Kind(t) = "serial"
           THEN mode = "serial" /\ ~Reopens /\ task[t].at \notin {"closeUdp", "reopenUdp"}
           ELSE /\ task[t].at \in {"start", "test", "testError", "receive", "read"}
                /\ status # "error"
    /\ \A t, u \in Tasks : Active(t) /\ Active(u) /\ Kind(t) = "serial" => Kind(u) = "serial"
    /\ (~zeroed \/ ~Reopens) /\ phase \in {"new", "failed"} /\ todo \notin Spawned =>
           \A t \in Tasks : ~Active(t)
    /\ ~zeroed /\ phase \in {"new", "failed"} /\ todo \notin Spawned => status # "running"
    /\ mode = "net" /\ (todo \in Spawned \/ (todo = <<>> /\ phase = "open")) => status = "running"

\* Which descriptors can be sockets.
SocketsAre(S) == \A fd \in Fds : owner[fd] \in {"tcp", "udp"} => fd \in S

Disconnected ==
    \/ mode = "serial" \/ phase = "closed"
    \/ todo \in {NetStart, AtConnect, AtNotStarted, AtClear}
    \/ todo = <<>> /\ ~(mode = "net" /\ phase = "open")

SocketsInv ==
    /\ SocketsAre({tcp, udp})
    /\ todo \in EndTcp => SocketsAre({tcp})
    /\ todo \in EndUdp => SocketsAre({udp})
    /\ Disconnected => SocketsAre({})
    /\ todo \in {DropTcp, CloseExit} => sock = tcp
    /\ todo \in {AbortExit, DropUdp} => sock = udp
    /\ todo = AtConnect => tcp = None
    /\ todo = AtBind => udp = None

\* A handle that was never zero memory holds its own sockets or none.
HasTcp  == {AtIdentify, AtSetPort, AtCloseUdp, AtBind}
HasBoth == {AtStartTcp, AtStartUdp}

OwnInv ==
    ~zeroed =>
    /\ tcp # None => Holds(tcp, "tcp")
    /\ udp # None => Holds(udp, "udp")
    /\ todo \in HasTcp \cup HasBoth \cup ExitTcps => tcp # None
    /\ todo \in HasBoth \cup ExitTcps \cup EndUdp => udp # None
    /\ mode = "net" /\ todo \in {AtStarted, <<>>} => tcp # None /\ udp # None
    /\ mode = "net" /\ todo \in ExitTcps \cup EndUdp \cup {AtClear} => rc = 0

LifeInv == ~refused => CallInv /\ PhaseInv /\ TaskInv /\ SocketsInv /\ OwnInv

-----------------------------------------------------------------------------
(* The lists of steps.                                                     *)

\* Which list has a given first step: where a call of the program is, as the order of
\* the steps in fs_network_start, fs_network_exit and the serial calls says it.
LEMMA WhereWeAre ==
    ASSUME TodoInv
    PROVE  /\ NextIs("closeTcp") => todo = NetStart
           /\ NextIs("connect") => todo = AtConnect
           /\ NextIs("identify") => todo = AtIdentify
           /\ NextIs("setPort") => todo = AtSetPort
           /\ NextIs("closeUdp") => todo = AtCloseUdp
           /\ NextIs("bind") => todo = AtBind
           /\ NextIs("startTcp") => todo = AtStartTcp
           /\ NextIs("startUdp") => todo = AtStartUdp
           /\ NextIs("open") => todo = SerialStart
           /\ NextIs("identifySerial") => todo = AtIdentifySerial
           /\ NextIs("startSerial") => todo = AtStartSerial
           /\ NextIs("started") => todo = AtStarted
           /\ NextIs("notStarted") => todo = AtNotStarted
           /\ NextIs("clear") => todo = AtClear
           /\ NextIs("shutTcp") => todo \in {NoDriver, NetExit}
           /\ NextIs("exitTcp") => todo \in {DropTcp, CloseExit}
           /\ NextIs("shutUdp") => todo \in {NetAbort, CloseShut}
           /\ NextIs("exitUdp") => todo \in {AbortExit, DropUdp}
           /\ NextIs("exitPort") => todo \in {SerialAbort, SerialExit}
           /\ NextIs("dropPort") => todo \in {AbortDrop, CloseDrop}
<1> USE DEF NetStart, AtConnect, AtIdentify, AtSetPort, AtCloseUdp, AtBind, AtStartTcp,
AtStartUdp,
            AtStarted, AtNotStarted, AtClear, NoDriver, DropTcp, NetAbort, AbortExit, NetExit,
            CloseExit, CloseShut, DropUdp, SerialStart, AtIdentifySerial, AtStartSerial,
            SerialAbort, AbortDrop, SerialExit, CloseDrop
<1> USE DEF TodoInv, NextIs, Todos, NetLists, EndTcp, AbortUdp, ExitTcps, EndUdp, SerialLists,
            SerialEnd
<1>1. NextIs("closeTcp") => todo = NetStart
  OBVIOUS
<1>2. NextIs("connect") => todo = AtConnect
  OBVIOUS
<1>3. NextIs("identify") => todo = AtIdentify
  OBVIOUS
<1>4. NextIs("setPort") => todo = AtSetPort
  OBVIOUS
<1>5. NextIs("closeUdp") => todo = AtCloseUdp
  OBVIOUS
<1>6. NextIs("bind") => todo = AtBind
  OBVIOUS
<1>7. NextIs("startTcp") => todo = AtStartTcp
  OBVIOUS
<1>8. NextIs("startUdp") => todo = AtStartUdp
  OBVIOUS
<1>9. NextIs("open") => todo = SerialStart
  OBVIOUS
<1>10. NextIs("identifySerial") => todo = AtIdentifySerial
  OBVIOUS
<1>11. NextIs("startSerial") => todo = AtStartSerial
  OBVIOUS
<1>12. NextIs("started") => todo = AtStarted
  OBVIOUS
<1>13. NextIs("notStarted") => todo = AtNotStarted
  OBVIOUS
<1>14. NextIs("clear") => todo = AtClear
  OBVIOUS
<1>15. NextIs("shutTcp") => todo \in {NoDriver, NetExit}
  OBVIOUS
<1>16. NextIs("exitTcp") => todo \in {DropTcp, CloseExit}
  OBVIOUS
<1>17. NextIs("shutUdp") => todo \in {NetAbort, CloseShut}
  OBVIOUS
<1>18. NextIs("exitUdp") => todo \in {AbortExit, DropUdp}
  OBVIOUS
<1>19. NextIs("exitPort") => todo \in {SerialAbort, SerialExit}
  OBVIOUS
<1>20. NextIs("dropPort") => todo \in {AbortDrop, CloseDrop}
  OBVIOUS
<1>21. QED
  BY ONLY <1>1, <1>2, <1>3, <1>4, <1>5, <1>6, <1>7, <1>8, <1>9, <1>10,
          <1>11, <1>12, <1>13, <1>14, <1>15, <1>16, <1>17, <1>18, <1>19, <1>20

\* What is left of a list when its first step is done.
LEMMA WhatIsLeft ==
    /\ Tail(NetStart) = AtConnect /\ Tail(AtConnect) = AtIdentify
    /\ Tail(AtIdentify) = AtSetPort /\ Tail(AtSetPort) = AtCloseUdp
    /\ Tail(AtCloseUdp) = AtBind /\ Tail(AtBind) = AtStartTcp
    /\ Tail(AtStartTcp) = AtStartUdp /\ Tail(AtStartUdp) = AtStarted
    /\ Tail(SerialStart) = AtIdentifySerial /\ Tail(AtIdentifySerial) = AtStartSerial
    /\ Tail(AtStartSerial) = AtStarted /\ Tail(AtStarted) = <<>>
    /\ Tail(AtNotStarted) = <<>> /\ Tail(AtClear) = <<>>
    /\ Tail(NoDriver) = DropTcp /\ Tail(NetExit) = CloseExit
    /\ Tail(DropTcp) = AtNotStarted /\ Tail(CloseExit) = CloseShut
    /\ Tail(NetAbort) = AbortExit /\ Tail(CloseShut) = DropUdp
    /\ Tail(AbortExit) = NoDriver /\ Tail(DropUdp) = AtClear
    /\ Tail(SerialAbort) = AbortDrop /\ Tail(SerialExit) = CloseDrop
    /\ Tail(AbortDrop) = AtNotStarted /\ Tail(CloseDrop) = AtClear
BY DEF NetStart, AtConnect, AtIdentify, AtSetPort, AtCloseUdp, AtBind, AtStartTcp, AtStartUdp,
       AtStarted, AtNotStarted, AtClear, NoDriver, DropTcp, NetAbort, AbortExit, NetExit,
       CloseExit, CloseShut, DropUdp, SerialStart, AtIdentifySerial, AtStartSerial,
       SerialAbort, AbortDrop, SerialExit, CloseDrop

\* The lists of the different calls are different.
LEMMA ListsDiffer ==
    /\ \A l \in NetLists :
          l \notin AbortUdp \cup EndTcp \cup ExitTcps \cup EndUdp \cup SerialLists \cup SerialEnd
    /\ \A l \in AbortUdp :
          l \notin EndTcp \cup ExitTcps \cup EndUdp \cup SerialLists \cup SerialEnd
    /\ \A l \in EndTcp : l \notin ExitTcps \cup EndUdp \cup SerialLists \cup SerialEnd
    /\ \A l \in ExitTcps : l \notin EndUdp \cup SerialLists \cup SerialEnd
    /\ \A l \in EndUdp : l \notin SerialLists \cup SerialEnd
    /\ \A l \in SerialLists : l \notin SerialEnd
    /\ <<>> \notin NetLists \cup AbortUdp \cup EndTcp \cup ExitTcps \cup EndUdp
                   \cup SerialLists \cup SerialEnd
    /\ \A l \in {AtStarted, AtNotStarted, AtClear} :
          l \notin NetLists \cup AbortUdp \cup EndTcp \cup ExitTcps \cup EndUdp
                   \cup SerialLists \cup SerialEnd
    /\ \A l \in HasTcp : l \notin HasBoth \cup {NetStart, AtConnect}
    /\ \A l \in HasBoth : l \notin {NetStart, AtConnect, AtBind}
    /\ NetStart # AtConnect /\ AtStartTcp # AtStartUdp
    /\ AtBind \notin {AtIdentify, AtSetPort, AtCloseUdp}
    /\ NoDriver # DropTcp /\ NetAbort # AbortExit /\ NetExit # CloseExit /\ CloseShut # DropUdp
    /\ SerialAbort \notin {AbortDrop, SerialExit, CloseDrop}
    /\ AbortDrop \notin {SerialExit, CloseDrop}
    /\ AtStarted \notin {AtNotStarted, AtClear, <<>>} /\ AtNotStarted \notin {AtClear, <<>>}
    /\ AtClear # <<>>
<1> USE DEF NetStart, AtConnect, AtIdentify, AtSetPort, AtCloseUdp, AtBind, AtStartTcp,
AtStartUdp,
            AtStarted, AtNotStarted, AtClear, NoDriver, DropTcp, NetAbort, AbortExit, NetExit,
            CloseExit, CloseShut, DropUdp, SerialStart, AtIdentifySerial, AtStartSerial,
            SerialAbort, AbortDrop, SerialExit, CloseDrop
<1> USE DEF NetLists, EndTcp, AbortUdp, ExitTcps, EndUdp, SerialLists, SerialEnd, HasTcp,
HasBoth
<1>1. \A l \in NetLists :
          l \notin AbortUdp \cup EndTcp \cup ExitTcps \cup EndUdp \cup SerialLists \cup SerialEnd
  OBVIOUS
<1>2. \A l \in AbortUdp :
          l \notin EndTcp \cup ExitTcps \cup EndUdp \cup SerialLists \cup SerialEnd
  OBVIOUS
<1>3. \A l \in EndTcp : l \notin ExitTcps \cup EndUdp \cup SerialLists \cup SerialEnd
  OBVIOUS
<1>4. \A l \in ExitTcps : l \notin EndUdp \cup SerialLists \cup SerialEnd
  OBVIOUS
<1>5. \A l \in EndUdp : l \notin SerialLists \cup SerialEnd
  OBVIOUS
<1>6. \A l \in SerialLists : l \notin SerialEnd
  OBVIOUS
<1>7. \A l \in {AtStarted, AtNotStarted, AtClear} :
          l \notin NetLists \cup AbortUdp \cup EndTcp \cup ExitTcps \cup EndUdp
                   \cup SerialLists \cup SerialEnd
  OBVIOUS
<1>8. <<>> \notin NetLists \cup AbortUdp \cup EndTcp \cup ExitTcps \cup EndUdp
                 \cup SerialLists \cup SerialEnd
  OBVIOUS
<1>9. \A l \in HasTcp : l \notin HasBoth \cup {NetStart, AtConnect}
  OBVIOUS
<1>10. \A l \in HasBoth : l \notin {NetStart, AtConnect, AtBind}
  OBVIOUS
<1>11. /\ NetStart # AtConnect /\ AtStartTcp # AtStartUdp
       /\ AtBind \notin {AtIdentify, AtSetPort, AtCloseUdp}
  OBVIOUS
<1>12. NoDriver # DropTcp /\ NetAbort # AbortExit /\ NetExit # CloseExit /\ CloseShut # DropUdp
  OBVIOUS
<1>13. /\ SerialAbort \notin {AbortDrop, SerialExit, CloseDrop}
       /\ AbortDrop \notin {SerialExit, CloseDrop}
  OBVIOUS
<1>14. /\ AtStarted \notin {AtNotStarted, AtClear, <<>>} /\ AtNotStarted \notin {AtClear, <<>>}
       /\ AtClear # <<>>
  OBVIOUS
<1>15. QED
  BY ONLY <1>1, <1>2, <1>3, <1>4, <1>5, <1>6, <1>7, <1>8, <1>9, <1>10, <1>11, <1>12,
          <1>13, <1>14

-----------------------------------------------------------------------------
(* The descriptor table.                                                   *)

\* A set of natural numbers that is not empty has a least member.
LEMMA LeastExists ==
    ASSUME NEW S \in SUBSET Nat, S # {}
    PROVE  \E x \in S : \A y \in S : x <= y
<1>1. PICK x \in S : \A y \in S : <<y, x>> \notin OpToRel(<, Nat)
  BY NatLessThanWellFounded, WFMin
<1>2. \A y \in S : ~(y < x)
  BY <1>1 DEF OpToRel
<1>3. QED
  BY <1>2

\* open and socket return a descriptor that is free.
LEMMA NewFdIsFree ==
    ASSUME FreeFds # {}
    PROVE  NewFd \in Fds /\ owner[NewFd] = "free"
<1>1. FreeFds \in SUBSET Nat
  BY DEF FreeFds, Fds
<1>2. \E fd \in FreeFds : \A other \in FreeFds : fd <= other
  BY <1>1, LeastExists
<1>3. NewFd \in FreeFds
  BY <1>2 DEF NewFd, Min
<1>4. QED
  BY <1>3 DEF FreeFds

\* No descriptor is negative or a pointer to a path.
LEMMA FdsAre ==
    /\ None \notin Fds /\ Path \notin Fds /\ Path # None /\ 0 \in Fds
    /\ Fds \in SUBSET Nat /\ Path \in Nat /\ None < 0
BY LifecycleAssumption DEF Fds, None, Path

-----------------------------------------------------------------------------
(* The steps of a call.                                                    *)

\* Where each step of the program's is taken, and where it leads.
LEMMA Moves ==
    ASSUME TodoInv
    PROVE  /\ CloseTcp => todo = NetStart /\ todo' \in {AtConnect, NoDriver}
           /\ Connect => todo = AtConnect /\ todo' \in {AtIdentify, NoDriver}
           /\ Identify => todo = AtIdentify /\ todo' \in {AtSetPort, NetAbort}
           /\ SetPort => todo = AtSetPort /\ todo' \in {AtCloseUdp, NetAbort}
           /\ CloseUdp => todo = AtCloseUdp /\ todo' = AtBind
           /\ Bind => todo = AtBind /\ todo' \in {AtStartTcp, NetAbort}
           /\ StartTcp => todo = AtStartTcp /\ todo' = AtStartUdp
           /\ StartUdp => todo = AtStartUdp /\ todo' \in {AtStarted, NetAbort}
           /\ OpenPort => todo = SerialStart /\ todo' \in {AtIdentifySerial, AtNotStarted}
           /\ IdentifySerial => todo = AtIdentifySerial /\ todo' \in
                                 {AtStartSerial, AtNotStarted, SerialAbort}
           /\ StartSerial => todo = AtStartSerial /\ todo' \in {AtStarted, AtNotStarted}
           /\ Started => todo = AtStarted /\ todo' = <<>>
           /\ NotStarted => todo = AtNotStarted /\ todo' = <<>>
           /\ ShutTcp => \/ todo = NoDriver /\ todo' \in {DropTcp, AtNotStarted}
                         \/ todo = NetExit /\ todo' \in {CloseExit, CloseShut}
           /\ ExitTcp => \/ todo = DropTcp /\ todo' = AtNotStarted
                         \/ todo = CloseExit /\ todo' = CloseShut
           /\ ShutUdp => \/ todo = NetAbort /\ todo' \in {AbortExit, NoDriver}
                         \/ todo = CloseShut /\ todo' \in {DropUdp, AtClear}
           /\ ExitUdp => \/ todo = AbortExit /\ todo' = NoDriver
                         \/ todo = DropUdp /\ todo' = AtClear
           /\ ExitPort => \/ todo = SerialAbort /\ todo' \in {AbortDrop, AtNotStarted}
                          \/ todo = SerialExit /\ todo' \in {CloseDrop, AtClear}
           /\ DropPort => \/ todo = AbortDrop /\ todo' = AtNotStarted
                          \/ todo = CloseDrop /\ todo' = AtClear
           /\ Clear => todo = AtClear /\ todo' = <<>>
<1>1. CloseTcp => todo = NetStart /\ todo' \in {AtConnect, NoDriver}
  <2>1. CloseTcp => todo = NetStart
    BY WhereWeAre DEF CloseTcp
  <2>2. Tail(NetStart) = AtConnect
    BY WhatIsLeft
  <2>3. QED
    BY <2>1, <2>2 DEF CloseTcp, Proceed
<1>2. Connect => todo = AtConnect /\ todo' \in {AtIdentify, NoDriver}
  <2>1. Connect => todo = AtConnect
    BY WhereWeAre DEF Connect
  <2>2. Tail(AtConnect) = AtIdentify
    BY WhatIsLeft
  <2>3. QED
    BY <2>1, <2>2 DEF Connect, Proceed
<1>3. Identify => todo = AtIdentify /\ todo' \in {AtSetPort, NetAbort}
  <2>1. Identify => todo = AtIdentify
    BY WhereWeAre DEF Identify
  <2>2. Tail(AtIdentify) = AtSetPort
    BY WhatIsLeft
  <2>3. QED
    BY <2>1, <2>2 DEF Identify, Proceed
<1>4. SetPort => todo = AtSetPort /\ todo' \in {AtCloseUdp, NetAbort}
  <2>1. SetPort => todo = AtSetPort
    BY WhereWeAre DEF SetPort
  <2>2. Tail(AtSetPort) = AtCloseUdp
    BY WhatIsLeft
  <2>3. QED
    BY <2>1, <2>2 DEF SetPort, Proceed
<1>5. CloseUdp => todo = AtCloseUdp /\ todo' = AtBind
  <2>1. CloseUdp => todo = AtCloseUdp
    BY WhereWeAre DEF CloseUdp
  <2>2. Tail(AtCloseUdp) = AtBind
    BY WhatIsLeft
  <2>3. QED
    BY <2>1, <2>2 DEF CloseUdp, Proceed
<1>6. Bind => todo = AtBind /\ todo' \in {AtStartTcp, NetAbort}
  <2>1. Bind => todo = AtBind
    BY WhereWeAre DEF Bind
  <2>2. Tail(AtBind) = AtStartTcp
    BY WhatIsLeft
  <2>3. QED
    BY <2>1, <2>2 DEF Bind, Proceed
<1>7. StartTcp => todo = AtStartTcp /\ todo' = AtStartUdp
  <2>1. StartTcp => todo = AtStartTcp
    BY WhereWeAre DEF StartTcp
  <2>2. Tail(AtStartTcp) = AtStartUdp
    BY WhatIsLeft
  <2>3. QED
    BY <2>1, <2>2 DEF StartTcp, Proceed
<1>8. StartUdp => todo = AtStartUdp /\ todo' \in {AtStarted, NetAbort}
  <2>1. StartUdp => todo = AtStartUdp
    BY WhereWeAre DEF StartUdp
  <2>2. Tail(AtStartUdp) = AtStarted
    BY WhatIsLeft
  <2>3. QED
    BY <2>1, <2>2 DEF StartUdp, Proceed
<1>9. OpenPort => todo = SerialStart /\ todo' \in {AtIdentifySerial, AtNotStarted}
  <2>1. OpenPort => todo = SerialStart
    BY WhereWeAre DEF OpenPort
  <2>2. Tail(SerialStart) = AtIdentifySerial
    BY WhatIsLeft
  <2>3. QED
    BY <2>1, <2>2 DEF OpenPort, AtNotStarted, Proceed
<1>10. IdentifySerial => todo = AtIdentifySerial /\ todo' \in
         {AtStartSerial, AtNotStarted, SerialAbort}
  <2>1. IdentifySerial => todo = AtIdentifySerial
    BY WhereWeAre DEF IdentifySerial
  <2>2. Tail(AtIdentifySerial) = AtStartSerial
    BY WhatIsLeft
  <2>3. QED
    BY <2>1, <2>2 DEF IdentifySerial, AtNotStarted, Proceed
<1>11. StartSerial => todo = AtStartSerial /\ todo' \in {AtStarted, AtNotStarted}
  <2>1. StartSerial => todo = AtStartSerial
    BY WhereWeAre DEF StartSerial
  <2>2. Tail(AtStartSerial) = AtStarted
    BY WhatIsLeft
  <2>3. QED
    BY <2>1, <2>2 DEF StartSerial, AtNotStarted, Proceed
<1>12. Started => todo = AtStarted /\ todo' = <<>>
  <2>1. Started => todo = AtStarted
    BY WhereWeAre DEF Started
  <2>2. Tail(AtStarted) = <<>>
    BY WhatIsLeft
  <2>3. QED
    BY <2>1, <2>2 DEF Started, Proceed
<1>13. NotStarted => todo = AtNotStarted /\ todo' = <<>>
  <2>1. NotStarted => todo = AtNotStarted
    BY WhereWeAre DEF NotStarted
  <2>2. Tail(AtNotStarted) = <<>>
    BY WhatIsLeft
  <2>3. QED
    BY <2>1, <2>2 DEF NotStarted, Proceed
<1>14. ShutTcp => \/ todo = NoDriver /\ todo' \in {DropTcp, AtNotStarted}
                  \/ todo = NetExit /\ todo' \in {CloseExit, CloseShut}
  <2>1. ShutTcp => todo \in {NoDriver, NetExit}
    BY WhereWeAre DEF ShutTcp, Shut
  <2>2. /\ Tail(NoDriver) = DropTcp /\ Tail(DropTcp) = AtNotStarted
        /\ Tail(NetExit) = CloseExit /\ Tail(CloseExit) = CloseShut
    BY WhatIsLeft
  <2>3. QED
    BY <2>1, <2>2 DEF ShutTcp, Shut, Proceed
<1>15. ExitTcp => \/ todo = DropTcp /\ todo' = AtNotStarted
                  \/ todo = CloseExit /\ todo' = CloseShut
  <2>1. ExitTcp => todo \in {DropTcp, CloseExit}
    BY WhereWeAre DEF ExitTcp, Exit
  <2>2. Tail(DropTcp) = AtNotStarted /\ Tail(CloseExit) = CloseShut
    BY WhatIsLeft
  <2>3. QED
    BY <2>1, <2>2 DEF ExitTcp, Exit, Proceed
<1>16. ShutUdp => \/ todo = NetAbort /\ todo' \in {AbortExit, NoDriver}
                  \/ todo = CloseShut /\ todo' \in {DropUdp, AtClear}
  <2>1. ShutUdp => todo \in {NetAbort, CloseShut}
    BY WhereWeAre DEF ShutUdp, Shut
  <2>2. /\ Tail(NetAbort) = AbortExit /\ Tail(AbortExit) = NoDriver
        /\ Tail(CloseShut) = DropUdp /\ Tail(DropUdp) = AtClear
    BY WhatIsLeft
  <2>3. QED
    BY <2>1, <2>2 DEF ShutUdp, Shut, Proceed
<1>17. ExitUdp => \/ todo = AbortExit /\ todo' = NoDriver
                  \/ todo = DropUdp /\ todo' = AtClear
  <2>1. ExitUdp => todo \in {AbortExit, DropUdp}
    BY WhereWeAre DEF ExitUdp, Exit
  <2>2. Tail(AbortExit) = NoDriver /\ Tail(DropUdp) = AtClear
    BY WhatIsLeft
  <2>3. QED
    BY <2>1, <2>2 DEF ExitUdp, Exit, Proceed
<1>18. ExitPort => \/ todo = SerialAbort /\ todo' \in {AbortDrop, AtNotStarted}
                   \/ todo = SerialExit /\ todo' \in {CloseDrop, AtClear}
  <2>1. ExitPort => todo \in {SerialAbort, SerialExit}
    BY WhereWeAre DEF ExitPort
  <2>2. /\ Tail(SerialAbort) = AbortDrop /\ Tail(AbortDrop) = AtNotStarted
        /\ Tail(SerialExit) = CloseDrop /\ Tail(CloseDrop) = AtClear
    BY WhatIsLeft
  <2>3. QED
    BY <2>1, <2>2 DEF ExitPort, Proceed
<1>19. DropPort => \/ todo = AbortDrop /\ todo' = AtNotStarted
                   \/ todo = CloseDrop /\ todo' = AtClear
  <2>1. DropPort => todo \in {AbortDrop, CloseDrop}
    BY WhereWeAre DEF DropPort
  <2>2. Tail(AbortDrop) = AtNotStarted /\ Tail(CloseDrop) = AtClear
    BY WhatIsLeft
  <2>3. QED
    BY <2>1, <2>2 DEF DropPort, Proceed
<1>20. Clear => todo = AtClear /\ todo' = <<>>
  <2>1. Clear => todo = AtClear
    BY WhereWeAre DEF Clear
  <2>2. Tail(AtClear) = <<>>
    BY WhatIsLeft
  <2>3. QED
    BY <2>1, <2>2 DEF Clear, Proceed
<1>21. QED
  BY ONLY <1>1, <1>2, <1>3, <1>4, <1>5, <1>6, <1>7, <1>8, <1>9, <1>10,
          <1>11, <1>12, <1>13, <1>14, <1>15, <1>16, <1>17, <1>18, <1>19, <1>20

\* A call begins with a list of its own; nothing but a call's own steps changes the list.
LEMMA Calls ==
    /\ CallInitializeNetworked => todo = <<>> /\ todo' = NetStart
    /\ CallInitializeSerial => todo = <<>> /\ todo' = SerialStart
    /\ CallClosedown \/ CallReboot => todo = <<>> /\ todo' \in {NetExit, SerialExit}
    /\ OpenFile => todo' = todo
    /\ \A t \in Tasks : TaskStep(t) => UNCHANGED <<program, history, mode, addressed, pathed>>
<1>1. CallInitializeNetworked => todo = <<>> /\ todo' = NetStart
  BY DEF CallInitializeNetworked
<1>2. CallInitializeSerial => todo = <<>> /\ todo' = SerialStart
  BY DEF CallInitializeSerial
<1>3. CallClosedown \/ CallReboot => todo = <<>> /\ todo' \in {NetExit, SerialExit}
  BY DEF CallClosedown, CallReboot, Closedown
<1>4. OpenFile => todo' = todo
  BY DEF OpenFile, program
<1>5. ASSUME NEW t \in Tasks, TaskStep(t)
      PROVE  UNCHANGED <<program, history, mode, addressed, pathed>>
  BY <1>5
  DEF TaskStep, Begin, Test, TestError, Receive, Read, Fail, Recover, ClosePort, ReopenPort,
              ReopenPortFails, RecloseTcp, Reconnect, RecloseUdp, Rebind, handle
<1>6. QED
  BY <1>1, <1>2, <1>3, <1>4, <1>5

\* Every named list is one of a call's.
LEMMA NamedTodos ==
    /\ {NetStart, AtConnect, AtIdentify, AtSetPort, AtCloseUdp, AtBind, AtStartTcp, AtStartUdp,
        AtStarted, AtNotStarted, AtClear, <<>>} \subseteq Todos
    /\ {NoDriver, DropTcp, NetAbort, AbortExit, NetExit, CloseExit, CloseShut, DropUdp}
          \subseteq Todos
    /\ {SerialStart, AtIdentifySerial, AtStartSerial, SerialAbort, AbortDrop,
        SerialExit, CloseDrop}
           \subseteq Todos
BY DEF Todos, NetLists, EndTcp, AbortUdp, ExitTcps, EndUdp, SerialLists, SerialEnd

\* A step leaves the rest of a list of steps, or turns to another list.
LEMMA TodoStep ==
    ASSUME TodoInv, [Next]_vars
    PROVE  TodoInv'
<1>1. CASE Call
  BY <1>1, Calls, NamedTodos DEF Call, TodoInv
<1>2. CASE CloseTcp
  BY <1>2, Moves, NamedTodos DEF TodoInv
<1>3. CASE Connect
  BY <1>3, Moves, NamedTodos DEF TodoInv
<1>4. CASE Identify
  BY <1>4, Moves, NamedTodos DEF TodoInv
<1>5. CASE SetPort
  BY <1>5, Moves, NamedTodos DEF TodoInv
<1>6. CASE CloseUdp
  BY <1>6, Moves, NamedTodos DEF TodoInv
<1>7. CASE Bind
  BY <1>7, Moves, NamedTodos DEF TodoInv
<1>8. CASE StartTcp
  BY <1>8, Moves, NamedTodos DEF TodoInv
<1>9. CASE StartUdp
  BY <1>9, Moves, NamedTodos DEF TodoInv
<1>10. CASE OpenPort
  BY <1>10, Moves, NamedTodos DEF TodoInv
<1>11. CASE IdentifySerial
  BY <1>11, Moves, NamedTodos DEF TodoInv
<1>12. CASE StartSerial
  BY <1>12, Moves, NamedTodos DEF TodoInv
<1>13. CASE Started
  BY <1>13, Moves, NamedTodos DEF TodoInv
<1>14. CASE NotStarted
  BY <1>14, Moves, NamedTodos DEF TodoInv
<1>15. CASE ShutTcp
  BY <1>15, Moves, NamedTodos DEF TodoInv
<1>16. CASE ExitTcp
  BY <1>16, Moves, NamedTodos DEF TodoInv
<1>17. CASE ShutUdp
  BY <1>17, Moves, NamedTodos DEF TodoInv
<1>18. CASE ExitUdp
  BY <1>18, Moves, NamedTodos DEF TodoInv
<1>19. CASE ExitPort
  BY <1>19, Moves, NamedTodos DEF TodoInv
<1>20. CASE DropPort
  BY <1>20, Moves, NamedTodos DEF TodoInv
<1>21. CASE Clear
  BY <1>21, Moves, NamedTodos DEF TodoInv
<1>22. CASE OpenFile \/ (\E t \in Tasks : TaskStep(t)) \/ UNCHANGED vars
  BY <1>22, Calls DEF TodoInv, program, vars
<1>23. QED
  BY <1>1, <1>2, <1>3, <1>4, <1>5, <1>6, <1>7, <1>8, <1>9, <1>10, <1>11, <1>12,
     <1>13, <1>14, <1>15, <1>16, <1>17, <1>18, <1>19, <1>20, <1>21, <1>22 DEF Next, ProgramStep

-----------------------------------------------------------------------------
(* Type correctness.                                                       *)

\* What is left of a call is a sequence of steps.
LEMMA TodosAreSequences == \A l \in Todos : l \in Seq(Steps)
<1>1. \A l \in NetLists : l \in Seq(Steps)
  <2>1. NetStart \in Seq(Steps)
    BY DEF NetStart, Steps
  <2>2. AtConnect \in Seq(Steps)
    BY DEF AtConnect, Steps
  <2>3. AtIdentify \in Seq(Steps)
    BY DEF AtIdentify, Steps
  <2>4. AtSetPort \in Seq(Steps)
    BY DEF AtSetPort, Steps
  <2>5. AtCloseUdp \in Seq(Steps)
    BY DEF AtCloseUdp, Steps
  <2>6. AtBind \in Seq(Steps)
    BY DEF AtBind, Steps
  <2>7. AtStartTcp \in Seq(Steps)
    BY DEF AtStartTcp, Steps
  <2>8. AtStartUdp \in Seq(Steps)
    BY DEF AtStartUdp, Steps
  <2>9. QED
    BY <2>1, <2>2, <2>3, <2>4, <2>5, <2>6, <2>7, <2>8 DEF NetLists
<1>2. \A l \in AbortUdp \cup EndTcp : l \in Seq(Steps)
  <2>1. NetAbort \in Seq(Steps)
    BY DEF NetAbort, Steps
  <2>2. AbortExit \in Seq(Steps)
    BY DEF AbortExit, Steps
  <2>3. NoDriver \in Seq(Steps)
    BY DEF NoDriver, Steps
  <2>4. DropTcp \in Seq(Steps)
    BY DEF DropTcp, Steps
  <2>5. QED
    BY <2>1, <2>2, <2>3, <2>4 DEF AbortUdp, EndTcp
<1>3. \A l \in ExitTcps \cup EndUdp : l \in Seq(Steps)
  <2>1. NetExit \in Seq(Steps)
    BY DEF NetExit, Steps
  <2>2. CloseExit \in Seq(Steps)
    BY DEF CloseExit, Steps
  <2>3. CloseShut \in Seq(Steps)
    BY DEF CloseShut, Steps
  <2>4. DropUdp \in Seq(Steps)
    BY DEF DropUdp, Steps
  <2>5. QED
    BY <2>1, <2>2, <2>3, <2>4 DEF ExitTcps, EndUdp
<1>4. \A l \in SerialLists \cup SerialEnd : l \in Seq(Steps)
  <2>1. SerialStart \in Seq(Steps)
    BY DEF SerialStart, Steps
  <2>2. AtIdentifySerial \in Seq(Steps)
    BY DEF AtIdentifySerial, Steps
  <2>3. AtStartSerial \in Seq(Steps)
    BY DEF AtStartSerial, Steps
  <2>4. SerialAbort \in Seq(Steps)
    BY DEF SerialAbort, Steps
  <2>5. AbortDrop \in Seq(Steps)
    BY DEF AbortDrop, Steps
  <2>6. SerialExit \in Seq(Steps)
    BY DEF SerialExit, Steps
  <2>7. CloseDrop \in Seq(Steps)
    BY DEF CloseDrop, Steps
  <2>8. QED
    BY <2>1, <2>2, <2>3, <2>4, <2>5, <2>6, <2>7 DEF SerialLists, SerialEnd
<1>5. \A l \in {AtStarted, AtNotStarted, AtClear, <<>>} : l \in Seq(Steps)
  <2>1. AtStarted \in Seq(Steps)
    BY DEF AtStarted, Steps
  <2>2. AtNotStarted \in Seq(Steps)
    BY DEF AtNotStarted, Steps
  <2>3. AtClear \in Seq(Steps)
    BY DEF AtClear, Steps
  <2>4. <<>> \in Seq(Steps)
    OBVIOUS
  <2>5. QED
    BY <2>1, <2>2, <2>3, <2>4
<1>6. QED
  BY <1>1, <1>2, <1>3, <1>4, <1>5 DEF Todos

\* The records of the tasks.
TaskType ==
    [Tasks -> [kind : {"tcp", "udp", "serial"}, at : Places, fd : Fds \cup {None, Path}]]

\* A task that goes to a place is still a task.
LEMMA GotoType ==
    ASSUME NEW tasks \in TaskType, NEW t \in Tasks, NEW place \in Places
    PROVE  [tasks EXCEPT ![t].at = place] \in TaskType
BY DEF TaskType

\* So is one that takes or drops a descriptor.
LEMMA ReadType ==
    ASSUME NEW tasks \in TaskType, NEW t \in Tasks, NEW place \in Places,
           NEW value \in Fds \cup {None, Path}
    PROVE  [tasks EXCEPT ![t].at = place, ![t].fd = value] \in TaskType
BY DEF TaskType

\* So is one that ends.
LEMMA EndType ==
    ASSUME NEW tasks \in TaskType, NEW t \in Tasks
    PROVE  [tasks EXCEPT ![t] = Unused] \in TaskType
<1>1. Unused \in [kind : {"tcp", "udp", "serial"}, at : Places, fd : Fds \cup {None, Path}]
  BY DEF Unused, Places
<1>2. QED
  BY <1>1 DEF TaskType

\* So is a new task.
LEMMA SpawnType ==
    ASSUME NEW tasks \in TaskType, NEW kind \in {"tcp", "udp", "serial"}, NEW t
    PROVE  [tasks EXCEPT ![t] = [kind |-> kind, at |-> "start", fd |-> None]] \in TaskType
<1>1. [kind |-> kind, at |-> "start", fd |-> None]
          \in [kind : {"tcp", "udp", "serial"}, at : Places, fd : Fds \cup {None, Path}]
  BY DEF Places
<1>2. QED
  BY <1>1 DEF TaskType

\* Every step keeps the records of the tasks.
LEMMA TaskTypeStep ==
    ASSUME TypeOK, [Next]_vars
    PROVE  task' \in TaskType
<1>1. task \in TaskType
  BY DEF TypeOK, TaskType
<1>2. {tcp, udp, port} \subseteq Fds \cup {None, Path}
  BY DEF TypeOK
<1>3. {"test", "testError", "receive", "read", "failed", "recovered", "close", "reopen",
       "closeUdp", "reopenUdp"} \subseteq Places
  BY DEF Places
<1>4. ASSUME StartTcp \/ StartUdp \/ StartSerial PROVE task' \in TaskType
  BY <1>1, <1>4, SpawnType DEF StartTcp, StartUdp, StartSerial, Spawn, Refuse

<1>5. ASSUME NEW t \in Tasks, Begin(t) PROVE task' \in TaskType
  BY <1>1, <1>3, <1>5, GotoType DEF Begin, Goto
<1>6. ASSUME NEW t \in Tasks, Test(t) PROVE task' \in TaskType
  <2>1. \/ task' = [task EXCEPT ![t] = Unused]
        \/ \E place \in {"testError", "receive", "close"} :
              task' = [task EXCEPT ![t].at = place]
    BY <1>6 DEF Test, Goto
  <2>2. QED
    BY <1>1, <1>3, <2>1, GotoType, EndType
<1>7. ASSUME NEW t \in Tasks, TestError(t) PROVE task' \in TaskType
  <2>1. \/ task' = [task EXCEPT ![t] = Unused]
        \/ \E place \in {"testError", "receive", "close"} :
              task' = [task EXCEPT ![t].at = place]
    BY <1>7 DEF TestError, Goto
  <2>2. QED
    BY <1>1, <1>3, <2>1, GotoType, EndType
<1>8. ASSUME NEW t \in Tasks, Receive(t) PROVE task' \in TaskType
  <2>1. PICK fd \in {tcp, udp, port}, place \in {"read", "failed", "test"} :
            task' \in {[task EXCEPT ![t].at = place, ![t].fd = fd],
                       [task EXCEPT ![t].at = place]}
    BY <1>8 DEF Receive, Goto
  <2>2. QED
    BY <1>1, <1>2, <1>3, <2>1, GotoType, ReadType
<1>9. ASSUME NEW t \in Tasks, Read(t) PROVE task' \in TaskType
  <2>1. PICK place \in {"test", "receive", "failed"} :
            task' = [task EXCEPT ![t].at = place, ![t].fd = None]
    BY <1>9 DEF Read
  <2>2. QED
    BY <1>1, <1>3, <2>1, ReadType
<1>10. ASSUME NEW t \in Tasks, Fail(t) PROVE task' \in TaskType
  BY <1>1, <1>3, <1>10, GotoType DEF Fail, Goto
<1>11. ASSUME NEW t \in Tasks, Recover(t) PROVE task' \in TaskType
  BY <1>1, <1>3, <1>11, GotoType DEF Recover, Goto
<1>12. ASSUME NEW t \in Tasks, ClosePort(t) PROVE task' \in TaskType
  BY <1>1, <1>3, <1>12, GotoType DEF ClosePort, Goto
<1>13. ASSUME NEW t \in Tasks, ReopenPort(t) PROVE task' \in TaskType
  BY <1>1, <1>3, <1>13, GotoType DEF ReopenPort, Goto
<1>14. ASSUME NEW t \in Tasks, ReopenPortFails(t) PROVE task' \in TaskType
  BY <1>1, <1>3, <1>14, GotoType DEF ReopenPortFails, Goto
<1>15. ASSUME NEW t \in Tasks, RecloseTcp(t) PROVE task' \in TaskType
  BY <1>1, <1>3, <1>15, GotoType DEF RecloseTcp, Goto
<1>16. ASSUME NEW t \in Tasks, Reconnect(t) PROVE task' \in TaskType
  BY <1>1, <1>3, <1>16, GotoType DEF Reconnect, Goto
<1>17. ASSUME NEW t \in Tasks, RecloseUdp(t) PROVE task' \in TaskType
  BY <1>1, <1>3, <1>17, GotoType DEF RecloseUdp, Goto
<1>18. ASSUME NEW t \in Tasks, Rebind(t) PROVE task' \in TaskType
  BY <1>1, <1>3, <1>18, GotoType DEF Rebind, Goto
<1>19. ASSUME UNCHANGED task PROVE task' \in TaskType
  BY <1>1, <1>19
<1>20. \/ CallInitializeNetworked \/ CallInitializeSerial \/ CallClosedown \/ CallReboot
       \/ OpenFile \/ CloseTcp \/ Connect \/ Identify \/ SetPort \/ CloseUdp \/ Bind \/ OpenPort
       \/ IdentifySerial \/ Started \/ NotStarted \/ ShutTcp \/ ExitTcp \/ ShutUdp \/ ExitUdp
       \/ ExitPort \/ DropPort \/ Clear \/ UNCHANGED vars
      => UNCHANGED task
  BY DEF CallInitializeNetworked, CallInitializeSerial, CallClosedown, CallReboot, OpenFile,
         CloseTcp, Connect, Identify, SetPort, CloseUdp, Bind, OpenPort, IdentifySerial,
         Started, NotStarted, ShutTcp, ExitTcp, ShutUdp, ExitUdp, ExitPort, DropPort, Clear,
         Closedown, Shut, Exit, vars
<1>21. QED
  BY <1>4, <1>5, <1>6, <1>7, <1>8, <1>9, <1>10, <1>11, <1>12, <1>13, <1>14, <1>15, <1>16,
     <1>17, <1>18, <1>19, <1>20 DEF Next, Call, ProgramStep, TaskStep

\* Every step keeps the types.
LEMMA TypeStep ==
    ASSUME TypeOK, TodoInv, [Next]_vars
    PROVE  TypeOK'
<1>1. todo' \in Seq(Steps)
  BY TodoStep, TodosAreSequences DEF TodoInv
<1>2. task' \in
         [Tasks -> [kind : {"tcp", "udp", "serial"}, at : Places, fd : Fds \cup {None, Path}]]
  BY TaskTypeStep DEF TaskType
<1>3. ASSUME CallInitializeNetworked PROVE TypeOK'
  BY <1>1, <1>2, <1>3, FdsAre, LifecycleAssumption
  DEF TypeOK, CallInitializeNetworked, Drivers, handle, program, history
<1>4. ASSUME CallInitializeSerial PROVE TypeOK'
  BY <1>1, <1>2, <1>4, FdsAre, LifecycleAssumption
  DEF TypeOK, CallInitializeSerial, Drivers, handle, program, history
<1>5. ASSUME CallClosedown PROVE TypeOK'
  BY <1>1, <1>2, <1>5, FdsAre
  DEF TypeOK, CallClosedown, Closedown, Drivers, handle, program, history
<1>6. ASSUME CallReboot PROVE TypeOK'
  BY <1>1, <1>2, <1>6, FdsAre
  DEF TypeOK, CallReboot, Closedown, Drivers, handle, program, history
<1>7. ASSUME OpenFile PROVE TypeOK'
  BY <1>1, <1>2, <1>7, FdsAre, NewFdIsFree, LifecycleAssumption
  DEF TypeOK, OpenFile, Opened, Drivers, handle, program, history
<1>8. ASSUME CloseTcp PROVE TypeOK'
  BY <1>1, <1>2, <1>8, FdsAre
  DEF TypeOK, CloseTcp, Closed, Drivers, handle, program, history
<1>9. ASSUME Connect PROVE TypeOK'
  BY <1>1, <1>2, <1>9, FdsAre, NewFdIsFree
  DEF TypeOK, Connect, Opened, Drivers, handle, program, history
<1>10. ASSUME Identify PROVE TypeOK'
  BY <1>1, <1>2, <1>10, FdsAre
  DEF TypeOK, Identify, Drivers, handle, program, history
<1>11. ASSUME SetPort PROVE TypeOK'
  BY <1>1, <1>2, <1>11, FdsAre
  DEF TypeOK, SetPort, Drivers, handle, program, history
<1>12. ASSUME CloseUdp PROVE TypeOK'
  BY <1>1, <1>2, <1>12, FdsAre
  DEF TypeOK, CloseUdp, Closed, Drivers, handle, program, history
<1>13. ASSUME Bind PROVE TypeOK'
  BY <1>1, <1>2, <1>13, FdsAre, NewFdIsFree
  DEF TypeOK, Bind, Opened, Drivers, handle, program, history
<1>14. ASSUME StartTcp PROVE TypeOK'
  BY <1>1, <1>2, <1>14, FdsAre
  DEF TypeOK, StartTcp, Spawn, Refuse, Drivers, handle, program, history
<1>15. ASSUME StartUdp PROVE TypeOK'
  BY <1>1, <1>2, <1>15, FdsAre
  DEF TypeOK, StartUdp, Spawn, Refuse, Drivers, handle, program, history
<1>16. ASSUME OpenPort PROVE TypeOK'
  BY <1>1, <1>2, <1>16, FdsAre, NewFdIsFree
  DEF TypeOK, OpenPort, Opened, Drivers, handle, program, history
<1>17. ASSUME IdentifySerial PROVE TypeOK'
  BY <1>1, <1>2, <1>17, FdsAre
  DEF TypeOK, IdentifySerial, Drivers, handle, program, history
<1>18. ASSUME StartSerial PROVE TypeOK'
  BY <1>1, <1>2, <1>18, FdsAre
  DEF TypeOK, StartSerial, Spawn, Refuse, Drivers, handle, program, history
<1>19. ASSUME Started PROVE TypeOK'
  BY <1>1, <1>2, <1>19, FdsAre
  DEF TypeOK, Started, Drivers, handle, program, history
<1>20. ASSUME NotStarted PROVE TypeOK'
  BY <1>1, <1>2, <1>20, FdsAre
  DEF TypeOK, NotStarted, Drivers, handle, program, history
<1>21. ASSUME ShutTcp PROVE TypeOK'
  BY <1>1, <1>2, <1>21, FdsAre
  DEF TypeOK, ShutTcp, Shut, Drivers, handle, program, history
<1>22. ASSUME ExitTcp PROVE TypeOK'
  BY <1>1, <1>2, <1>22, FdsAre
  DEF TypeOK, ExitTcp, Exit, Closed, Drivers, handle, program, history
<1>23. ASSUME ShutUdp PROVE TypeOK'
  BY <1>1, <1>2, <1>23, FdsAre
  DEF TypeOK, ShutUdp, Shut, Drivers, handle, program, history
<1>24. ASSUME ExitUdp PROVE TypeOK'
  BY <1>1, <1>2, <1>24, FdsAre
  DEF TypeOK, ExitUdp, Exit, Closed, Drivers, handle, program, history
<1>25. ASSUME ExitPort PROVE TypeOK'
  BY <1>1, <1>2, <1>25, FdsAre
  DEF TypeOK, ExitPort, Closed, Drivers, handle, program, history
<1>26. ASSUME DropPort PROVE TypeOK'
  BY <1>1, <1>2, <1>26, FdsAre
  DEF TypeOK, DropPort, Drivers, handle, program, history
<1>27. ASSUME Clear PROVE TypeOK'
  BY <1>1, <1>2, <1>27, FdsAre
  DEF TypeOK, Clear, Drivers, handle, program, history
<1>28. ASSUME NEW t \in Tasks, Begin(t) PROVE TypeOK'
  BY <1>1, <1>2, <1>28, FdsAre
  DEF TypeOK, Begin, Drivers, handle, program, history
<1>29. ASSUME NEW t \in Tasks, Test(t) PROVE TypeOK'
  BY <1>1, <1>2, <1>29, FdsAre
  DEF TypeOK, Test, Drivers, handle, program, history
<1>30. ASSUME NEW t \in Tasks, TestError(t) PROVE TypeOK'
  BY <1>1, <1>2, <1>30, FdsAre
  DEF TypeOK, TestError, Drivers, handle, program, history
<1>31. ASSUME NEW t \in Tasks, Receive(t) PROVE TypeOK'
  BY <1>1, <1>2, <1>31, FdsAre
  DEF TypeOK, Receive, Drivers, handle, program, history
<1>32. ASSUME NEW t \in Tasks, Read(t) PROVE TypeOK'
  BY <1>1, <1>2, <1>32, FdsAre
  DEF TypeOK, Read, Drivers, handle, program, history
<1>33. ASSUME NEW t \in Tasks, Fail(t) PROVE TypeOK'
  BY <1>1, <1>2, <1>33, FdsAre
  DEF TypeOK, Fail, Drivers, handle, program, history
<1>34. ASSUME NEW t \in Tasks, Recover(t) PROVE TypeOK'
  BY <1>1, <1>2, <1>34, FdsAre
  DEF TypeOK, Recover, Drivers, handle, program, history
<1>35. ASSUME NEW t \in Tasks, ClosePort(t) PROVE TypeOK'
  BY <1>1, <1>2, <1>35, FdsAre
  DEF TypeOK, ClosePort, Closed, Drivers, handle, program, history
<1>36. ASSUME NEW t \in Tasks, ReopenPort(t) PROVE TypeOK'
  BY <1>1, <1>2, <1>36, FdsAre, NewFdIsFree
  DEF TypeOK, ReopenPort, Opened, Drivers, handle, program, history
<1>37. ASSUME NEW t \in Tasks, ReopenPortFails(t) PROVE TypeOK'
  BY <1>1, <1>2, <1>37, FdsAre, NewFdIsFree
  DEF TypeOK, ReopenPortFails, Opened, Drivers, handle, program, history
<1>38. ASSUME NEW t \in Tasks, RecloseTcp(t) PROVE TypeOK'
  BY <1>1, <1>2, <1>38, FdsAre
  DEF TypeOK, RecloseTcp, Closed, Drivers, handle, program, history
<1>39. ASSUME NEW t \in Tasks, Reconnect(t) PROVE TypeOK'
  BY <1>1, <1>2, <1>39, FdsAre, NewFdIsFree
  DEF TypeOK, Reconnect, Opened, Drivers, handle, program, history
<1>40. ASSUME NEW t \in Tasks, RecloseUdp(t) PROVE TypeOK'
  BY <1>1, <1>2, <1>40, FdsAre
  DEF TypeOK, RecloseUdp, Closed, Drivers, handle, program, history
<1>41. ASSUME NEW t \in Tasks, Rebind(t) PROVE TypeOK'
  BY <1>1, <1>2, <1>41, FdsAre, NewFdIsFree
  DEF TypeOK, Rebind, Opened, Drivers, handle, program, history
<1>42. CASE UNCHANGED vars
  BY <1>42 DEF TypeOK, vars, handle, program, history
<1>43. QED
  BY <1>3, <1>4, <1>5, <1>6, <1>7, <1>8, <1>9, <1>10, <1>11, <1>12, <1>13, <1>14, <1>15,
     <1>16, <1>17, <1>18, <1>19, <1>20, <1>21, <1>22, <1>23, <1>24, <1>25, <1>26, <1>27,
     <1>28, <1>29, <1>30, <1>31, <1>32, <1>33, <1>34, <1>35, <1>36, <1>37, <1>38, <1>39,
     <1>40, <1>41, <1>42
  DEF Next, Call, ProgramStep, TaskStep

\* The descriptors in the handle.
LEMMA Descriptors ==
    ASSUME TypeOK
    PROVE  /\ tcp \in Fds \cup {None, Path} /\ (~(tcp >= 0) => tcp = None)
           /\ udp \in Fds \cup {None, Path} /\ (~(udp >= 0) => udp = None)
           /\ port \in Fds \cup {None, Path} /\ (~(port >= 0) => port = None)
           /\ sock \in Fds \cup {None, Path}
           /\ owner \in [Fds -> {"free", "program", "tcp", "udp", "port"}]
           /\ task \in [Tasks -> [kind : {"tcp", "udp", "serial"}, at : Places,
                                  fd : Fds \cup {None, Path}]]
<1>1. /\ tcp \in Fds \cup {None, Path} /\ udp \in Fds \cup {None, Path}
      /\ port \in Fds \cup {None, Path} /\ sock \in Fds \cup {None, Path}
  BY DEF TypeOK
<1>2. \A fd \in Fds \cup {None, Path} : ~(fd >= 0) => fd = None
  BY FdsAre
<1>3. owner \in [Fds -> {"free", "program", "tcp", "udp", "port"}]
  BY DEF TypeOK, Drivers
<1>4. task \in
         [Tasks -> [kind : {"tcp", "udp", "serial"}, at : Places, fd : Fds \cup {None, Path}]]
  BY DEF TypeOK
<1>5. QED
  BY <1>1, <1>2, <1>3, <1>4

\* After fs_thread_start the tasks are those from before, and the one at t, if it is one.
SpawnedAt(kind, t) ==
    \A u \in Tasks :
       IF u = t THEN task'[u] # Unused /\ task'[u].kind = kind /\ task'[u].at = "start"
       ELSE task'[u] = task[u]

\* That is what fs_thread_start does.
LEMMA SpawnLeaves ==
    ASSUME task \in [Tasks -> [kind : {"tcp", "udp", "serial"}, at : Places,
                               fd : Fds \cup {None, Path}]],
           NEW kind \in {"tcp", "udp", "serial"}, Spawn(kind)
    PROVE  status' = "running" /\ \E t : SpawnedAt(kind, t)
<1>1. PICK t : task' = [task EXCEPT ![t] = [kind |-> kind, at |-> "start", fd |-> None]]
  BY DEF Spawn
<1>2. [kind |-> kind, at |-> "start", fd |-> None] # Unused
  BY DEF Unused
<1>3. \A u \in Tasks : IF u = t THEN task'[u] = [kind |-> kind, at |-> "start", fd |-> None]
                       ELSE task'[u] = task[u]
  BY <1>1
<1>4. SpawnedAt(kind, t)
  BY <1>2, <1>3 DEF SpawnedAt
<1>5. QED
  BY <1>4 DEF Spawn

-----------------------------------------------------------------------------
(* The steps of the program's calls keep the invariant.                    *)

LifeParts == CallInv /\ PhaseInv /\ TaskInv /\ SocketsInv /\ OwnInv

\* Before it connects, the driver closes the TCP socket it finds in the handle.
LEMMA CloseTcpKeeps ==
    ASSUME TypeOK, TodoInv, LifeParts, CloseTcp
    PROVE  LifeParts'
<1>1. CallInv /\ PhaseInv /\ TaskInv /\ SocketsInv /\ OwnInv
  BY DEF LifeParts
<1>2. todo = NetStart /\ todo' \in {AtConnect, NoDriver}
  BY Moves
<1>3. mode = "net" /\ phase = "new" /\ rc = 0
  BY <1>1, <1>2, ListsDiffer
  DEF CallInv, HasTcp, HasBoth, NetLists, AbortUdp, EndTcp, ExitTcps, EndUdp, SerialLists,
      SerialEnd
<1>4. CallInv'
  BY <1>1, <1>2, <1>3, ListsDiffer
  DEF CallInv, CloseTcp, Closed, HasTcp, HasBoth, NetLists, AbortUdp, EndTcp, ExitTcps, EndUdp,
      SerialLists, SerialEnd, handle, history
<1>5. PhaseInv'
  BY <1>1, <1>2, <1>3, ListsDiffer
  DEF PhaseInv, CloseTcp, Closed, HasTcp, HasBoth, NetLists, AbortUdp, EndTcp, ExitTcps,
      EndUdp, SerialLists, SerialEnd, handle, history
<1>6. TaskInv'
  BY <1>1, <1>2, <1>3, ListsDiffer
  DEF TaskInv, Active, Kind, Spawned, CloseTcp, Closed, HasTcp, HasBoth, NetLists, AbortUdp,
      EndTcp, ExitTcps, EndUdp, SerialLists, SerialEnd, handle, history
<1>7. SocketsInv'
  BY <1>1, <1>2, <1>3, ListsDiffer, FdsAre
  DEF TypeOK, SocketsInv, SocketsAre, Disconnected, CloseTcp, Closed, HasTcp, HasBoth,
      NetLists, AbortUdp, EndTcp, ExitTcps, EndUdp, SerialLists, SerialEnd, handle, history
<1>8. OwnInv'
  BY <1>1, <1>2, <1>3, ListsDiffer, FdsAre
  DEF TypeOK, OwnInv, Holds, CloseTcp, Closed, HasTcp, HasBoth, NetLists, AbortUdp, EndTcp,
      ExitTcps, EndUdp, SerialLists, SerialEnd, handle, history
<1>9. QED
  BY <1>4, <1>5, <1>6, <1>7, <1>8 DEF LifeParts

\* The new TCP socket takes a descriptor that is free, and is the handle's.
LEMMA ConnectKeeps ==
    ASSUME TypeOK, TodoInv, LifeParts, Connect
    PROVE  LifeParts'
<1>1. CallInv /\ PhaseInv /\ TaskInv /\ SocketsInv /\ OwnInv
  BY DEF LifeParts
<1>2. todo = AtConnect /\ todo' \in {AtIdentify, NoDriver}
  BY Moves
<1>3. mode = "net" /\ phase = "new" /\ rc = 0
  BY <1>1, <1>2, ListsDiffer
  DEF CallInv, HasTcp, HasBoth, NetLists, AbortUdp, EndTcp, ExitTcps, EndUdp, SerialLists,
      SerialEnd
<1>4. CallInv'
  BY <1>1, <1>2, <1>3, ListsDiffer
  DEF CallInv, Connect, Opened, HasTcp, HasBoth, NetLists, AbortUdp, EndTcp, ExitTcps, EndUdp,
      SerialLists, SerialEnd, handle, history
<1>5. PhaseInv'
  BY <1>1, <1>2, <1>3, ListsDiffer
  DEF PhaseInv, Connect, Opened, HasTcp, HasBoth, NetLists, AbortUdp, EndTcp, ExitTcps, EndUdp,
      SerialLists, SerialEnd, handle, history
<1>6. TaskInv'
  BY <1>1, <1>2, <1>3, ListsDiffer
  DEF TaskInv, Active, Kind, Spawned, Connect, Opened, HasTcp, HasBoth, NetLists, AbortUdp,
      EndTcp, ExitTcps, EndUdp, SerialLists, SerialEnd, handle, history
<1>7. SocketsInv'
  BY <1>1, <1>2, <1>3, ListsDiffer, FdsAre, NewFdIsFree
  DEF TypeOK, SocketsInv, SocketsAre, Disconnected, Connect, Opened, HasTcp, HasBoth, NetLists,
      AbortUdp, EndTcp, ExitTcps, EndUdp, SerialLists, SerialEnd, handle, history
<1>8. OwnInv'
  BY <1>1, <1>2, <1>3, ListsDiffer, FdsAre, NewFdIsFree
  DEF TypeOK, OwnInv, Holds, Connect, Opened, HasTcp, HasBoth, NetLists, AbortUdp, EndTcp,
      ExitTcps, EndUdp, SerialLists, SerialEnd, handle, history
<1>9. QED
  BY <1>4, <1>5, <1>6, <1>7, <1>8 DEF LifeParts

\* An identification that was not answered ends the start; the sockets are still the handle's.
LEMMA IdentifyKeeps ==
    ASSUME TypeOK, TodoInv, LifeParts, Identify
    PROVE  LifeParts'
<1>1. CallInv /\ PhaseInv /\ TaskInv /\ SocketsInv /\ OwnInv
  BY DEF LifeParts
<1>2. todo = AtIdentify /\ todo' \in {AtSetPort, NetAbort}
  BY Moves
<1>3. mode = "net" /\ phase = "new" /\ rc = 0
  BY <1>1, <1>2, ListsDiffer
  DEF CallInv, HasTcp, HasBoth, NetLists, AbortUdp, EndTcp, ExitTcps, EndUdp, SerialLists,
      SerialEnd
<1>4. CallInv'
  BY <1>1, <1>2, <1>3, ListsDiffer
  DEF CallInv, Identify, HasTcp, HasBoth, NetLists, AbortUdp, EndTcp, ExitTcps, EndUdp,
      SerialLists, SerialEnd, handle, history
<1>5. PhaseInv'
  BY <1>1, <1>2, <1>3, ListsDiffer
  DEF PhaseInv, Identify, HasTcp, HasBoth, NetLists, AbortUdp, EndTcp, ExitTcps, EndUdp,
      SerialLists, SerialEnd, handle, history
<1>6. TaskInv'
  BY <1>1, <1>2, <1>3, ListsDiffer
  DEF TaskInv, Active, Kind, Spawned, Identify, HasTcp, HasBoth, NetLists, AbortUdp, EndTcp,
      ExitTcps, EndUdp, SerialLists, SerialEnd, handle, history
<1>7. SocketsInv'
  BY <1>1, <1>2, <1>3, ListsDiffer, FdsAre
  DEF TypeOK, SocketsInv, SocketsAre, Disconnected, Identify, HasTcp, HasBoth, NetLists,
      AbortUdp, EndTcp, ExitTcps, EndUdp, SerialLists, SerialEnd, handle, history
<1>8. OwnInv'
  BY <1>1, <1>2, <1>3, ListsDiffer, FdsAre
  DEF TypeOK, OwnInv, Holds, Identify, HasTcp, HasBoth, NetLists, AbortUdp, EndTcp, ExitTcps,
      EndUdp, SerialLists, SerialEnd, handle, history
<1>9. QED
  BY <1>4, <1>5, <1>6, <1>7, <1>8 DEF LifeParts

\* So does a UDP port that could not be sent.
LEMMA SetPortKeeps ==
    ASSUME TypeOK, TodoInv, LifeParts, SetPort
    PROVE  LifeParts'
<1>1. CallInv /\ PhaseInv /\ TaskInv /\ SocketsInv /\ OwnInv
  BY DEF LifeParts
<1>2. todo = AtSetPort /\ todo' \in {AtCloseUdp, NetAbort}
  BY Moves
<1>3. mode = "net" /\ phase = "new" /\ rc = 0
  BY <1>1, <1>2, ListsDiffer
  DEF CallInv, HasTcp, HasBoth, NetLists, AbortUdp, EndTcp, ExitTcps, EndUdp, SerialLists,
      SerialEnd
<1>4. CallInv'
  BY <1>1, <1>2, <1>3, ListsDiffer
  DEF CallInv, SetPort, HasTcp, HasBoth, NetLists, AbortUdp, EndTcp, ExitTcps, EndUdp,
      SerialLists, SerialEnd, handle, history
<1>5. PhaseInv'
  BY <1>1, <1>2, <1>3, ListsDiffer
  DEF PhaseInv, SetPort, HasTcp, HasBoth, NetLists, AbortUdp, EndTcp, ExitTcps, EndUdp,
      SerialLists, SerialEnd, handle, history
<1>6. TaskInv'
  BY <1>1, <1>2, <1>3, ListsDiffer
  DEF TaskInv, Active, Kind, Spawned, SetPort, HasTcp, HasBoth, NetLists, AbortUdp, EndTcp,
      ExitTcps, EndUdp, SerialLists, SerialEnd, handle, history
<1>7. SocketsInv'
  BY <1>1, <1>2, <1>3, ListsDiffer, FdsAre
  DEF TypeOK, SocketsInv, SocketsAre, Disconnected, SetPort, HasTcp, HasBoth, NetLists,
      AbortUdp, EndTcp, ExitTcps, EndUdp, SerialLists, SerialEnd, handle, history
<1>8. OwnInv'
  BY <1>1, <1>2, <1>3, ListsDiffer, FdsAre
  DEF TypeOK, OwnInv, Holds, SetPort, HasTcp, HasBoth, NetLists, AbortUdp, EndTcp, ExitTcps,
      EndUdp, SerialLists, SerialEnd, handle, history
<1>9. QED
  BY <1>4, <1>5, <1>6, <1>7, <1>8 DEF LifeParts

\* Before it binds, the driver closes the UDP socket it finds in the handle.
LEMMA CloseUdpKeeps ==
    ASSUME TypeOK, TodoInv, LifeParts, CloseUdp
    PROVE  LifeParts'
<1>1. CallInv /\ PhaseInv /\ TaskInv /\ SocketsInv /\ OwnInv
  BY DEF LifeParts
<1>2. todo = AtCloseUdp /\ todo' = AtBind
  BY Moves
<1>3. mode = "net" /\ phase = "new" /\ rc = 0
  BY <1>1, <1>2, ListsDiffer
  DEF CallInv, HasTcp, HasBoth, NetLists, AbortUdp, EndTcp, ExitTcps, EndUdp, SerialLists,
      SerialEnd
<1>10. udp' = None /\ UNCHANGED <<tcp, sock, mode, phase>>
  BY Descriptors DEF CloseUdp, history
<1>11. \A fd \in Fds : owner'[fd] \in {"tcp", "udp"} => owner[fd] \in {"tcp", "udp"} /\ fd # udp
  BY Descriptors, FdsAre DEF CloseUdp, Closed
<1>4. CallInv'
  BY <1>1, <1>2, <1>3, ListsDiffer
  DEF CallInv, CloseUdp, Closed, HasTcp, HasBoth, NetLists, AbortUdp, EndTcp, ExitTcps, EndUdp,
      SerialLists, SerialEnd, handle, history
<1>5. PhaseInv'
  BY <1>1, <1>2, <1>3, ListsDiffer
  DEF PhaseInv, CloseUdp, Closed, HasTcp, HasBoth, NetLists, AbortUdp, EndTcp, ExitTcps,
      EndUdp, SerialLists, SerialEnd, handle, history
<1>6. TaskInv'
  BY <1>1, <1>2, <1>3, ListsDiffer
  DEF TaskInv, Active, Kind, Spawned, CloseUdp, Closed, HasTcp, HasBoth, NetLists, AbortUdp,
      EndTcp, ExitTcps, EndUdp, SerialLists, SerialEnd, handle, history
<1>7. SocketsInv'
  BY <1>1, <1>2, <1>3, <1>10, <1>11, ListsDiffer, FdsAre
  DEF SocketsInv, SocketsAre, Disconnected, HasTcp, HasBoth, NetLists, AbortUdp, EndTcp,
      ExitTcps, EndUdp, SerialLists, SerialEnd
<1>8. OwnInv'
  BY <1>1, <1>2, <1>3, ListsDiffer, FdsAre
  DEF TypeOK, OwnInv, Holds, CloseUdp, Closed, HasTcp, HasBoth, NetLists, AbortUdp, EndTcp,
      ExitTcps, EndUdp, SerialLists, SerialEnd, handle, history
<1>9. QED
  BY <1>4, <1>5, <1>6, <1>7, <1>8 DEF LifeParts

\* The new UDP socket takes a descriptor that is free, and is the handle's.
LEMMA BindKeeps ==
    ASSUME TypeOK, TodoInv, LifeParts, Bind
    PROVE  LifeParts'
<1>1. CallInv /\ PhaseInv /\ TaskInv /\ SocketsInv /\ OwnInv
  BY DEF LifeParts
<1>2. todo = AtBind /\ todo' \in {AtStartTcp, NetAbort}
  BY Moves
<1>3. mode = "net" /\ phase = "new" /\ rc = 0
  BY <1>1, <1>2, ListsDiffer
  DEF CallInv, HasTcp, HasBoth, NetLists, AbortUdp, EndTcp, ExitTcps, EndUdp, SerialLists,
      SerialEnd
<1>4. CallInv'
  BY <1>1, <1>2, <1>3, ListsDiffer
  DEF CallInv, Bind, Opened, HasTcp, HasBoth, NetLists, AbortUdp, EndTcp, ExitTcps, EndUdp,
      SerialLists, SerialEnd, handle, history
<1>5. PhaseInv'
  BY <1>1, <1>2, <1>3, ListsDiffer
  DEF PhaseInv, Bind, Opened, HasTcp, HasBoth, NetLists, AbortUdp, EndTcp, ExitTcps, EndUdp,
      SerialLists, SerialEnd, handle, history
<1>6. TaskInv'
  BY <1>1, <1>2, <1>3, ListsDiffer
  DEF TaskInv, Active, Kind, Spawned, Bind, Opened, HasTcp, HasBoth, NetLists, AbortUdp,
      EndTcp, ExitTcps, EndUdp, SerialLists, SerialEnd, handle, history
<1>7. SocketsInv'
  BY <1>1, <1>2, <1>3, ListsDiffer, FdsAre, NewFdIsFree
  DEF TypeOK, SocketsInv, SocketsAre, Disconnected, Bind, Opened, HasTcp, HasBoth, NetLists,
      AbortUdp, EndTcp, ExitTcps, EndUdp, SerialLists, SerialEnd, handle, history
<1>8. OwnInv'
  BY <1>1, <1>2, <1>3, ListsDiffer, FdsAre, NewFdIsFree
  DEF TypeOK, OwnInv, Holds, Bind, Opened, HasTcp, HasBoth, NetLists, AbortUdp, EndTcp,
      ExitTcps, EndUdp, SerialLists, SerialEnd, handle, history
<1>9. QED
  BY <1>4, <1>5, <1>6, <1>7, <1>8 DEF LifeParts

\* The first task of a connected handle starts, when none is running.
LEMMA StartTcpKeeps ==
    ASSUME TypeOK, TodoInv, LifeParts, StartTcp, ~refused, ~refused'
    PROVE  LifeParts'
<1>1. CallInv /\ PhaseInv /\ TaskInv /\ SocketsInv /\ OwnInv
  BY DEF LifeParts
<1>2. todo = AtStartTcp /\ todo' = AtStartUdp
  BY Moves
<1>3. mode = "net" /\ phase = "new" /\ rc = 0
  BY <1>1, <1>2, ListsDiffer
  DEF CallInv, HasTcp, HasBoth, NetLists, AbortUdp, EndTcp, ExitTcps, EndUdp, SerialLists,
      SerialEnd
<1>10. status' = "running" /\ \E t : SpawnedAt("tcp", t)
  BY Descriptors, SpawnLeaves DEF StartTcp, Refuse
<1>11. PICK t : SpawnedAt("tcp", t)
  BY <1>10
<1>12. todo' = AtStartUdp
  BY <1>2, <1>3, Moves, WhatIsLeft DEF StartTcp, Refuse, Proceed
<1>4. CallInv'
  BY <1>1, <1>2, <1>3, ListsDiffer
  DEF CallInv, StartTcp, Spawn, Refuse, HasTcp, HasBoth, NetLists, AbortUdp, EndTcp, ExitTcps,
      EndUdp, SerialLists, SerialEnd, handle, history
<1>5. PhaseInv'
  BY <1>1, <1>2, <1>3, ListsDiffer
  DEF PhaseInv, StartTcp, Spawn, Refuse, HasTcp, HasBoth, NetLists, AbortUdp, EndTcp, ExitTcps,
      EndUdp, SerialLists, SerialEnd, handle, history
<1>6. TaskInv'
  BY <1>1, <1>2, <1>3, <1>10, <1>11, <1>12, ListsDiffer
  DEF TaskInv, Active, Kind, SpawnedAt, Spawned, StartTcp, HasTcp, HasBoth, NetLists, AbortUdp,
      EndTcp, ExitTcps, EndUdp, SerialLists, SerialEnd, history
<1>7. SocketsInv'
  BY <1>1, <1>2, <1>3, ListsDiffer, FdsAre
  DEF TypeOK, SocketsInv, SocketsAre, Disconnected, StartTcp, Spawn, Refuse, HasTcp, HasBoth,
      NetLists, AbortUdp, EndTcp, ExitTcps, EndUdp, SerialLists, SerialEnd, handle, history
<1>8. OwnInv'
  BY <1>1, <1>2, <1>3, ListsDiffer, FdsAre
  DEF TypeOK, OwnInv, Holds, StartTcp, Spawn, Refuse, HasTcp, HasBoth, NetLists, AbortUdp,
      EndTcp, ExitTcps, EndUdp, SerialLists, SerialEnd, handle, history
<1>9. QED
  BY <1>4, <1>5, <1>6, <1>7, <1>8 DEF LifeParts

\* The second one starts beside it.
LEMMA StartUdpKeeps ==
    ASSUME TypeOK, TodoInv, LifeParts, StartUdp, ~refused, ~refused'
    PROVE  LifeParts'
<1>1. CallInv /\ PhaseInv /\ TaskInv /\ SocketsInv /\ OwnInv
  BY DEF LifeParts
<1>2. todo = AtStartUdp /\ todo' \in {AtStarted, NetAbort}
  BY Moves
<1>3. mode = "net" /\ phase = "new" /\ rc = 0
  BY <1>1, <1>2, ListsDiffer
  DEF CallInv, HasTcp, HasBoth, NetLists, AbortUdp, EndTcp, ExitTcps, EndUdp, SerialLists,
      SerialEnd
<1>10. status' = "running" /\ \E t : SpawnedAt("udp", t)
  BY Descriptors, SpawnLeaves DEF StartUdp, Refuse
<1>11. PICK t : SpawnedAt("udp", t)
  BY <1>10
<1>12. todo' = AtStarted
  BY <1>2, <1>3, Moves, WhatIsLeft DEF StartUdp, Refuse, Proceed
<1>4. CallInv'
  BY <1>1, <1>2, <1>3, ListsDiffer
  DEF CallInv, StartUdp, Spawn, Refuse, HasTcp, HasBoth, NetLists, AbortUdp, EndTcp, ExitTcps,
      EndUdp, SerialLists, SerialEnd, handle, history
<1>5. PhaseInv'
  BY <1>1, <1>2, <1>3, ListsDiffer
  DEF PhaseInv, StartUdp, Spawn, Refuse, HasTcp, HasBoth, NetLists, AbortUdp, EndTcp, ExitTcps,
      EndUdp, SerialLists, SerialEnd, handle, history
<1>6. TaskInv'
  BY <1>1, <1>2, <1>3, <1>10, <1>11, <1>12, ListsDiffer
  DEF TaskInv, Active, Kind, SpawnedAt, Spawned, StartUdp, HasTcp, HasBoth, NetLists, AbortUdp,
      EndTcp, ExitTcps, EndUdp, SerialLists, SerialEnd, history
<1>7. SocketsInv'
  BY <1>1, <1>2, <1>3, ListsDiffer, FdsAre
  DEF TypeOK, SocketsInv, SocketsAre, Disconnected, StartUdp, Spawn, Refuse, HasTcp, HasBoth,
      NetLists, AbortUdp, EndTcp, ExitTcps, EndUdp, SerialLists, SerialEnd, handle, history
<1>8. OwnInv'
  BY <1>1, <1>2, <1>3, ListsDiffer, FdsAre
  DEF TypeOK, OwnInv, Holds, StartUdp, Spawn, Refuse, HasTcp, HasBoth, NetLists, AbortUdp,
      EndTcp, ExitTcps, EndUdp, SerialLists, SerialEnd, handle, history
<1>9. QED
  BY <1>4, <1>5, <1>6, <1>7, <1>8 DEF LifeParts

\* A serial port is opened when no socket is.
LEMMA OpenPortKeeps ==
    ASSUME TypeOK, TodoInv, LifeParts, OpenPort
    PROVE  LifeParts'
<1>1. CallInv /\ PhaseInv /\ TaskInv /\ SocketsInv /\ OwnInv
  BY DEF LifeParts
<1>2. todo = SerialStart /\ todo' \in {AtIdentifySerial, AtNotStarted}
  BY Moves
<1>3. mode = "serial" /\ phase = "new" /\ ~Reopens
  BY <1>1, <1>2, ListsDiffer
  DEF CallInv, HasTcp, HasBoth, NetLists, AbortUdp, EndTcp, ExitTcps, EndUdp, SerialLists,
      SerialEnd
<1>4. CallInv'
  BY <1>1, <1>2, <1>3, ListsDiffer
  DEF CallInv, OpenPort, Opened, HasTcp, HasBoth, NetLists, AbortUdp, EndTcp, ExitTcps, EndUdp,
      SerialLists, SerialEnd, handle, history
<1>5. PhaseInv'
  BY <1>1, <1>2, <1>3, ListsDiffer
  DEF PhaseInv, OpenPort, Opened, HasTcp, HasBoth, NetLists, AbortUdp, EndTcp, ExitTcps,
      EndUdp, SerialLists, SerialEnd, handle, history
<1>6. TaskInv'
  BY <1>1, <1>2, <1>3, ListsDiffer
  DEF TaskInv, Active, Kind, Spawned, OpenPort, Opened, HasTcp, HasBoth, NetLists, AbortUdp,
      EndTcp, ExitTcps, EndUdp, SerialLists, SerialEnd, handle, history
<1>7. SocketsInv'
  BY <1>1, <1>2, <1>3, ListsDiffer, FdsAre, NewFdIsFree
  DEF TypeOK, SocketsInv, SocketsAre, Disconnected, OpenPort, Opened, HasTcp, HasBoth,
      NetLists, AbortUdp, EndTcp, ExitTcps, EndUdp, SerialLists, SerialEnd, handle, history
<1>8. OwnInv'
  BY <1>1, <1>2, <1>3, ListsDiffer, FdsAre, NewFdIsFree
  DEF TypeOK, OwnInv, Holds, OpenPort, Opened, HasTcp, HasBoth, NetLists, AbortUdp, EndTcp,
      ExitTcps, EndUdp, SerialLists, SerialEnd, handle, history
<1>9. QED
  BY <1>4, <1>5, <1>6, <1>7, <1>8 DEF LifeParts

\* A serial port that does not answer is closed again.
LEMMA IdentifySerialKeeps ==
    ASSUME TypeOK, TodoInv, LifeParts, IdentifySerial
    PROVE  LifeParts'
<1>1. CallInv /\ PhaseInv /\ TaskInv /\ SocketsInv /\ OwnInv
  BY DEF LifeParts
<1>2. todo = AtIdentifySerial /\ todo' \in {AtStartSerial, AtNotStarted, SerialAbort}
  BY Moves
<1>3. mode = "serial" /\ phase = "new" /\ ~Reopens
  BY <1>1, <1>2, ListsDiffer
  DEF CallInv, HasTcp, HasBoth, NetLists, AbortUdp, EndTcp, ExitTcps, EndUdp, SerialLists,
      SerialEnd
<1>4. CallInv'
  BY <1>1, <1>2, <1>3, ListsDiffer
  DEF CallInv, IdentifySerial, HasTcp, HasBoth, NetLists, AbortUdp, EndTcp, ExitTcps, EndUdp,
      SerialLists, SerialEnd, handle, history
<1>5. PhaseInv'
  BY <1>1, <1>2, <1>3, ListsDiffer
  DEF PhaseInv, IdentifySerial, HasTcp, HasBoth, NetLists, AbortUdp, EndTcp, ExitTcps, EndUdp,
      SerialLists, SerialEnd, handle, history
<1>6. TaskInv'
  BY <1>1, <1>2, <1>3, ListsDiffer
  DEF TaskInv, Active, Kind, Spawned, IdentifySerial, HasTcp, HasBoth, NetLists, AbortUdp,
      EndTcp, ExitTcps, EndUdp, SerialLists, SerialEnd, handle, history
<1>7. SocketsInv'
  BY <1>1, <1>2, <1>3, ListsDiffer, FdsAre
  DEF TypeOK, SocketsInv, SocketsAre, Disconnected, IdentifySerial, HasTcp, HasBoth, NetLists,
      AbortUdp, EndTcp, ExitTcps, EndUdp, SerialLists, SerialEnd, handle, history
<1>8. OwnInv'
  BY <1>1, <1>2, <1>3, ListsDiffer, FdsAre
  DEF TypeOK, OwnInv, Holds, IdentifySerial, HasTcp, HasBoth, NetLists, AbortUdp, EndTcp,
      ExitTcps, EndUdp, SerialLists, SerialEnd, handle, history
<1>9. QED
  BY <1>4, <1>5, <1>6, <1>7, <1>8 DEF LifeParts

\* The serial task starts, when none is running.
LEMMA StartSerialKeeps ==
    ASSUME TypeOK, TodoInv, LifeParts, StartSerial, ~refused, ~refused'
    PROVE  LifeParts'
<1>1. CallInv /\ PhaseInv /\ TaskInv /\ SocketsInv /\ OwnInv
  BY DEF LifeParts
<1>2. todo = AtStartSerial /\ todo' \in {AtStarted, AtNotStarted}
  BY Moves
<1>3. mode = "serial" /\ phase = "new" /\ ~Reopens
  BY <1>1, <1>2, ListsDiffer
  DEF CallInv, HasTcp, HasBoth, NetLists, AbortUdp, EndTcp, ExitTcps, EndUdp, SerialLists,
      SerialEnd
<1>10. status' = "running" /\ \E t : SpawnedAt("serial", t)
  BY Descriptors, SpawnLeaves DEF StartSerial, Refuse
<1>11. PICK t : SpawnedAt("serial", t)
  BY <1>10
<1>12. todo' = AtStarted
  BY <1>2, <1>3, Moves, WhatIsLeft DEF StartSerial, Refuse, Proceed
<1>4. CallInv'
  BY <1>1, <1>2, <1>3, ListsDiffer
  DEF CallInv, StartSerial, Spawn, Refuse, HasTcp, HasBoth, NetLists, AbortUdp, EndTcp,
      ExitTcps, EndUdp, SerialLists, SerialEnd, handle, history
<1>5. PhaseInv'
  BY <1>1, <1>2, <1>3, ListsDiffer
  DEF PhaseInv, StartSerial, Spawn, Refuse, HasTcp, HasBoth, NetLists, AbortUdp, EndTcp,
      ExitTcps, EndUdp, SerialLists, SerialEnd, handle, history
<1>6. TaskInv'
  BY <1>1, <1>2, <1>3, <1>10, <1>11, <1>12, ListsDiffer
  DEF TaskInv, Active, Kind, SpawnedAt, Spawned, StartSerial, HasTcp, HasBoth, NetLists,
      AbortUdp, EndTcp, ExitTcps, EndUdp, SerialLists, SerialEnd, history
<1>7. SocketsInv'
  BY <1>1, <1>2, <1>3, ListsDiffer, FdsAre
  DEF TypeOK, SocketsInv, SocketsAre, Disconnected, StartSerial, Spawn, Refuse, HasTcp,
      HasBoth, NetLists, AbortUdp, EndTcp, ExitTcps, EndUdp, SerialLists, SerialEnd, handle,
      history
<1>8. OwnInv'
  BY <1>1, <1>2, <1>3, ListsDiffer, FdsAre
  DEF TypeOK, OwnInv, Holds, StartSerial, Spawn, Refuse, HasTcp, HasBoth, NetLists, AbortUdp,
      EndTcp, ExitTcps, EndUdp, SerialLists, SerialEnd, handle, history
<1>9. QED
  BY <1>4, <1>5, <1>6, <1>7, <1>8 DEF LifeParts

\* A start that has come to its end has connected the handle.
LEMMA StartedKeeps ==
    ASSUME TypeOK, TodoInv, LifeParts, Started
    PROVE  LifeParts'
<1>1. CallInv /\ PhaseInv /\ TaskInv /\ SocketsInv /\ OwnInv
  BY DEF LifeParts
<1>2. todo = AtStarted /\ todo' = <<>>
  BY Moves
<1>3. mode # "none" /\ phase = "new"
  BY <1>1, <1>2, ListsDiffer
  DEF CallInv, HasTcp, HasBoth, NetLists, AbortUdp, EndTcp, ExitTcps, EndUdp, SerialLists,
      SerialEnd
<1>4. CallInv'
  BY <1>1, <1>2, <1>3, ListsDiffer
  DEF CallInv, Started, HasTcp, HasBoth, NetLists, AbortUdp, EndTcp, ExitTcps, EndUdp,
      SerialLists, SerialEnd, handle, history
<1>5. PhaseInv'
  BY <1>1, <1>2, <1>3, ListsDiffer
  DEF PhaseInv, Started, HasTcp, HasBoth, NetLists, AbortUdp, EndTcp, ExitTcps, EndUdp,
      SerialLists, SerialEnd, handle, history
<1>6. TaskInv'
  BY <1>1, <1>2, <1>3, ListsDiffer
  DEF TaskInv, Active, Kind, Spawned, Started, HasTcp, HasBoth, NetLists, AbortUdp, EndTcp,
      ExitTcps, EndUdp, SerialLists, SerialEnd, handle, history
<1>7. SocketsInv'
  BY <1>1, <1>2, <1>3, ListsDiffer, FdsAre
  DEF TypeOK, SocketsInv, SocketsAre, Disconnected, Started, HasTcp, HasBoth, NetLists,
      AbortUdp, EndTcp, ExitTcps, EndUdp, SerialLists, SerialEnd, handle, history
<1>8. OwnInv'
  BY <1>1, <1>2, <1>3, ListsDiffer, FdsAre
  DEF TypeOK, OwnInv, Holds, Started, HasTcp, HasBoth, NetLists, AbortUdp, EndTcp, ExitTcps,
      EndUdp, SerialLists, SerialEnd, handle, history
<1>9. QED
  BY <1>4, <1>5, <1>6, <1>7, <1>8 DEF LifeParts

\* A start that was given up has closed its sockets.
LEMMA NotStartedKeeps ==
    ASSUME TypeOK, TodoInv, LifeParts, NotStarted
    PROVE  LifeParts'
<1>1. CallInv /\ PhaseInv /\ TaskInv /\ SocketsInv /\ OwnInv
  BY DEF LifeParts
<1>2. todo = AtNotStarted /\ todo' = <<>>
  BY Moves
<1>3. phase = "new"
  BY <1>1, <1>2, ListsDiffer
  DEF CallInv, HasTcp, HasBoth, NetLists, AbortUdp, EndTcp, ExitTcps, EndUdp, SerialLists,
      SerialEnd
<1>4. CallInv'
  BY <1>1, <1>2, <1>3, ListsDiffer
  DEF CallInv, NotStarted, HasTcp, HasBoth, NetLists, AbortUdp, EndTcp, ExitTcps, EndUdp,
      SerialLists, SerialEnd, handle, history
<1>5. PhaseInv'
  BY <1>1, <1>2, <1>3, ListsDiffer
  DEF PhaseInv, NotStarted, HasTcp, HasBoth, NetLists, AbortUdp, EndTcp, ExitTcps, EndUdp,
      SerialLists, SerialEnd, handle, history
<1>6. TaskInv'
  BY <1>1, <1>2, <1>3, ListsDiffer
  DEF TaskInv, Active, Kind, Spawned, NotStarted, HasTcp, HasBoth, NetLists, AbortUdp, EndTcp,
      ExitTcps, EndUdp, SerialLists, SerialEnd, handle, history
<1>7. SocketsInv'
  BY <1>1, <1>2, <1>3, ListsDiffer, FdsAre
  DEF TypeOK, SocketsInv, SocketsAre, Disconnected, NotStarted, HasTcp, HasBoth, NetLists,
      AbortUdp, EndTcp, ExitTcps, EndUdp, SerialLists, SerialEnd, handle, history
<1>8. OwnInv'
  BY <1>1, <1>2, <1>3, ListsDiffer, FdsAre
  DEF TypeOK, OwnInv, Holds, NotStarted, HasTcp, HasBoth, NetLists, AbortUdp, EndTcp, ExitTcps,
      EndUdp, SerialLists, SerialEnd, handle, history
<1>9. QED
  BY <1>4, <1>5, <1>6, <1>7, <1>8 DEF LifeParts

\* Only a handle without a TCP socket skips the close.
LEMMA ShutTcpKeeps ==
    ASSUME TypeOK, TodoInv, LifeParts, ShutTcp
    PROVE  LifeParts'
<1>1. CallInv /\ PhaseInv /\ TaskInv /\ SocketsInv /\ OwnInv
  BY DEF LifeParts
<1>2. \/ todo = NoDriver /\ todo' \in {DropTcp, AtNotStarted}
      \/ todo = NetExit /\ todo' \in {CloseExit, CloseShut}
  BY Moves
<1>3. (todo = NoDriver => phase = "new") /\ (todo = NetExit => mode = "net")
  BY <1>1, <1>2, ListsDiffer
  DEF CallInv, HasTcp, HasBoth, NetLists, AbortUdp, EndTcp, ExitTcps, EndUdp, SerialLists,
      SerialEnd
<1>10. /\ tcp >= 0 =>
             \/ todo = NoDriver /\ todo' = DropTcp
             \/ todo = NetExit /\ todo' = CloseExit
       /\ ~(tcp >= 0) =>
             /\ tcp = None
             /\ \/ todo = NoDriver /\ todo' = AtNotStarted
                \/ todo = NetExit /\ todo' = CloseShut
  <2>1. Tail(NoDriver) = DropTcp /\ Tail(DropTcp) = AtNotStarted
    BY WhatIsLeft
  <2>2. Tail(NetExit) = CloseExit /\ Tail(CloseExit) = CloseShut
    BY WhatIsLeft
  <2>3. ~(tcp >= 0) => tcp = None
    BY Descriptors
  <2>4. ASSUME todo = NoDriver
       PROVE  (tcp >= 0 => todo' = DropTcp) /\ (~(tcp >= 0) => todo' = AtNotStarted)
    <3>1. Tail(todo) = DropTcp /\ Tail(Tail(todo)) = AtNotStarted
      BY <2>4, <2>1
    <3>2. QED
      BY <3>1 DEF ShutTcp, Shut, Proceed
  <2>5. ASSUME todo = NetExit
       PROVE  (tcp >= 0 => todo' = CloseExit) /\ (~(tcp >= 0) => todo' = CloseShut)
    <3>1. Tail(todo) = CloseExit /\ Tail(Tail(todo)) = CloseShut
      BY <2>5, <2>2
    <3>2. QED
      BY <3>1 DEF ShutTcp, Shut, Proceed
  <2>6. CASE todo = NoDriver
    BY <2>3, <2>4, <2>6
  <2>7. CASE todo = NetExit
    BY <2>3, <2>5, <2>7
  <2>8. QED
    BY <1>2, <2>6, <2>7
<1>4. CallInv'
  BY <1>1, <1>2, <1>3, <1>10, ListsDiffer
  DEF CallInv, ShutTcp, Shut, HasTcp, HasBoth, NetLists, AbortUdp, EndTcp, ExitTcps, EndUdp,
      SerialLists, SerialEnd, handle, history
<1>5. PhaseInv'
  BY <1>1, <1>2, <1>3, <1>10, ListsDiffer
  DEF PhaseInv, ShutTcp, Shut, HasTcp, HasBoth, NetLists, AbortUdp, EndTcp, ExitTcps, EndUdp,
      SerialLists, SerialEnd, handle, history
<1>6. TaskInv'
  BY <1>1, <1>2, <1>3, <1>10, ListsDiffer
  DEF TaskInv, Active, Kind, Spawned, ShutTcp, Shut, HasTcp, HasBoth, NetLists, AbortUdp,
      EndTcp, ExitTcps, EndUdp, SerialLists, SerialEnd, handle, history
<1>7. SocketsInv'
  BY <1>1, <1>2, <1>3, <1>10, ListsDiffer, FdsAre
  DEF TypeOK, SocketsInv, SocketsAre, Disconnected, ShutTcp, Shut, HasTcp, HasBoth, NetLists,
      AbortUdp, EndTcp, ExitTcps, EndUdp, SerialLists, SerialEnd, handle, history
<1>8. OwnInv'
  BY <1>1, <1>2, <1>3, <1>10, ListsDiffer, FdsAre
  DEF TypeOK, OwnInv, Holds, ShutTcp, Shut, HasTcp, HasBoth, NetLists, AbortUdp, EndTcp,
      ExitTcps, EndUdp, SerialLists, SerialEnd, handle, history
<1>9. QED
  BY <1>4, <1>5, <1>6, <1>7, <1>8 DEF LifeParts

\* What is closed is the TCP socket, and it succeeds.
LEMMA ExitTcpKeeps ==
    ASSUME TypeOK, TodoInv, LifeParts, ExitTcp
    PROVE  LifeParts'
<1>1. CallInv /\ PhaseInv /\ TaskInv /\ SocketsInv /\ OwnInv
  BY DEF LifeParts
<1>2. \/ todo = DropTcp /\ todo' = AtNotStarted
      \/ todo = CloseExit /\ todo' = CloseShut
  BY Moves
<1>3. (todo = DropTcp => phase = "new") /\ (todo = CloseExit => mode = "net")
  BY <1>1, <1>2, ListsDiffer
  DEF CallInv, HasTcp, HasBoth, NetLists, AbortUdp, EndTcp, ExitTcps, EndUdp, SerialLists,
      SerialEnd
<1>10. sock = tcp
  BY <1>1, <1>2 DEF SocketsInv
<1>4. CallInv'
  BY <1>1, <1>2, <1>3, <1>10, ListsDiffer
  DEF CallInv, ExitTcp, Exit, Closed, IsOpen, HasTcp, HasBoth, NetLists, AbortUdp, EndTcp,
      ExitTcps, EndUdp, SerialLists, SerialEnd, handle, history
<1>5. PhaseInv'
  BY <1>1, <1>2, <1>3, <1>10, ListsDiffer
  DEF PhaseInv, ExitTcp, Exit, Closed, IsOpen, HasTcp, HasBoth, NetLists, AbortUdp, EndTcp,
      ExitTcps, EndUdp, SerialLists, SerialEnd, handle, history
<1>6. TaskInv'
  BY <1>1, <1>2, <1>3, <1>10, ListsDiffer
  DEF TaskInv, Active, Kind, Spawned, ExitTcp, Exit, Closed, IsOpen, HasTcp, HasBoth, NetLists,
      AbortUdp, EndTcp, ExitTcps, EndUdp, SerialLists, SerialEnd, handle, history
<1>7. SocketsInv'
  BY <1>1, <1>2, <1>3, <1>10, ListsDiffer, FdsAre
  DEF TypeOK, SocketsInv, SocketsAre, Disconnected, ExitTcp, Exit, Closed, IsOpen, HasTcp,
      HasBoth, NetLists, AbortUdp, EndTcp, ExitTcps, EndUdp, SerialLists, SerialEnd, handle,
      history
<1>8. OwnInv'
  BY <1>1, <1>2, <1>3, <1>10, ListsDiffer, FdsAre
  DEF TypeOK, OwnInv, Holds, ExitTcp, Exit, Closed, IsOpen, HasTcp, HasBoth, NetLists,
      AbortUdp, EndTcp, ExitTcps, EndUdp, SerialLists, SerialEnd, handle, history
<1>9. QED
  BY <1>4, <1>5, <1>6, <1>7, <1>8 DEF LifeParts

\* Only a handle without a UDP socket skips the close.
LEMMA ShutUdpKeeps ==
    ASSUME TypeOK, TodoInv, LifeParts, ShutUdp
    PROVE  LifeParts'
<1>1. CallInv /\ PhaseInv /\ TaskInv /\ SocketsInv /\ OwnInv
  BY DEF LifeParts
<1>2. \/ todo = NetAbort /\ todo' \in {AbortExit, NoDriver}
      \/ todo = CloseShut /\ todo' \in {DropUdp, AtClear}
  BY Moves
<1>3. (todo = NetAbort => phase = "new") /\ (todo = CloseShut => mode = "net")
  BY <1>1, <1>2, ListsDiffer
  DEF CallInv, HasTcp, HasBoth, NetLists, AbortUdp, EndTcp, ExitTcps, EndUdp, SerialLists,
      SerialEnd
<1>10. /\ udp >= 0 =>
             \/ todo = NetAbort /\ todo' = AbortExit
             \/ todo = CloseShut /\ todo' = DropUdp
       /\ ~(udp >= 0) =>
             /\ udp = None
             /\ \/ todo = NetAbort /\ todo' = NoDriver
                \/ todo = CloseShut /\ todo' = AtClear
  <2>1. Tail(NetAbort) = AbortExit /\ Tail(AbortExit) = NoDriver
    BY WhatIsLeft
  <2>2. Tail(CloseShut) = DropUdp /\ Tail(DropUdp) = AtClear
    BY WhatIsLeft
  <2>3. ~(udp >= 0) => udp = None
    BY Descriptors
  <2>4. ASSUME todo = NetAbort
       PROVE  (udp >= 0 => todo' = AbortExit) /\ (~(udp >= 0) => todo' = NoDriver)
    <3>1. Tail(todo) = AbortExit /\ Tail(Tail(todo)) = NoDriver
      BY <2>4, <2>1
    <3>2. QED
      BY <3>1 DEF ShutUdp, Shut, Proceed
  <2>5. ASSUME todo = CloseShut
       PROVE  (udp >= 0 => todo' = DropUdp) /\ (~(udp >= 0) => todo' = AtClear)
    <3>1. Tail(todo) = DropUdp /\ Tail(Tail(todo)) = AtClear
      BY <2>5, <2>2
    <3>2. QED
      BY <3>1 DEF ShutUdp, Shut, Proceed
  <2>6. CASE todo = NetAbort
    BY <2>3, <2>4, <2>6
  <2>7. CASE todo = CloseShut
    BY <2>3, <2>5, <2>7
  <2>8. QED
    BY <1>2, <2>6, <2>7
<1>4. CallInv'
  BY <1>1, <1>2, <1>3, <1>10, ListsDiffer
  DEF CallInv, ShutUdp, Shut, HasTcp, HasBoth, NetLists, AbortUdp, EndTcp, ExitTcps, EndUdp,
      SerialLists, SerialEnd, handle, history
<1>5. PhaseInv'
  BY <1>1, <1>2, <1>3, <1>10, ListsDiffer
  DEF PhaseInv, ShutUdp, Shut, HasTcp, HasBoth, NetLists, AbortUdp, EndTcp, ExitTcps, EndUdp,
      SerialLists, SerialEnd, handle, history
<1>6. TaskInv'
  BY <1>1, <1>2, <1>3, <1>10, ListsDiffer
  DEF TaskInv, Active, Kind, Spawned, ShutUdp, Shut, HasTcp, HasBoth, NetLists, AbortUdp,
      EndTcp, ExitTcps, EndUdp, SerialLists, SerialEnd, handle, history
<1>7. SocketsInv'
  BY <1>1, <1>2, <1>3, <1>10, ListsDiffer, FdsAre
  DEF TypeOK, SocketsInv, SocketsAre, Disconnected, ShutUdp, Shut, HasTcp, HasBoth, NetLists,
      AbortUdp, EndTcp, ExitTcps, EndUdp, SerialLists, SerialEnd, handle, history
<1>8. OwnInv'
  BY <1>1, <1>2, <1>3, <1>10, ListsDiffer, FdsAre
  DEF TypeOK, OwnInv, Holds, ShutUdp, Shut, HasTcp, HasBoth, NetLists, AbortUdp, EndTcp,
      ExitTcps, EndUdp, SerialLists, SerialEnd, handle, history
<1>9. QED
  BY <1>4, <1>5, <1>6, <1>7, <1>8 DEF LifeParts

\* What is closed is the UDP socket, and it succeeds.
LEMMA ExitUdpKeeps ==
    ASSUME TypeOK, TodoInv, LifeParts, ExitUdp
    PROVE  LifeParts'
<1>1. CallInv /\ PhaseInv /\ TaskInv /\ SocketsInv /\ OwnInv
  BY DEF LifeParts
<1>2. \/ todo = AbortExit /\ todo' = NoDriver
      \/ todo = DropUdp /\ todo' = AtClear
  BY Moves
<1>3. (todo = AbortExit => phase = "new") /\ (todo = DropUdp => mode = "net")
  BY <1>1, <1>2, ListsDiffer
  DEF CallInv, HasTcp, HasBoth, NetLists, AbortUdp, EndTcp, ExitTcps, EndUdp, SerialLists,
      SerialEnd
<1>10. sock = udp
  BY <1>1, <1>2 DEF SocketsInv
<1>4. CallInv'
  BY <1>1, <1>2, <1>3, <1>10, ListsDiffer
  DEF CallInv, ExitUdp, Exit, Closed, IsOpen, HasTcp, HasBoth, NetLists, AbortUdp, EndTcp,
      ExitTcps, EndUdp, SerialLists, SerialEnd, handle, history
<1>5. PhaseInv'
  BY <1>1, <1>2, <1>3, <1>10, ListsDiffer
  DEF PhaseInv, ExitUdp, Exit, Closed, IsOpen, HasTcp, HasBoth, NetLists, AbortUdp, EndTcp,
      ExitTcps, EndUdp, SerialLists, SerialEnd, handle, history
<1>6. TaskInv'
  BY <1>1, <1>2, <1>3, <1>10, ListsDiffer
  DEF TaskInv, Active, Kind, Spawned, ExitUdp, Exit, Closed, IsOpen, HasTcp, HasBoth, NetLists,
      AbortUdp, EndTcp, ExitTcps, EndUdp, SerialLists, SerialEnd, handle, history
<1>7. SocketsInv'
  BY <1>1, <1>2, <1>3, <1>10, ListsDiffer, FdsAre
  DEF TypeOK, SocketsInv, SocketsAre, Disconnected, ExitUdp, Exit, Closed, IsOpen, HasTcp,
      HasBoth, NetLists, AbortUdp, EndTcp, ExitTcps, EndUdp, SerialLists, SerialEnd, handle,
      history
<1>8. OwnInv'
  BY <1>1, <1>2, <1>3, <1>10, ListsDiffer, FdsAre
  DEF TypeOK, OwnInv, Holds, ExitUdp, Exit, Closed, IsOpen, HasTcp, HasBoth, NetLists,
      AbortUdp, EndTcp, ExitTcps, EndUdp, SerialLists, SerialEnd, handle, history
<1>9. QED
  BY <1>4, <1>5, <1>6, <1>7, <1>8 DEF LifeParts

\* The close of a serial port closes no socket: none is open.
LEMMA ExitPortKeeps ==
    ASSUME TypeOK, TodoInv, LifeParts, ExitPort
    PROVE  LifeParts'
<1>1. CallInv /\ PhaseInv /\ TaskInv /\ SocketsInv /\ OwnInv
  BY DEF LifeParts
<1>2. \/ todo = SerialAbort /\ todo' \in {AbortDrop, AtNotStarted}
      \/ todo = SerialExit /\ todo' \in {CloseDrop, AtClear}
  BY Moves
<1>3. mode = "serial" /\ (todo = SerialAbort => phase = "new")
  BY <1>1, <1>2, ListsDiffer
  DEF CallInv, HasTcp, HasBoth, NetLists, AbortUdp, EndTcp, ExitTcps, EndUdp, SerialLists,
      SerialEnd
<1>10. SocketsAre({})
  BY <1>1, <1>3 DEF SocketsInv, Disconnected
<1>11. ~zeroed => tcp = None /\ udp = None
  BY <1>1, <1>10 DEF OwnInv, Holds, SocketsAre
<1>4. CallInv'
  BY <1>1, <1>2, <1>3, <1>10, <1>11, ListsDiffer
  DEF CallInv, ExitPort, Closed, HasTcp, HasBoth, NetLists, AbortUdp, EndTcp, ExitTcps, EndUdp,
      SerialLists, SerialEnd, handle, history
<1>5. PhaseInv'
  BY <1>1, <1>2, <1>3, <1>10, <1>11, ListsDiffer
  DEF PhaseInv, ExitPort, Closed, HasTcp, HasBoth, NetLists, AbortUdp, EndTcp, ExitTcps,
      EndUdp, SerialLists, SerialEnd, handle, history
<1>6. TaskInv'
  BY <1>1, <1>2, <1>3, <1>10, <1>11, ListsDiffer
  DEF TaskInv, Active, Kind, Spawned, ExitPort, Closed, HasTcp, HasBoth, NetLists, AbortUdp,
      EndTcp, ExitTcps, EndUdp, SerialLists, SerialEnd, handle, history
<1>7. SocketsInv'
  BY <1>1, <1>2, <1>3, <1>10, <1>11, ListsDiffer, FdsAre
  DEF TypeOK, SocketsInv, SocketsAre, Disconnected, ExitPort, Closed, HasTcp, HasBoth,
      NetLists, AbortUdp, EndTcp, ExitTcps, EndUdp, SerialLists, SerialEnd, handle, history
<1>8. OwnInv'
  BY <1>1, <1>2, <1>3, <1>10, <1>11, ListsDiffer, FdsAre
  DEF TypeOK, OwnInv, Holds, ExitPort, Closed, HasTcp, HasBoth, NetLists, AbortUdp, EndTcp,
      ExitTcps, EndUdp, SerialLists, SerialEnd, handle, history
<1>9. QED
  BY <1>4, <1>5, <1>6, <1>7, <1>8 DEF LifeParts

\* The port's descriptor is forgotten.
LEMMA DropPortKeeps ==
    ASSUME TypeOK, TodoInv, LifeParts, DropPort
    PROVE  LifeParts'
<1>1. CallInv /\ PhaseInv /\ TaskInv /\ SocketsInv /\ OwnInv
  BY DEF LifeParts
<1>2. \/ todo = AbortDrop /\ todo' = AtNotStarted
      \/ todo = CloseDrop /\ todo' = AtClear
  BY Moves
<1>3. mode = "serial" /\ (todo = AbortDrop => phase = "new")
  BY <1>1, <1>2, ListsDiffer
  DEF CallInv, HasTcp, HasBoth, NetLists, AbortUdp, EndTcp, ExitTcps, EndUdp, SerialLists,
      SerialEnd
<1>4. CallInv'
  BY <1>1, <1>2, <1>3, ListsDiffer
  DEF CallInv, DropPort, HasTcp, HasBoth, NetLists, AbortUdp, EndTcp, ExitTcps, EndUdp,
      SerialLists, SerialEnd, handle, history
<1>5. PhaseInv'
  BY <1>1, <1>2, <1>3, ListsDiffer
  DEF PhaseInv, DropPort, HasTcp, HasBoth, NetLists, AbortUdp, EndTcp, ExitTcps, EndUdp,
      SerialLists, SerialEnd, handle, history
<1>6. TaskInv'
  BY <1>1, <1>2, <1>3, ListsDiffer
  DEF TaskInv, Active, Kind, Spawned, DropPort, HasTcp, HasBoth, NetLists, AbortUdp, EndTcp,
      ExitTcps, EndUdp, SerialLists, SerialEnd, handle, history
<1>7. SocketsInv'
  BY <1>1, <1>2, <1>3, ListsDiffer, FdsAre
  DEF TypeOK, SocketsInv, SocketsAre, Disconnected, DropPort, HasTcp, HasBoth, NetLists,
      AbortUdp, EndTcp, ExitTcps, EndUdp, SerialLists, SerialEnd, handle, history
<1>8. OwnInv'
  BY <1>1, <1>2, <1>3, ListsDiffer, FdsAre
  DEF TypeOK, OwnInv, Holds, DropPort, HasTcp, HasBoth, NetLists, AbortUdp, EndTcp, ExitTcps,
      EndUdp, SerialLists, SerialEnd, handle, history
<1>9. QED
  BY <1>4, <1>5, <1>6, <1>7, <1>8 DEF LifeParts

\* The handle that is cleared holds no socket, and a handle that is not cleared was zero
\* memory before or had a serial session.
LEMMA ClearKeeps ==
    ASSUME TypeOK, TodoInv, LifeParts, Clear
    PROVE  LifeParts'
<1>1. CallInv /\ PhaseInv /\ TaskInv /\ SocketsInv /\ OwnInv
  BY DEF LifeParts
<1>2. todo = AtClear /\ todo' = <<>>
  BY Moves
<1>3. rc # 0 => (zeroed \/ ~Reopens) /\ (zeroed \/ mode # "net")
  BY <1>1, <1>2, ListsDiffer
  DEF CallInv, PhaseInv, OwnInv, TypeOK, HasTcp, HasBoth, NetLists, AbortUdp, EndTcp, ExitTcps,
      EndUdp, SerialLists, SerialEnd
<1>4. CallInv'
  BY <1>1, <1>2, <1>3, ListsDiffer
  DEF CallInv, Clear, HasTcp, HasBoth, NetLists, AbortUdp, EndTcp, ExitTcps, EndUdp,
      SerialLists, SerialEnd, handle, history
<1>5. PhaseInv'
  BY <1>1, <1>2, <1>3, ListsDiffer
  DEF PhaseInv, Clear, HasTcp, HasBoth, NetLists, AbortUdp, EndTcp, ExitTcps, EndUdp,
      SerialLists, SerialEnd, handle, history
<1>6. TaskInv'
  BY <1>1, <1>2, <1>3, ListsDiffer
  DEF TaskInv, Active, Kind, Spawned, Clear, HasTcp, HasBoth, NetLists, AbortUdp, EndTcp,
      ExitTcps, EndUdp, SerialLists, SerialEnd, handle, history
<1>7. SocketsInv'
  BY <1>1, <1>2, <1>3, ListsDiffer, FdsAre
  DEF TypeOK, SocketsInv, SocketsAre, Disconnected, Clear, HasTcp, HasBoth, NetLists, AbortUdp,
      EndTcp, ExitTcps, EndUdp, SerialLists, SerialEnd, handle, history
<1>8. OwnInv'
  BY <1>1, <1>2, <1>3, ListsDiffer, FdsAre
  DEF TypeOK, OwnInv, Holds, Clear, HasTcp, HasBoth, NetLists, AbortUdp, EndTcp, ExitTcps,
      EndUdp, SerialLists, SerialEnd, handle, history
<1>9. QED
  BY <1>4, <1>5, <1>6, <1>7, <1>8 DEF LifeParts

-----------------------------------------------------------------------------
(* The calls, the program's files and the tasks keep the invariant.        *)

\* fs_initialize_networked finds no socket open and no task running that it
\* should know of.
LEMMA CallInitializeNetworkedKeeps ==
    ASSUME OneTransport, TypeOK, TodoInv, LifeParts, ~refused, CallInitializeNetworked
    PROVE  LifeParts'
<1>1. CallInv /\ PhaseInv /\ TaskInv /\ SocketsInv /\ OwnInv
  BY DEF LifeParts
<1>2. todo = <<>> /\ todo' = NetStart /\ mode' = "net" /\ phase' = "new" /\ rc' = 0
      /\ status # "running" /\ (Reopens \/ phase \in {"new", "failed"})
      /\ UNCHANGED <<owner, status, tcp, udp, sock, task, zeroed>>
  BY DEF CallInitializeNetworked, FirstSession
<1>3. todo \notin Spawned /\ todo' \notin Spawned /\ todo' # <<>>
  BY <1>2, ListsDiffer DEF Spawned, HasBoth, NetLists
<1>4. mode \in {"none", "net", "serial"}
      /\ phase \in {"new", "open", "failed", "closed", "notClosed"}
  BY DEF TypeOK
<1>5. SocketsAre({})
  BY <1>1, <1>2 DEF SocketsInv, Disconnected, TaskInv
<1>6. ~zeroed \/ ~Reopens => phase \in {"new", "failed"}
  BY <1>1, <1>2, <1>4 DEF PhaseInv, TaskInv
<1>7. CallInv'
  BY <1>2, ListsDiffer
  DEF CallInv, NetLists, AbortUdp, EndTcp, ExitTcps, EndUdp, SerialLists, SerialEnd
<1>8. PhaseInv'
  BY <1>2, <1>3 DEF PhaseInv
<1>9. TaskInv'
  BY <1>1, <1>2, <1>3, <1>6 DEF TaskInv, Active, Kind
<1>10. SocketsInv'
  <2>1. SocketsAre({})'
    BY <1>2, <1>5 DEF SocketsAre
  <2>2. todo' \notin {DropTcp, CloseExit, AbortExit, DropUdp, AtConnect, AtBind}
    BY <1>2, ListsDiffer DEF HasTcp, NetLists, AbortUdp, EndTcp, ExitTcps, EndUdp
  <2>3. QED
    BY <2>1, <2>2 DEF SocketsInv, SocketsAre
<1>11. OwnInv'
  <2>1. todo' \notin HasTcp \cup HasBoth \cup ExitTcps \cup EndUdp
             \cup {AtStarted, AtClear, <<>>}
    BY <1>2, ListsDiffer DEF NetLists
  <2>2. QED
    BY <1>1, <1>2, <2>1 DEF OwnInv, Holds
<1>12. QED
  BY <1>7, <1>8, <1>9, <1>10, <1>11 DEF LifeParts

\* fs_initialize_serial is the first session's: nothing is open or running.
LEMMA CallInitializeSerialKeeps ==
    ASSUME OneTransport, TypeOK, TodoInv, LifeParts, ~refused, CallInitializeSerial
    PROVE  LifeParts'
<1>1. CallInv /\ PhaseInv /\ TaskInv /\ SocketsInv /\ OwnInv
  BY DEF LifeParts
<1>2. todo = <<>> /\ todo' = SerialStart /\ mode' = "serial" /\ phase' = "new"
      /\ status # "running" /\ ~Reopens /\ phase \in {"new", "failed"}
      /\ UNCHANGED <<owner, status, tcp, udp, sock, task, zeroed>>
  BY DEF CallInitializeSerial, FirstSession, OneTransport
<1>3. todo \notin Spawned /\ todo' \notin Spawned /\ todo' # <<>>
  BY <1>2, ListsDiffer DEF Spawned, HasBoth, NetLists, SerialLists
<1>5. SocketsAre({})
  BY <1>1, <1>2 DEF SocketsInv, Disconnected, TaskInv
<1>7. CallInv'
  BY <1>2, ListsDiffer
  DEF CallInv, NetLists, AbortUdp, EndTcp, ExitTcps, EndUdp, SerialLists, SerialEnd
<1>8. PhaseInv'
  BY <1>2, <1>3 DEF PhaseInv
<1>9. TaskInv'
  BY <1>1, <1>2, <1>3 DEF TaskInv, Active, Kind
<1>10. SocketsInv'
  <2>1. SocketsAre({})'
    BY <1>2, <1>5 DEF SocketsAre
  <2>2. todo' \notin {DropTcp, CloseExit, AbortExit, DropUdp, AtConnect, AtBind}
    BY <1>2, ListsDiffer DEF NetLists, AbortUdp, EndTcp, ExitTcps, EndUdp, SerialLists
  <2>3. QED
    BY <2>1, <2>2 DEF SocketsInv, SocketsAre
<1>11. OwnInv'
  <2>1. todo' \notin HasTcp \cup HasBoth \cup ExitTcps \cup EndUdp
             \cup {AtStarted, AtClear, <<>>}
    BY <1>2, ListsDiffer DEF NetLists, HasTcp, HasBoth, SerialLists
  <2>2. QED
    BY <1>1, <1>2, <2>1 DEF OwnInv, Holds
<1>12. QED
  BY <1>7, <1>8, <1>9, <1>10, <1>11 DEF LifeParts

\* fs_closedown, or a reboot: the tasks go on, the sockets are still open.
LEMMA ClosedownKeeps ==
    ASSUME TypeOK, TodoInv, LifeParts, Closedown
    PROVE  LifeParts'
<1>1. CallInv /\ PhaseInv /\ TaskInv /\ SocketsInv /\ OwnInv
  BY DEF LifeParts
<1>2. /\ todo = <<>> /\ status' = "idle" /\ rc' = 0
      /\ \/ mode = "net" /\ todo' = NetExit
         \/ mode = "serial" /\ todo' = SerialExit
      /\ UNCHANGED <<owner, mode, tcp, udp, sock, task, phase, zeroed>>
  BY DEF Closedown, TypeOK, history
<1>3. todo \notin Spawned /\ todo' \notin Spawned /\ todo' # <<>>
  BY <1>2, ListsDiffer DEF Spawned, HasBoth, NetLists, ExitTcps, SerialEnd
<1>4. phase # "failed"
  BY <1>1, <1>2 DEF PhaseInv
<1>7. CallInv'
  BY <1>2, ListsDiffer
  DEF CallInv, NetLists, AbortUdp, EndTcp, ExitTcps, EndUdp, SerialLists, SerialEnd
<1>8. PhaseInv'
  BY <1>1, <1>2, <1>3, <1>4 DEF PhaseInv
<1>9. TaskInv'
  BY <1>1, <1>2, <1>3 DEF TaskInv, Active, Kind
<1>10. SocketsInv'
  <2>1. todo' \notin EndTcp \cup EndUdp
             \cup {DropTcp, CloseExit, AbortExit, DropUdp, AtConnect, AtBind,
                   NetStart, AtNotStarted, AtClear}
    BY <1>2, ListsDiffer DEF NetLists, AbortUdp, EndTcp, ExitTcps, EndUdp, SerialEnd
  <2>2. Disconnected' => Disconnected
    BY <1>2, <1>3, <2>1 DEF Disconnected
  <2>3. QED
    BY <1>1, <1>2, <2>1, <2>2 DEF SocketsInv, SocketsAre
<1>11. OwnInv'
  <2>1. todo' \notin HasTcp \cup HasBoth \cup EndUdp \cup {AtStarted, AtClear, <<>>}
    BY <1>2, ListsDiffer DEF NetLists, HasTcp, HasBoth, ExitTcps, SerialEnd
  <2>2. todo' \in ExitTcps => mode = "net"
    BY <1>2, ListsDiffer DEF ExitTcps, SerialEnd
  <2>3. QED
    BY <1>1, <1>2, <2>1, <2>2 DEF OwnInv, Holds
<1>12. QED
  BY <1>7, <1>8, <1>9, <1>10, <1>11 DEF LifeParts

\* A file of the program's takes a descriptor that is free.
LEMMA OpenFileKeeps ==
    ASSUME TypeOK, TodoInv, LifeParts, OpenFile
    PROVE  LifeParts'
<1>1. CallInv /\ PhaseInv /\ TaskInv /\ SocketsInv /\ OwnInv
  BY DEF LifeParts
<1>2. UNCHANGED <<mode, status, tcp, udp, todo, rc, sock, task, phase, zeroed>>
  BY DEF OpenFile, handle, program
<1>3. \A fd \in Fds : owner'[fd] = owner[fd] \/ (owner[fd] = "free" /\ owner'[fd] = "program")
  BY Descriptors, NewFdIsFree DEF OpenFile, Opened
<1>4. CallInv'
  BY <1>1, <1>2 DEF CallInv
<1>5. PhaseInv'
  BY <1>1, <1>2 DEF PhaseInv
<1>6. TaskInv'
  BY <1>1, <1>2 DEF TaskInv, Active, Kind
<1>7. SocketsInv'
  BY <1>1, <1>2, <1>3 DEF SocketsInv, SocketsAre, Disconnected
<1>8. OwnInv'
  BY <1>1, <1>2, <1>3 DEF OwnInv, Holds
<1>9. QED
  BY <1>4, <1>5, <1>6, <1>7, <1>8 DEF LifeParts

\* What a task may do without the program noticing.
LEMMA TaskFrame ==
    ASSUME LifeParts, NEW t \in Tasks, Active(t),
           UNCHANGED <<program, history, mode, tcp, udp>>,
           \A u \in Tasks \ {t} : task'[u] = task[u],
           \/ task'[t] = Unused
           \/ /\ task'[t].kind = task[t].kind
              /\ IF Kind(t) = "serial" THEN task'[t].at \notin {"closeUdp", "reopenUdp"}
                 ELSE task'[t].at \in {"start", "test", "testError", "receive", "read"},
           \A fd \in Fds : {owner[fd], owner'[fd]} \cap {"tcp", "udp"} # {}
               => owner'[fd] = owner[fd],
           \/ status' \in {status, "running"}
           \/ status' = "error" /\ Kind(t) = "serial"
    PROVE  LifeParts'
<1>1. CallInv /\ PhaseInv /\ TaskInv /\ SocketsInv /\ OwnInv
  BY DEF LifeParts
<1>2. UNCHANGED <<mode, tcp, udp, todo, rc, sock, phase, zeroed>>
  BY DEF program, history
<1>3. CallInv'
  BY <1>1, <1>2 DEF CallInv
<1>4. PhaseInv'
  BY <1>1, <1>2 DEF PhaseInv
<1>5. TaskInv'
  <2>1. \A u \in Tasks : task'[u] # Unused => task[u] # Unused /\ task'[u].kind = task[u].kind
    BY DEF Active
  <2>2. \A u \in Tasks : task'[u] # Unused =>
            IF task[u].kind = "serial"
            THEN mode = "serial" /\ ~Reopens /\ task'[u].at \notin {"closeUdp", "reopenUdp"}
            ELSE task'[u].at \in {"start", "test", "testError", "receive", "read"}
                 /\ status' # "error"
    BY <1>1 DEF TaskInv, Active, Kind
  <2>3. \A u, v \in Tasks : task'[u] # Unused /\ task'[v] # Unused /\ task'[u].kind = "serial"
            => task'[v].kind = "serial"
    BY <1>1, <2>1 DEF TaskInv, Active, Kind
  <2>4. ~((~zeroed \/ ~Reopens) /\ phase \in {"new", "failed"} /\ todo \notin Spawned)
    BY <1>1 DEF TaskInv
  <2>5. mode = "net" /\ (todo \in Spawned \/ (todo = <<>> /\ phase = "open")) => status' = "running"
    BY <1>1 DEF TaskInv
  <2>6. QED
    BY <1>2, <2>1, <2>2, <2>3, <2>4, <2>5 DEF TaskInv, Active, Kind
<1>6. SocketsInv'
  BY <1>1, <1>2 DEF SocketsInv, SocketsAre, Disconnected
<1>7. OwnInv'
  BY <1>1, <1>2 DEF OwnInv, Holds
<1>8. QED
  BY <1>3, <1>4, <1>5, <1>6, <1>7 DEF LifeParts

\* No step of a task takes another task's place, and in none of them does a network
\* task reconnect.
LEMMA TaskStepKeeps ==
    ASSUME TypeOK, LifeParts, NEW t \in Tasks, TaskStep(t)
    PROVE  LifeParts'
<1>1. CallInv /\ PhaseInv /\ TaskInv /\ SocketsInv /\ OwnInv
  BY DEF LifeParts
<1>2. UNCHANGED <<program, history, mode>>
  BY Calls
<1>3. task \in
         [Tasks -> [kind : {"tcp", "udp", "serial"}, at : Places, fd : Fds \cup {None, Path}]]
  BY DEF TypeOK
<1>4. At(t, "done") \/ Active(t)
  BY DEF At, Active, Unused
<1>5. ASSUME Active(t)
      PROVE  IF Kind(t) = "serial"
             THEN mode = "serial" /\ task[t].at \notin {"closeUdp", "reopenUdp"}
             ELSE task[t].at \in {"start", "test", "testError", "receive", "read"}
                  /\ status # "error"
  BY <1>1, <1>5 DEF TaskInv
<1>6. ASSUME mode = "serial"
      PROVE  \A fd \in Fds : owner[fd] \notin {"tcp", "udp"}
  BY <1>1, <1>6 DEF SocketsInv, SocketsAre, Disconnected
<1>7. ASSUME NEW place, Goto(t, place)
      PROVE  /\ \A u \in Tasks \ {t} : task'[u] = task[u]
             /\ task'[t].kind = task[t].kind /\ task'[t].at = place
  BY <1>3, <1>7 DEF Goto
<1>8. CASE Begin(t)
  <2>1. Active(t)
    BY <1>4, <1>8 DEF At, Begin
  <2>2. Goto(t, "test") /\ status' = "running" /\ UNCHANGED <<owner, tcp, udp>>
    BY <1>8 DEF Begin
  <2>3. QED
    BY <1>2, <1>7, <2>1, <2>2, TaskFrame
<1>9. CASE Test(t)
  <2>1. Active(t)
    BY <1>4, <1>9 DEF At, Test
  <2>2. UNCHANGED <<owner, tcp, udp, status>>
    BY <1>9 DEF Test, handle
  <2>3. CASE task' = [task EXCEPT ![t] = Unused]
    <3>1. task'[t] = Unused /\ \A u \in Tasks \ {t} : task'[u] = task[u]
      BY <1>3, <2>3
    <3>2. QED
      BY <1>2, <2>1, <2>2, <3>1, TaskFrame
  <2>4. CASE Goto(t, "receive") \/ Goto(t, "testError")
    <3>1. /\ task'[t].kind = task[t].kind /\ task'[t].at \in {"receive", "testError"}
          /\ \A u \in Tasks \ {t} : task'[u] = task[u]
      BY <1>7, <2>4
    <3>2. QED
      BY <1>2, <2>1, <2>2, <3>1, TaskFrame
  <2>5. QED
    BY <1>9, <2>3, <2>4 DEF Test
<1>10. CASE TestError(t)
  <2>1. Active(t)
    BY <1>4, <1>10 DEF At, TestError
  <2>2. UNCHANGED <<owner, tcp, udp, status>>
    BY <1>10 DEF TestError, handle
  <2>3. PICK place \in {"close", "receive"} : Goto(t,
  place) /\ (status # "error" => place = "receive")
    BY <1>10 DEF TestError
  <2>4. /\ task'[t].kind = task[t].kind /\ task'[t].at = place
        /\ \A u \in Tasks \ {t} : task'[u] = task[u]
    BY <1>7, <2>3
  <2>5. QED
    BY <1>2, <1>5, <2>1, <2>2, <2>3, <2>4, TaskFrame
<1>11. CASE Receive(t)
  <2>1. Active(t)
    BY <1>4, <1>11 DEF At, Receive
  <2>2. UNCHANGED <<owner, tcp, udp, status>>
    BY <1>11 DEF Receive, handle
  <2>3. /\ task'[t].kind = task[t].kind /\ task'[t].at \in {"read", "failed", "test"}
        /\ Kind(t) # "serial" => task'[t].at \in {"read", "test"}
        /\ \A u \in Tasks \ {t} : task'[u] = task[u]
    <3>1. CASE \E fd : task' = [task EXCEPT ![t].at = "read", ![t].fd = fd]
      BY <1>3, <3>1
    <3>2. CASE Goto(t, IF Kind(t) = "serial" THEN "failed" ELSE "test")
      BY <1>7, <3>2
    <3>3. QED
      BY <1>11, <3>1, <3>2 DEF Receive
  <2>4. QED
    BY <1>2, <1>5, <2>1, <2>2, <2>3, TaskFrame
<1>12. CASE Read(t)
  <2>1. Active(t)
    BY <1>4, <1>12 DEF At, Read
  <2>2. UNCHANGED <<owner, tcp, udp, status>>
    BY <1>12 DEF Read, handle
  <2>3. PICK place \in {"test", "receive", "failed"} :
            /\ task' = [task EXCEPT ![t].at = place, ![t].fd = None]
            /\ Kind(t) # "serial" => place = "test"
    BY <1>12 DEF Read
  <2>4. /\ task'[t].kind = task[t].kind /\ task'[t].at = place
        /\ \A u \in Tasks \ {t} : task'[u] = task[u]
    BY <1>3, <2>3
  <2>5. QED
    BY <1>2, <1>5, <2>1, <2>2, <2>3, <2>4, TaskFrame
<1>13. CASE Fail(t)
  <2>1. Active(t) /\ Kind(t) = "serial"
    BY <1>4, <1>5, <1>13 DEF At, Fail
  <2>2. Goto(t, "test") /\ status' = "error" /\ UNCHANGED <<owner, tcp, udp>>
    BY <1>13 DEF Fail
  <2>3. QED
    BY <1>2, <1>7, <2>1, <2>2, TaskFrame
<1>14. CASE Recover(t)
  <2>1. Active(t)
    BY <1>4, <1>14 DEF At, Recover
  <2>2. Goto(t, "receive") /\ status' = "running" /\ UNCHANGED <<owner, tcp, udp>>
    BY <1>14 DEF Recover
  <2>3. QED
    BY <1>2, <1>7, <2>1, <2>2, TaskFrame
<1>15. CASE ClosePort(t)
  <2>1. Active(t) /\ Kind(t) = "serial"
    BY <1>4, <1>15 DEF At, ClosePort
  <2>2. Goto(t, "reopen") /\ UNCHANGED <<status, tcp, udp>>
    BY <1>15 DEF ClosePort, handle
  <2>3. \A fd \in Fds : owner'[fd] \in {owner[fd], "free"}
    BY <1>15, Descriptors DEF ClosePort, Closed
  <2>4. \A fd \in Fds : {owner[fd], owner'[fd]} \cap {"tcp", "udp"} = {}
    BY <1>5, <1>6, <2>1, <2>3
  <2>5. QED
    BY <1>2, <1>7, <2>1, <2>2, <2>4, TaskFrame
<1>16. CASE ReopenPort(t)
  <2>1. Active(t) /\ Kind(t) = "serial"
    BY <1>4, <1>16 DEF At, ReopenPort
  <2>2. Goto(t, "recovered") /\ UNCHANGED <<status, tcp, udp>>
    BY <1>16 DEF ReopenPort
  <2>3. \A fd \in Fds : owner'[fd] \in {owner[fd], "port"}
    BY <1>16, Descriptors, NewFdIsFree DEF ReopenPort, Opened
  <2>4. \A fd \in Fds : {owner[fd], owner'[fd]} \cap {"tcp", "udp"} = {}
    BY <1>5, <1>6, <2>1, <2>3
  <2>5. QED
    BY <1>2, <1>7, <2>1, <2>2, <2>4, TaskFrame
<1>17. CASE ReopenPortFails(t)
  <2>1. Active(t) /\ Kind(t) = "serial"
    BY <1>4, <1>17 DEF At, ReopenPortFails
  <2>2. Goto(t, "test") /\ UNCHANGED <<status, tcp, udp>>
    BY <1>17 DEF ReopenPortFails
  <2>3. \A fd \in Fds : owner'[fd] \in {owner[fd], "port"}
    BY <1>17, Descriptors, NewFdIsFree DEF ReopenPortFails, Opened
  <2>4. \A fd \in Fds : {owner[fd], owner'[fd]} \cap {"tcp", "udp"} = {}
    BY <1>5, <1>6, <2>1, <2>3
  <2>5. QED
    BY <1>2, <1>7, <2>1, <2>2, <2>4, TaskFrame
<1>18. ~(RecloseTcp(t) \/ Reconnect(t) \/ RecloseUdp(t) \/ Rebind(t))
  BY <1>4, <1>5 DEF At, Kind, RecloseTcp, Reconnect, RecloseUdp, Rebind
<1>19. QED
  BY <1>8, <1>9, <1>10, <1>11, <1>12, <1>13, <1>14, <1>15, <1>16, <1>17, <1>18 DEF TaskStep

\* Every step keeps the invariant.
LEMMA LifeStep ==
    ASSUME OneTransport, TypeOK, TodoInv, LifeInv, [Next]_vars
    PROVE  LifeInv'
<1> SUFFICES ASSUME ~refused' PROVE LifeParts'
  BY DEF LifeInv, LifeParts
<1>1. ~refused
  <2>1. ASSUME refused
        PROVE  refused'
    <3>1. CASE StartTcp \/ StartUdp \/ StartSerial
      BY <2>1, <3>1 DEF StartTcp, StartUdp, StartSerial, Spawn, Refuse
    <3>2. CASE \E t \in Tasks : TaskStep(t)
      BY <2>1, <3>2, Calls DEF history
    <3>3. CASE Call \/ OpenFile \/ UNCHANGED vars
      BY <2>1, <3>3
      DEF Call, CallInitializeNetworked, CallInitializeSerial, CallClosedown, CallReboot,
                        Closedown, OpenFile, vars, history
    <3>4. CASE ProgramStep /\ ~(StartTcp \/ StartUdp \/ StartSerial)
      BY <2>1, <3>4
      DEF ProgramStep, CloseTcp, Connect, Identify, SetPort, CloseUdp, Bind, OpenPort,
                        IdentifySerial, Started, NotStarted, ShutTcp, ExitTcp, ShutUdp,
                        ExitUdp, Shut, Exit,
                        ExitPort, DropPort, Clear, history
    <3>5. QED
      BY <3>1, <3>2, <3>3, <3>4 DEF Next
  <2>2. QED
    BY <2>1
<1>2. LifeParts
  BY <1>1 DEF LifeInv, LifeParts
<1>3. CASE Call
  BY <1>1, <1>2, <1>3, CallInitializeNetworkedKeeps, CallInitializeSerialKeeps, ClosedownKeeps
  DEF Call, CallClosedown, CallReboot
<1>4. CASE OpenFile
  BY <1>2, <1>4, OpenFileKeeps
<1>5. CASE \E t \in Tasks : TaskStep(t)
  BY <1>2, <1>5, TaskStepKeeps
<1>6. CASE CloseTcp
  BY <1>1, <1>2, <1>6, CloseTcpKeeps
<1>7. CASE Connect
  BY <1>1, <1>2, <1>7, ConnectKeeps
<1>8. CASE Identify
  BY <1>1, <1>2, <1>8, IdentifyKeeps
<1>9. CASE SetPort
  BY <1>1, <1>2, <1>9, SetPortKeeps
<1>10. CASE CloseUdp
  BY <1>1, <1>2, <1>10, CloseUdpKeeps
<1>11. CASE Bind
  BY <1>1, <1>2, <1>11, BindKeeps
<1>12. CASE StartTcp
  BY <1>1, <1>2, <1>12, StartTcpKeeps
<1>13. CASE StartUdp
  BY <1>1, <1>2, <1>13, StartUdpKeeps
<1>14. CASE OpenPort
  BY <1>1, <1>2, <1>14, OpenPortKeeps
<1>15. CASE IdentifySerial
  BY <1>1, <1>2, <1>15, IdentifySerialKeeps
<1>16. CASE StartSerial
  BY <1>1, <1>2, <1>16, StartSerialKeeps
<1>17. CASE Started
  BY <1>1, <1>2, <1>17, StartedKeeps
<1>18. CASE NotStarted
  BY <1>1, <1>2, <1>18, NotStartedKeeps
<1>19. CASE ShutTcp
  BY <1>1, <1>2, <1>19, ShutTcpKeeps
<1>20. CASE ExitTcp
  BY <1>1, <1>2, <1>20, ExitTcpKeeps
<1>21. CASE ShutUdp
  BY <1>1, <1>2, <1>21, ShutUdpKeeps
<1>22. CASE ExitUdp
  BY <1>1, <1>2, <1>22, ExitUdpKeeps
<1>23. CASE ExitPort
  BY <1>1, <1>2, <1>23, ExitPortKeeps
<1>24. CASE DropPort
  BY <1>1, <1>2, <1>24, DropPortKeeps
<1>25. CASE Clear
  BY <1>1, <1>2, <1>25, ClearKeeps
<1>26. CASE UNCHANGED vars
  BY <1>2, <1>26
  DEF LifeParts, CallInv, PhaseInv, TaskInv, SocketsInv, OwnInv, SocketsAre, Disconnected,
                   Active, Kind, Holds, vars, handle, program, history
<1>27. QED
  BY <1>3, <1>4, <1>5, <1>6, <1>7, <1>8, <1>9, <1>10, <1>11, <1>12, <1>13, <1>14, <1>15, <1>16,
     <1>17, <1>18, <1>19, <1>20, <1>21, <1>22, <1>23, <1>24, <1>25, <1>26 DEF Next, ProgramStep

-----------------------------------------------------------------------------
(* The theorems.                                                           *)

\* Both ways of declaring a handle satisfy the invariant.
LEMMA LifeInit == Init => TypeOK /\ TodoInv /\ LifeInv
<1> SUFFICES ASSUME Init PROVE TypeOK /\ TodoInv /\ LifeInv
  OBVIOUS
<1>1. TypeOK
  <2>1. Unused \in [kind : {"tcp", "udp", "serial"}, at : Places, fd : Fds \cup {None, Path}]
    BY DEF Unused, Places
  <2>2. QED
    BY <2>1, FdsAre, LifecycleAssumption DEF TypeOK, Init, Drivers
<1>2. TodoInv
  BY NamedTodos DEF TodoInv, Init
<1>3. <<>> \notin Spawned \cup HasTcp \cup HasBoth \cup {AtConnect, AtBind}
  BY ListsDiffer DEF Spawned, HasTcp, HasBoth, NetLists
<1>4. <<>> \notin {AtStarted, AtNotStarted, AtClear}
                 \cup {SerialAbort, AbortDrop} \cup {DropTcp, CloseExit, AbortExit, DropUdp}
  BY ListsDiffer DEF SerialEnd, AbortUdp, EndTcp, ExitTcps, EndUdp
<1>5. CallInv /\ PhaseInv
  BY <1>4, ListsDiffer DEF CallInv, PhaseInv, Init
<1>6. TaskInv
  BY <1>3 DEF TaskInv, Active, Init
<1>7. SocketsInv
  BY <1>3, <1>4, ListsDiffer DEF SocketsInv, SocketsAre, Init
<1>8. OwnInv
  BY <1>3, <1>4, ListsDiffer DEF OwnInv, Holds, Init
<1>9. QED
  BY <1>1, <1>2, <1>5, <1>6, <1>7, <1>8 DEF LifeInv

\* The handle, the descriptor table, the tasks and the call under way keep their types,
\* for every number of descriptors, starts and files.
THEOREM TypeCorrect == Spec => []TypeOK
<1>1. Init => TypeOK /\ TodoInv
  BY LifeInit
<1>2. TypeOK /\ TodoInv /\ [Next]_vars => (TypeOK /\ TodoInv)'
  BY TypeStep, TodoStep
<1>3. QED
  BY <1>1, <1>2, PTL DEF Spec

\* The invariant holds throughout.
LEMMA LifeCorrect ==
    ASSUME OneTransport
    PROVE  Spec => [](TypeOK /\ TodoInv /\ LifeInv)
<1>1. Init => TypeOK /\ TodoInv /\ LifeInv
  BY LifeInit
<1>2. TypeOK /\ TodoInv /\ LifeInv /\ [Next]_vars => (TypeOK /\ TodoInv /\ LifeInv)'
  BY TypeStep, TodoStep, LifeStep
<1>3. QED
  BY <1>1, <1>2, PTL DEF Spec

\* A start over the network that returned 0 left a TCP and a UDP socket of its own in
\* the handle, and they stay there until the program closes down.
THEOREM StartsConnected ==
    ASSUME OneTransport
    PROVE  Spec => []StartedIsConnected
<1>1. TypeOK /\ TodoInv /\ LifeInv => StartedIsConnected
  BY DEF LifeInv, OwnInv, StartedIsConnected, AtRest
<1>2. QED
  BY <1>1, LifeCorrect, PTL

\* A start over the network that failed at any step has closed what it opened, and its
\* handle can be started again.
THEOREM FailedStartsHoldNothing ==
    ASSUME OneTransport
    PROVE  Spec => []FailedStartHoldsNothing
<1>1. <<>> \notin Spawned
  BY ListsDiffer DEF Spawned, HasBoth, NetLists
<1>2. TypeOK /\ TodoInv /\ LifeInv => FailedStartHoldsNothing
  BY <1>1 DEF LifeInv, PhaseInv, TaskInv, SocketsInv, SocketsAre, Disconnected,
              FailedStartHoldsNothing, AtRest
<1>3. QED
  BY <1>2, LifeCorrect, PTL

\* After a fs_closedown that returned 0 no socket is open, and none is opened later by a
\* task that still runs.
THEOREM ClosedownReleases ==
    ASSUME OneTransport
    PROVE  Spec => []ClosedownReleasesSockets
<1>1. TypeOK /\ TodoInv /\ LifeInv => ClosedownReleasesSockets
  BY DEF LifeInv, SocketsInv, SocketsAre, Disconnected, ClosedownReleasesSockets
<1>2. QED
  BY <1>1, LifeCorrect, PTL

\* Which steps close a descriptor, and which one.
LEMMA ProgramsFilesStay ==
    ASSUME TypeOK, TodoInv, LifeParts, [Next]_vars, mode # "serial", ~zeroed,
           NEW fd \in Fds, owner[fd] = "program"
    PROVE  owner'[fd] = "program"
<1>1. CallInv /\ PhaseInv /\ TaskInv /\ SocketsInv /\ OwnInv
  BY DEF LifeParts
<1>2. fd # tcp /\ fd # udp
  BY <1>1, FdsAre DEF OwnInv, Holds
<1>3. CASE OpenFile \/ Connect \/ Bind \/ OpenPort
  BY <1>3, Descriptors, NewFdIsFree DEF OpenFile, Connect, Bind, OpenPort, Opened
<1>4. CASE CloseTcp \/ CloseUdp
  BY <1>2, <1>4, Descriptors DEF CloseTcp, CloseUdp, Closed
<1>5. CASE ExitTcp \/ ExitUdp
  <2>1. sock \in {tcp, udp}
    BY <1>1, <1>5, Moves DEF SocketsInv
  <2>2. QED
    BY <1>2, <1>5, <2>1, Descriptors DEF ExitTcp, ExitUdp, Exit, Closed
<1>6. CASE ExitPort
  BY <1>1, <1>6, Moves DEF CallInv, SerialEnd
<1>7. CASE \E t \in Tasks : TaskStep(t)
  <2>1. PICK t \in Tasks : TaskStep(t)
    BY <1>7
  <2>2. At(t, "done") \/ task[t].at \in {"start", "test", "testError", "receive", "read"}
    BY <1>1 DEF TaskInv, Active, At, Unused
  <2>3. ~(ClosePort(t) \/ ReopenPort(t) \/ ReopenPortFails(t) \/ RecloseTcp(t) \/ Reconnect(t)
          \/ RecloseUdp(t) \/ Rebind(t))
    BY <2>2
    DEF ClosePort, ReopenPort, ReopenPortFails, RecloseTcp, Reconnect, RecloseUdp, Rebind, At
  <2>4. QED
    BY <2>1, <2>3 DEF TaskStep, Begin, Test, TestError, Receive, Read, Fail, Recover
<1>8. CASE UNCHANGED vars
  BY <1>8 DEF vars
<1>9. CASE Call
  BY <1>9
  DEF Call, CallInitializeNetworked, CallInitializeSerial, CallClosedown, CallReboot, Closedown
<1>10. CASE Identify \/ SetPort \/ StartTcp \/ StartUdp \/ IdentifySerial \/ StartSerial
            \/ Started \/ NotStarted
  BY <1>10
  DEF Identify, SetPort, StartTcp, StartUdp, IdentifySerial, StartSerial, Started, NotStarted
<1>11. CASE ShutTcp \/ ShutUdp \/ DropPort \/ Clear
  BY <1>11 DEF ShutTcp, ShutUdp, Shut, DropPort, Clear
<1>12. QED
  BY <1>3, <1>4, <1>5, <1>6, <1>7, <1>8, <1>9, <1>10, <1>11 DEF Next, ProgramStep

\* No step over the network closes a descriptor of the program's, though a number the
\* driver has closed may be the program's next file.
THEOREM DriverClosesItsOwn ==
    ASSUME OneTransport
    PROVE  Spec => ClosesOnlyItsOwn
<1>1. TypeOK /\ TodoInv /\ LifeInv /\ [Next]_vars
        => [ mode # "serial" /\ ~zeroed /\ ~refused =>
               \A fd \in Fds : owner[fd] = "program" => owner'[fd] = "program" ]_vars
  BY ProgramsFilesStay DEF LifeInv, LifeParts
<1>2. QED
  BY <1>1, LifeCorrect, PTL DEF Spec, ClosesOnlyItsOwn
=============================================================================
