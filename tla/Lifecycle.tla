------------------------------ MODULE Lifecycle ------------------------------
(***************************************************************************)
(* The life of a device handle on Linux: fs_initialize_networked,          *)
(* fs_initialize_serial, fs_closedown and fs_reboot_device in the          *)
(* program's thread, the tasks they start, and the process's table of file *)
(* descriptors.  The handle has no lock; tasks are detached, are never     *)
(* joined and learn that they should end from the status word.             *)
(*                                                                         *)
(* A call of the program is the sequence todo of the steps it has still to *)
(* make.  A step ends where another thread can see the difference: after a *)
(* store to the status word, and at each system call that opens or closes  *)
(* a descriptor.  What the tasks do with the bytes they read is the        *)
(* subject of SerialFraming, CommandQueue and PacketQueue.                 *)
(***************************************************************************)
EXTENDS Integers, Sequences, FiniteSetsExt

CONSTANTS
    Transports,   \* subset of {"net", "serial"}: what the program may initialize
    Blank,        \* TRUE: fs_device_info_t dev = {0}; FALSE: FS_DEVICE_INFO_UNINITIALIZED
    Reopens,      \* FALSE: the program initializes a handle until it is open, and not again
    MaxFd,        \* bound: the highest file descriptor
    MaxStarts,    \* bound: calls of fs_initialize_...
    MaxFiles      \* bound: files the program opens itself

ASSUME LifecycleAssumption ==
    /\ Transports \subseteq {"net", "serial"} /\ {Blank, Reopens} \subseteq BOOLEAN
    /\ MaxFd \in Nat /\ MaxStarts \in Nat \ {0} /\ MaxFiles \in Nat

VARIABLES
    owner,      \* the descriptor table: what is open under each descriptor
    mode,       \* communication_mode: "none", "net", or "serial" for UART and USB_CDC
    status,     \* device_params.status
    tcp, udp, port,   \* tcp_sock, udp_sock, serial_port
    addressed,  \* ip_addr is not empty
    pathed,     \* serial_path is not empty
    todo,       \* the steps left of the program's call
    rc,         \* thread_status, or what the shutdowns of the call returned so far
    sock,       \* the local sock of fs_shutdown_network_..._driver
    task,       \* the background tasks
    phase,      \* history: what the program knows of the handle
    starts, files,    \* counts for the bounds
    zeroed,     \* history: the handle's descriptors have been zero memory
    refused     \* history: a task could not be created

handle  == <<mode, status, tcp, udp, port, addressed, pathed>>
program == <<todo, rc, sock>>
history == <<phase, starts, files, zeroed, refused>>
vars    == <<owner, handle, program, task, history>>

None == -1                       \* no descriptor
Path == MaxFd + 1                \* a pointer to a path, stored where a descriptor belongs
Fds  == {0} \cup (3 .. MaxFd)    \* 0 is the program's stdin; 1 and 2 stay open
Tasks == 1 .. 2 * MaxStarts

Drivers == {"tcp", "udp", "port"}
Unused  == [kind |-> "serial", at |-> "done", fd |-> None]
Places  == {"start", "test", "testError", "receive", "read", "failed", "recovered",
            "close", "reopen", "closeUdp", "reopenUdp", "done"}
Steps   == {"closeTcp", "connect", "identify", "setPort", "closeUdp", "bind", "startTcp", "startUdp",
            "open", "identifySerial", "startSerial", "started", "notStarted", "clear",
            "shutTcp", "exitTcp", "shutUdp", "exitUdp", "exitPort", "dropPort"}

\* open and socket return the lowest descriptor that is free.
FreeFds == {fd \in Fds : owner[fd] = "free"}
NewFd == Min(FreeFds)
Opened(what) == FreeFds # {} /\ owner' = [owner EXCEPT ![NewFd] = what]
Holds(fd, what) == fd \in Fds /\ owner[fd] = what
\* close of a value that is no open descriptor fails and changes nothing.
Closed(fd)  == owner' = IF fd \in Fds THEN [owner EXCEPT ![fd] = "free"] ELSE owner
IsOpen(fd)  == fd \in Fds /\ owner[fd] # "free"

TypeOK ==
    /\ owner \in [Fds -> {"free", "program"} \cup Drivers]
    /\ mode \in {"none", "net", "serial"} /\ status \in {"idle", "running", "error"}
    /\ {tcp, udp, port, sock} \subseteq Fds \cup {None, Path}
    /\ {addressed, pathed, zeroed, refused} \subseteq BOOLEAN
    /\ todo \in Seq(Steps) /\ rc \in {0, -1}
    /\ task \in [Tasks -> [kind : {"tcp", "udp", "serial"}, at : Places, fd : Fds \cup {None, Path}]]
    /\ phase \in {"new", "open", "failed", "closed", "notClosed"}
    /\ starts \in 0 .. MaxStarts /\ files \in 0 .. MaxFiles

\* FS_DEVICE_PARAMS_BLANK, or the zero memory of "= {0}" in which the mode reads
\* FS_COMMUNICATION_MODE_USB_CDC and the descriptors read 0.
Init ==
    /\ owner = [fd \in Fds |-> IF fd = 0 THEN "program" ELSE "free"]
    /\ mode = IF Blank THEN "serial" ELSE "none"
    /\ status = "idle"
    /\ tcp = IF Blank THEN 0 ELSE None
    /\ udp = IF Blank THEN 0 ELSE None
    /\ port = IF Blank THEN 0 ELSE None
    /\ addressed = FALSE /\ pathed = FALSE
    /\ todo = <<>> /\ rc = 0 /\ sock = None
    /\ task = [t \in Tasks |-> Unused]
    /\ phase = "new" /\ starts = 0 /\ files = 0 /\ zeroed = Blank /\ refused = FALSE

-----------------------------------------------------------------------------
(* The program's calls.                                                    *)

\* Bug: after a failed start only the UDP socket is shut down.
NetAbortKeepsTcp == <<"shutUdp", "exitUdp", "notStarted">>
\* Bug: fs_network_exit shuts down the TCP socket only.
NetExitKeepsUdp == <<"shutTcp", "exitTcp", "clear">>

NetStart   == <<"closeTcp", "connect", "identify", "setPort", "closeUdp", "bind",
                "startTcp", "startUdp", "started">>
NoDriver   == <<"shutTcp", "exitTcp", "notStarted">>
NetAbort   == <<"shutUdp", "exitUdp", "shutTcp", "exitTcp", "notStarted">>
NetExit    == <<"shutTcp", "exitTcp", "shutUdp", "exitUdp", "clear">>
SerialStart == <<"open", "identifySerial", "startSerial", "started">>
SerialAbort == <<"exitPort", "dropPort", "notStarted">>
SerialExit  == <<"exitPort", "dropPort", "clear">>

\* The device has not been open yet, and no task was refused.
FirstSession == phase \in {"new", "failed"} /\ ~refused

NextIs(step) == todo # <<>> /\ Head(todo) = step
Proceed == todo' = Tail(todo)

\* fs_initialize_networked and fs_network_start up to the TCP driver.  A handle
\* whose status is RUNNING is refused, and nothing changes.
CallInitializeNetworked ==
    /\ todo = <<>> /\ "net" \in Transports /\ status # "running"
    /\ starts < MaxStarts /\ (Reopens \/ FirstSession)
    /\ mode' = "net" /\ addressed' \in BOOLEAN
    /\ todo' = NetStart /\ rc' = 0
    /\ starts' = starts + 1 /\ phase' = "new"
    /\ UNCHANGED <<owner, status, tcp, udp, port, pathed, sock, task, files, zeroed, refused>>

\* fs_initialize_serial up to the serial driver.
CallInitializeSerial ==
    /\ todo = <<>> /\ "serial" \in Transports /\ status # "running"
    /\ starts < MaxStarts /\ (Reopens \/ FirstSession)
    /\ mode' = "serial" /\ port' = Path
    /\ todo' = SerialStart /\ rc' = 0
    /\ starts' = starts + 1 /\ phase' = "new"
    /\ UNCHANGED <<owner, status, tcp, udp, addressed, pathed, sock, task, files, zeroed, refused>>

\* fs_closedown.  In mode UNINITIALIZED it returns -1 and nothing changes.
Closedown ==
    /\ todo = <<>> /\ mode # "none"
    /\ status' = "idle"
    /\ todo' = (IF mode = "net" THEN NetExit ELSE SerialExit) /\ rc' = 0
    /\ UNCHANGED <<owner, mode, tcp, udp, port, addressed, pathed, sock, task, history>>

CallClosedown == Closedown

\* fs_reboot_device and fs_factory_reset close down once the command is sent.
CallReboot ==
    /\ IF mode = "net" THEN Holds(tcp, "tcp") ELSE IsOpen(port)
    /\ Closedown

\* The program opens a file of its own.
OpenFile ==
    /\ files < MaxFiles
    /\ Opened("program")
    /\ files' = files + 1
    /\ UNCHANGED <<handle, program, task, phase, starts, zeroed, refused>>

-----------------------------------------------------------------------------
(* The steps of a start over the network.                                  *)

\* fs_init_network_tcp_driver refuses an empty address; it closes the socket it
\* finds in the handle ...
CloseTcp ==
    /\ NextIs("closeTcp")
    /\ \/ ~addressed /\ mode' = "none" /\ todo' = NoDriver /\ UNCHANGED <<owner, tcp>>
       \/ /\ addressed /\ Proceed /\ UNCHANGED mode
          /\ IF tcp >= 0 THEN Closed(tcp) /\ tcp' = None ELSE UNCHANGED <<owner, tcp>>
    /\ UNCHANGED <<status, udp, port, addressed, pathed, rc, sock, task, history>>

\* ... and connects a new one.
Connect ==
    /\ NextIs("connect")
    /\ \/ Opened("tcp") /\ tcp' = NewFd /\ Proceed /\ UNCHANGED mode
       \/ mode' = "none" /\ todo' = NoDriver /\ UNCHANGED <<owner, tcp>>
    /\ UNCHANGED <<status, udp, port, addressed, pathed, rc, sock, task, history>>

\* Up to ten identification commands; the device's name says whether one was answered.
Identify ==
    /\ NextIs("identify")
    /\ (Holds(tcp, "tcp") /\ Proceed) \/ todo' = NetAbort
    /\ UNCHANGED <<owner, handle, rc, sock, task, history>>

\* fs_network_set_host_udp_port
SetPort ==
    /\ NextIs("setPort")
    /\ \/ Holds(tcp, "tcp") /\ Proceed /\ UNCHANGED mode
       \/ mode' = "none" /\ todo' = NetAbort
    /\ UNCHANGED <<owner, status, tcp, udp, port, addressed, pathed, rc, sock, task, history>>

\* fs_init_network_udp_driver
CloseUdp ==
    /\ NextIs("closeUdp") /\ Proceed
    /\ IF udp >= 0 THEN Closed(udp) /\ udp' = None ELSE UNCHANGED <<owner, udp>>
    /\ UNCHANGED <<mode, status, tcp, port, addressed, pathed, rc, sock, task, history>>

\* Bug: the result of fs_init_network_udp_driver is not looked at.
BindIgnored ==
    /\ NextIs("bind") /\ Proceed
    /\ (Opened("udp") /\ udp' = NewFd) \/ UNCHANGED <<owner, udp>>
    /\ UNCHANGED <<mode, status, tcp, port, addressed, pathed, rc, sock, task, history>>

Bind ==
    /\ NextIs("bind")
    /\ \/ Opened("udp") /\ udp' = NewFd /\ Proceed /\ UNCHANGED mode
       \/ mode' = "none" /\ todo' = NetAbort /\ UNCHANGED <<owner, udp>>
    /\ UNCHANGED <<status, tcp, port, addressed, pathed, rc, sock, task, history>>

\* fs_thread_start
Spawn(kind) ==
    \E t \in {Min({u \in Tasks : task[u] = Unused})} :
        /\ task' = [task EXCEPT ![t] = [kind |-> kind, at |-> "start", fd |-> None]]
        /\ status' = "running"
        /\ UNCHANGED refused

Refuse == status' = "error" /\ refused' = TRUE /\ UNCHANGED task

\* The results of both starts are added up before they are looked at.
StartTcp ==
    /\ NextIs("startTcp") /\ Proceed
    /\ (Spawn("tcp") /\ rc' = rc) \/ (Refuse /\ rc' = -1)
    /\ UNCHANGED <<owner, mode, tcp, udp, port, addressed, pathed, sock, phase, starts, files, zeroed>>

StartUdp ==
    /\ NextIs("startUdp")
    /\ \/ Spawn("udp") /\ (IF rc = 0 THEN Proceed ELSE todo' = NetAbort)
       \/ Refuse /\ todo' = NetAbort
    /\ UNCHANGED <<owner, mode, tcp, udp, port, addressed, pathed, rc, sock, phase, starts, files, zeroed>>

-----------------------------------------------------------------------------
(* The steps of a start over a serial port.                                *)

\* fs_init_serial_driver: the port is opened; opened but not configured, and closed
\* again; opened as descriptor 0 and called invalid; not opened; or not even tried,
\* since the path is too long or the status is RUNNING.
OpenPort ==
    /\ NextIs("open")
    /\ \/ /\ status # "running" /\ FreeFds # {} /\ NewFd > 2
          /\ pathed' = TRUE /\ port' = NewFd
          /\ (Opened("port") /\ Proceed) \/ (todo' = <<"notStarted">> /\ UNCHANGED owner)
       \/ /\ status # "running"
          /\ pathed' = TRUE /\ port' = None /\ todo' = <<"notStarted">>
          /\ (Opened("port") /\ NewFd = 0) \/ UNCHANGED owner
       \/ todo' = <<"notStarted">> /\ UNCHANGED <<owner, port, pathed>>
    /\ UNCHANGED <<mode, status, tcp, udp, addressed, rc, sock, task, history>>

\* The identification commands: answered, not sent, or sent and not answered.
IdentifySerial ==
    /\ NextIs("identifySerial")
    /\ \/ Holds(port, "port") /\ Proceed /\ UNCHANGED status
       \/ todo' = <<"notStarted">> /\ UNCHANGED status
       \/ todo' = SerialAbort /\ status' = "idle"
    /\ UNCHANGED <<owner, mode, tcp, udp, port, addressed, pathed, rc, sock, task, history>>

StartSerial ==
    /\ NextIs("startSerial")
    /\ (Spawn("serial") /\ Proceed) \/ (Refuse /\ todo' = <<"notStarted">>)
    /\ UNCHANGED <<owner, mode, tcp, udp, port, addressed, pathed, rc, sock, phase, starts, files, zeroed>>

-----------------------------------------------------------------------------
(* The end of a start, and the steps of a shutdown.                        *)

Started ==
    /\ NextIs("started") /\ Proceed
    /\ phase' = "open"
    /\ UNCHANGED <<owner, handle, rc, sock, task, starts, files, zeroed, refused>>

NotStarted ==
    /\ NextIs("notStarted") /\ Proceed
    /\ mode' = "none" /\ phase' = "failed"
    /\ UNCHANGED <<owner, status, tcp, udp, port, addressed, pathed, rc, sock, task,
                   starts, files, zeroed, refused>>

\* Bug: the results of the shutdowns are added up.
ShutSum(step, s) ==
    /\ NextIs(step)
    /\ IF s >= 0 THEN sock' = s /\ status' = "idle" /\ Proceed /\ UNCHANGED rc
       ELSE rc' = rc - 1 /\ todo' = Tail(Tail(todo)) /\ UNCHANGED <<sock, status>>
    /\ UNCHANGED <<owner, mode, tcp, udp, port, addressed, pathed, task, history>>

\* fs_shutdown_network_tcp_driver and fs_shutdown_network_udp_driver: the socket is
\* loaded and the tasks are told to stop ...
Shut(step, s) ==
    /\ NextIs(step)
    /\ IF s >= 0 THEN sock' = s /\ status' = "idle" /\ Proceed /\ UNCHANGED rc
       ELSE rc' = -1 /\ todo' = Tail(Tail(todo)) /\ UNCHANGED <<sock, status>>
    /\ UNCHANGED <<owner, mode, tcp, udp, port, addressed, pathed, task, history>>

ShutTcp == Shut("shutTcp", tcp)
ShutUdp == Shut("shutUdp", udp)

\* ... then it is closed; only a close that succeeds tells them again.
Exit(step) ==
    /\ NextIs(step) /\ Proceed
    /\ Closed(sock)
    /\ IF IsOpen(sock) THEN status' = "idle" /\ UNCHANGED rc ELSE rc' = -1 /\ UNCHANGED status
    /\ sock' = None
    /\ UNCHANGED <<mode, port, addressed, pathed, task, history>>

\* Bug: the closed socket stays in the handle.
ExitTcpKeepsSocket == Exit("exitTcp") /\ UNCHANGED <<tcp, udp>>

ExitTcp == Exit("exitTcp") /\ tcp' = None /\ UNCHANGED udp
ExitUdp == Exit("exitUdp") /\ udp' = None /\ UNCHANGED tcp

\* fs_shutdown_serial_driver
ExitPort ==
    /\ NextIs("exitPort")
    /\ IF port < 0 THEN rc' = -1 /\ todo' = Tail(Tail(todo)) /\ UNCHANGED owner
       ELSE Closed(port) /\ rc' = (IF IsOpen(port) THEN 0 ELSE -1) /\ Proceed
    /\ UNCHANGED <<handle, sock, task, history>>

DropPort ==
    /\ NextIs("dropPort") /\ Proceed
    /\ port' = None
    /\ UNCHANGED <<owner, mode, status, tcp, udp, addressed, pathed, rc, sock, task, history>>

\* fs_closedown clears the whole handle, unless a shutdown has failed.
Clear ==
    /\ NextIs("clear") /\ Proceed
    /\ IF rc = 0
       THEN /\ mode' = "serial" /\ status' = "idle"
            /\ tcp' = 0 /\ udp' = 0 /\ port' = 0
            /\ addressed' = FALSE /\ pathed' = FALSE
            /\ zeroed' = TRUE /\ phase' = "closed"
       ELSE phase' = "notClosed" /\ UNCHANGED <<handle, zeroed>>
    /\ UNCHANGED <<owner, rc, sock, task, starts, files, refused>>

-----------------------------------------------------------------------------
(* The background tasks.                                                   *)

At(t, place) == task[t].at = place
Goto(t, place) == task' = [task EXCEPT ![t].at = place]
Kind(t) == task[t].kind

\* Every task announces itself by storing RUNNING, whatever the status has become
\* since the task was created.
Begin(t) ==
    /\ At(t, "start") /\ Goto(t, "test")
    /\ status' = "running"
    /\ UNCHANGED <<owner, mode, tcp, udp, port, addressed, pathed, program, history>>

\* Bug: the UDP task runs while (1).
TestUdpForever(t) ==
    /\ At(t, "test")
    /\ IF Kind(t) = "udp" THEN Goto(t, "receive")
       ELSE IF status = "idle" THEN task' = [task EXCEPT ![t] = Unused] ELSE Goto(t, "testError")
    /\ UNCHANGED <<owner, handle, program, history>>

\* The condition of the task's while loop; the UDP task looks at nothing else.
Test(t) ==
    /\ At(t, "test")
    /\ \/ status = "idle" /\ task' = [task EXCEPT ![t] = Unused]
       \/ status # "idle" /\ Goto(t, IF Kind(t) = "udp" THEN "receive" ELSE "testError")
    /\ UNCHANGED <<owner, handle, program, history>>

TestError(t) ==
    /\ At(t, "testError")
    /\ Goto(t, IF status = "error" THEN "close" ELSE "receive")
    /\ UNCHANGED <<owner, handle, program, history>>

\* fs_receive_serial and fs_receive_networked_...: a wrong mode or a bad
\* descriptor is an error, which only the serial task takes notice of.
Receive(t) ==
    /\ At(t, "receive")
    /\ LET fd == CASE Kind(t) = "tcp" -> tcp [] Kind(t) = "udp" -> udp [] OTHER -> port
           ok == IF Kind(t) = "serial" THEN mode = "serial" /\ fd > 2 ELSE mode = "net" /\ fd >= 0
       IN  IF ok THEN task' = [task EXCEPT ![t].at = "read", ![t].fd = fd]
           ELSE Goto(t, IF Kind(t) = "serial" THEN "failed" ELSE "test")
    /\ UNCHANGED <<owner, handle, program, history>>

\* The system call.  Data that arrived on the serial port is followed by another
\* read, without a look at the status; poll does not report a closed descriptor
\* as an error, a port that went away is one.
Read(t) ==
    /\ At(t, "read")
    /\ \E place \in {"test"} \cup
             (IF Kind(t) = "serial" /\ IsOpen(task[t].fd) THEN {"receive", "failed"} ELSE {}) :
         task' = [task EXCEPT ![t].at = place, ![t].fd = None]
    /\ UNCHANGED <<owner, handle, program, history>>

Fail(t) ==
    /\ At(t, "failed") /\ Goto(t, "test")
    /\ status' = "error"
    /\ UNCHANGED <<owner, mode, tcp, udp, port, addressed, pathed, program, history>>

\* fs_attempt_reconnect_serial: the old port is closed ...
ClosePort(t) ==
    /\ At(t, "close") /\ Kind(t) = "serial" /\ Goto(t, "reopen")
    /\ IF port > 2 THEN Closed(port) ELSE UNCHANGED owner
    /\ UNCHANGED <<handle, program, history>>

\* ... and the path is opened again, if it has not been cleared.
ReopenPort(t) ==
    /\ At(t, "reopen") /\ Kind(t) = "serial" /\ pathed
    /\ FreeFds # {} /\ NewFd > 2
    /\ Opened("port") /\ port' = NewFd /\ Goto(t, "recovered")
    /\ UNCHANGED <<mode, status, tcp, udp, addressed, pathed, program, history>>

\* Otherwise the task waits half a second and goes on with the loop.  A port that
\* could not be configured is closed and stays in the handle.
ReopenPortFails(t) ==
    /\ At(t, "reopen") /\ Kind(t) = "serial" /\ Goto(t, "test")
    /\ \/ /\ port' = None
          /\ (pathed /\ Opened("port") /\ NewFd = 0) \/ UNCHANGED owner
       \/ pathed /\ FreeFds # {} /\ NewFd > 2 /\ port' = NewFd /\ UNCHANGED owner
    /\ UNCHANGED <<mode, status, tcp, udp, addressed, pathed, program, history>>

\* The TCP task reconnects both sockets with the functions that opened them.
RecloseTcp(t) ==
    /\ At(t, "close") /\ Kind(t) = "tcp"
    /\ IF addressed THEN Goto(t, "reopen") ELSE Goto(t, "test")
    /\ IF addressed /\ tcp >= 0 THEN Closed(tcp) /\ tcp' = None ELSE UNCHANGED <<owner, tcp>>
    /\ UNCHANGED <<mode, status, udp, port, addressed, pathed, program, history>>

Reconnect(t) ==
    /\ At(t, "reopen") /\ Kind(t) = "tcp"
    /\ \/ Opened("tcp") /\ tcp' = NewFd /\ Goto(t, "closeUdp")
       \/ Goto(t, "test") /\ UNCHANGED <<owner, tcp>>
    /\ UNCHANGED <<mode, status, udp, port, addressed, pathed, program, history>>

RecloseUdp(t) ==
    /\ At(t, "closeUdp")
    /\ IF addressed THEN Goto(t, "reopenUdp") ELSE Goto(t, "test")
    /\ IF addressed /\ udp >= 0 THEN Closed(udp) /\ udp' = None ELSE UNCHANGED <<owner, udp>>
    /\ UNCHANGED <<mode, status, tcp, port, addressed, pathed, program, history>>

Rebind(t) ==
    /\ At(t, "reopenUdp")
    /\ \/ Opened("udp") /\ udp' = NewFd /\ Goto(t, "recovered")
       \/ Goto(t, "test") /\ UNCHANGED <<owner, udp>>
    /\ UNCHANGED <<mode, status, tcp, port, addressed, pathed, program, history>>

\* Bug: the status stays ERROR after a reconnect.
RecoverSilently(t) ==
    /\ At(t, "recovered") /\ Goto(t, "receive")
    /\ UNCHANGED <<owner, handle, program, history>>

Recover(t) ==
    /\ At(t, "recovered") /\ Goto(t, "receive")
    /\ status' = "running"
    /\ UNCHANGED <<owner, mode, tcp, udp, port, addressed, pathed, program, history>>

-----------------------------------------------------------------------------

Call ==
    \/ CallInitializeNetworked \/ CallInitializeSerial \/ CallClosedown \/ CallReboot

ProgramStep ==
    \/ CloseTcp \/ Connect \/ Identify \/ SetPort \/ CloseUdp \/ Bind \/ StartTcp \/ StartUdp
    \/ OpenPort \/ IdentifySerial \/ StartSerial \/ Started \/ NotStarted
    \/ ShutTcp \/ ExitTcp \/ ShutUdp \/ ExitUdp \/ ExitPort \/ DropPort \/ Clear

TaskStep(t) ==
    \/ Begin(t) \/ Test(t) \/ TestError(t) \/ Receive(t) \/ Read(t) \/ Fail(t) \/ Recover(t)
    \/ ClosePort(t) \/ ReopenPort(t) \/ ReopenPortFails(t)
    \/ RecloseTcp(t) \/ Reconnect(t) \/ RecloseUdp(t) \/ Rebind(t)

Next == Call \/ OpenFile \/ ProgramStep \/ \E t \in Tasks : TaskStep(t)

Spec == Init /\ [][Next]_vars

\* The operating system runs the program inside its calls and every task, and a
\* port that is tried again and again is opened at last.
Fairness ==
    /\ WF_vars(ProgramStep)
    /\ \A t \in Tasks : WF_vars(TaskStep(t)) /\ SF_vars(ReopenPort(t))

FairSpec == Spec /\ Fairness

-----------------------------------------------------------------------------
(* Properties.                                                             *)

AtRest == todo = <<>>

\* A start that returned 0 on a handle that was never zero memory has connected the
\* device: a TCP and a UDP socket of its own, and they stay, unless
\* a task could not be created in an earlier start.
StartedIsConnected ==
    AtRest /\ phase = "open" /\ mode = "net" /\ ~zeroed /\ ~refused =>
        Holds(tcp, "tcp") /\ Holds(udp, "udp")

\* A start over the network that failed leaves no socket open and a handle that can
\* be started again, whichever of its steps failed, unless a task could not be created.
FailedStartHoldsNothing ==
    AtRest /\ phase = "failed" /\ ~zeroed /\ ~refused =>
        /\ \A fd \in Fds : owner[fd] \notin {"tcp", "udp"}
        /\ mode = "none" /\ status # "running"

\* When fs_closedown has returned 0 every socket is closed, and no task opens one
\* later, if the program leaves the handle alone.
ClosedownReleasesSockets ==
    phase = "closed" /\ ~refused => \A fd \in Fds : owner[fd] \notin {"tcp", "udp"}

\* Over the network the driver closes no descriptor of the program's, though a
\* number it has closed may be the program's next file, unless the handle was zero
\* memory or a task could not be created.
ClosesOnlyItsOwn ==
    [][ mode # "serial" /\ ~zeroed /\ ~refused =>
          \A fd \in Fds : owner[fd] = "program" => owner'[fd] = "program" ]_vars

\* A serial port that failed is reconnected, unless the program closes down.
SerialReconnects ==
    (phase = "open" /\ status = "error") ~> (status = "running" \/ phase # "open")

\* Once a closed handle says IDLE and every network task has begun, all of them end,
\* and none is kept alive by another one's store to the status word.
NetworkTasksEnd ==
    (phase = "closed" /\ status = "idle" /\ ~refused
        /\ \A t \in Tasks : At(t, "done") \/ (Kind(t) # "serial" /\ ~At(t, "start")))
        ~> (phase # "closed" \/ \A t \in Tasks : At(t, "done"))

\* What documentation/initialization.rst says of fs_closedown (releases all driver
\* resources: socket, serial port, background task).
ClosedownReleasesTask ==
    phase = "closed" ~> (phase # "closed" \/ \A t \in Tasks : At(t, "done"))

\* What documentation/initialization.rst shows (a handle made with = {0}, which then
\* connects over the network): what a start that returned 0 left is connected.
ExampleIsConnected ==
    AtRest /\ phase = "open" /\ mode = "net" /\ ~refused => Holds(tcp, "tcp") /\ Holds(udp, "udp")
=============================================================================
