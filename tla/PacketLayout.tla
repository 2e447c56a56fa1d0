---------------------------- MODULE PacketLayout ----------------------------
(***************************************************************************)
(* The packets of the device (include/FS_Trifecta_Defs_Packets.h): six     *)
(* packed structs in one union, told apart by their first byte only, and   *)
(* the functions that read fields of last_received_packet through one of   *)
(* the members of the union (common/FS_Trifecta_Device.c and               *)
(* android/FS_Trifecta_JNI_Packet_Unpack.c).                               *)
(*                                                                         *)
(* A struct is the sequence of its fields with their widths in bytes; the  *)
(* fields that belong to one vector or to one IMU are one group.  The      *)
(* value of a field is not modelled but what it is: see Read.              *)
(***************************************************************************)
EXTENDS Integers, SequencesExt

Head4 == << <<"type", 1>>, <<"time", 4>> >>
Raws  == << <<"raw0", 24>>, <<"raw1", 24>>, <<"raw2", 24>> >>
Trailer == << <<"temp", 6>>, <<"motion", 1>>, <<"diag", 1>>, <<"reserved", 3>>, <<"c", 1>>,
              <<"baro", 4>> >>

Composite == Head4 \o Raws
    \o << <<"q", 16>>, <<"mag", 12>>, <<"acc", 12>>, <<"omega", 12>> >> \o Trailer

Regular == Head4
    \o << <<"omega", 12>>, <<"q", 16>>, <<"mag", 12>>, <<"acc", 12>>, <<"reserved0", 12>> >>
    \o Trailer

Composite2 == Head4 \o Raws
    \o << <<"q", 16>>, <<"mag", 12>>, <<"omega", 12>>, <<"acc", 12>>, <<"v", 12>>, <<"r", 24>> >>
    \o Trailer

\* The variants with a 64-bit time.
Wide(fields) == [fields EXCEPT ![2] = <<"time", 8>>]
Composite64   == Wide(Composite)
Regular64     == Wide(Regular)
Composite64_2 == Wide(Composite2)

\* fs_packet_union, its members by the letters of the packet types.
Union == [C |-> Composite, S |-> Regular, C2 |-> Composite2,
          C64 |-> Composite64, S64 |-> Regular64, C642 |-> Composite64_2]
Kinds == DOMAIN Union

Width(fields) == FoldLeft(LAMBDA bytes, field : bytes + field[2], 0, fields)
Size == [k \in Kinds |-> Width(Union[k])]

\* FS_STATIC_ASSERT of every struct.
ASSUME StaticAsserts ==
    Size = [C |-> 145, S |-> 85, C2 |-> 181, C64 |-> 149, S64 |-> 89, C642 |-> 185]

FieldsOf(k) == {Union[k][i][1] : i \in DOMAIN Union[k]}
Groups == UNION {FieldsOf(k) : k \in Kinds}

\* Where a member has a group: its first byte and its width.
Place == [k \in Kinds |-> [g \in FieldsOf(k) |->
             LET i == CHOOSE i \in DOMAIN Union[k] : Union[k][i][1] = g
             IN  [first |-> Width(SubSeq(Union[k], 1, i - 1)), width |-> Union[k][i][2]]]]

\* What a group of member view holds when the packet is one of kind k: its own
\* value, the lower bytes of it, bytes of other fields, or bytes that no field of
\* the packet has been written to.
Read(view, k, g) ==
    LET there == Place[view][g] IN
    IF g \in FieldsOf(k) /\ there = Place[k][g] THEN "own"
    ELSE IF g \in FieldsOf(k) /\ there.first = Place[k][g].first
              /\ there.width < Place[k][g].width THEN "low"
    ELSE IF there.first + there.width > Size[k] THEN "beyond"
    ELSE "other"

-----------------------------------------------------------------------------
(* The packet types.  Of the four numbers of a kind the first three are    *)
(* those of an IMU, an AHRS and an INS, the last is reserved.              *)

IMU == 0
AHRS == 1
INS == 2
RESERVED == 3

FirstType == [C |-> 0, S |-> 4, C2 |-> 8, C64 |-> 100, S64 |-> 104, C642 |-> 108]
Type(k, system) == FirstType[k] + system

\* obtain_packet_length has a length for these; no other packet is accepted.
PacketTypes == {Type(k, system) : k \in Kinds, system \in IMU .. RESERVED}
KindOf == [t \in PacketTypes |-> CHOOSE k \in Kinds : t \in FirstType[k] .. FirstType[k] + RESERVED]
SystemOf(t) == t - FirstType[KindOf[t]]

-----------------------------------------------------------------------------
(* The getters.  Each gives the group it reads and what it finds there     *)
(* when the newest packet has type t, or "refused" for a return of -1.     *)

Refused == "refused"

\* fs_get_last_timestamp does not ask for the type.
GetLastTimestamp(t) == Read("C", KindOf[t], "time")

\* The switch that most getters have: every short type through its own member.
ByKind(t, g) == IF KindOf[t] \in {"C", "S", "C2"} THEN Read(KindOf[t], KindOf[t], g) ELSE Refused

\* fs_get_orientation and fs_get_orientation_euler also want a packet that was not
\* popped yet.
GetOrientation(t, queued) == IF queued THEN ByKind(t, "q") ELSE Refused
GetAcceleration(t) == ByKind(t, "acc")
GetAngularVelocity(t) == ByKind(t, "omega")
GetMagneticField(t) == ByKind(t, "mag")
GetMovementState(t) == ByKind(t, "motion")

\* Bug: the velocity is read where the packets of IMUs have none, too.
GetVelocityOfAny(t) ==
    IF KindOf[t] \in {"C", "S", "C2"} THEN Read("C2", KindOf[t], "v") ELSE Refused

\* All INS types through the member of the long ones.
GetVelocity(t) ==
    IF KindOf[t] \in {"C", "S", "C2"} /\ SystemOf(t) \in {INS, RESERVED}
    THEN Read("C2", KindOf[t], "v") ELSE Refused
GetPosition(t) ==
    IF KindOf[t] \in {"C", "S", "C2"} /\ SystemOf(t) \in {INS, RESERVED}
    THEN Read("C2", KindOf[t], "r") ELSE Refused

\* The objects that the Android binding fills, each through one member, whatever
\* the type of the packet.
UnpackRegular(t)    == [g \in FieldsOf("S")  |-> Read("S",  KindOf[t], g)]
UnpackComposite(t)  == [g \in FieldsOf("C")  |-> Read("C",  KindOf[t], g)]
UnpackComposite2(t) == [g \in FieldsOf("C2") |-> Read("C2", KindOf[t], g)]
=============================================================================
