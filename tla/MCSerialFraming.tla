--------------------------- MODULE MCSerialFraming --------------------------
(* Instances of SerialFraming for TLC.                                      *)
EXTENDS SerialFraming

CONSTANTS Kinds,          \* kinds of frames that may be sent, see MCFrame
          MaxFrames       \* bound: frames sent

Starts == <<"a1", "a2", "a3", "a4", "a5">>
Rests  == <<"b1", "b2", "b3", "b4", "b5">>

\* The nth frame sent.  The device name "b5..." would be a baud rate if it lost its
\* letter, and the third frame's baud rate is 0.  A pair is a binary frame of two
\* packets; the second one's start is used by no other frame.
MCFrame(kind, n) ==
    CASE kind = "base64" -> <<Header, Starts[n], Rests[n], Footer>>
      [] kind = "pair"   -> <<HeaderV2, Starts[n], Rests[n], Starts[5], Rests[n], "x", Footer>>
      [] kind = "name"   -> <<"I", "b", "5", Rests[n], Terminator>>
      [] kind = "baud"   -> IF n = 3 THEN <<"b", Terminator>> ELSE <<"b", "5", Terminator>>
      [] kind = "line"   -> <<LineEnd>>

MCStreams ==
    {[n \in 1 .. Len(s) |-> MCFrame(s[n], n)] : s \in BoundedSeq(Kinds, MaxFrames) \ {<<>>}}

\* A data buffer of 512 bytes holds two Base64 frames of 198 bytes and a half.
MCTypeBytes == Range(Starts) \cup {"0"}
MCNotBase64 == {Header, HeaderV2, Footer, Terminator, LineEnd, Padding, "?"}
=============================================================================
