--------------------------- MODULE MCCommandQueue ---------------------------
(* Instances of CommandQueue for TLC: every buffer of up to MaxBuffer bytes. *)
EXTENDS CommandQueue

CONSTANTS Letters,      \* bytes that are neither terminator nor line end
          MaxBuffer     \* bound: bytes one receive call returns

MCBuffers == BoundedSeq(Letters \cup {Terminator, LineEnd}, MaxBuffer) \ {<<>>}
=============================================================================
