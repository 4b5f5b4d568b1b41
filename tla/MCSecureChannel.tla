--------------------------- MODULE MCSecureChannel ---------------------------
(* Instances of SecureChannel for TLC: a few bytes, packets of at most two *)
(* of them, and a counter that wraps after a handful of packets.           *)
EXTENDS SecureChannel

CONSTANTS a, b

MCByte == {a, b}
=============================================================================
