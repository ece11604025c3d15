----------------------------- MODULE MCV4Reader -----------------------------
(* Instances of V4Reader.  A header of 2 bytes, a first buffer of 4, which  *)
(* may hold two headers, and packets of up to 6.                            *)
EXTENDS V4Reader

CONSTANT i1

Packet(s, n) == [src |-> s, length |-> n]

\* What a well-behaved peer sends: no data, data that fits in the first buffer,
\* data for which it grows, as far as it may.
Traffic == {Packet(i1, 2), Packet(i1, 3), Packet(i1, 5), Packet(i1, 6)}

\* A peer that was not told its id.
Nameless == {Packet(i1, 2), Packet(UNIDENTIFIED_CLIENT, 2)}
=============================================================================
