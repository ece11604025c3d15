----------------------------- MODULE MCV4Server -----------------------------
(* An instance of V4Server. *)
EXTENDS V4Server, TLC

CONSTANTS i1, i2

Packet(k, i, j) == [kind |-> k, src |-> i, dst |-> j]

\* A HELLO, which is for the server (dst says nothing), data from another id,
\* or from the same connection under another id, and a packet that is too long.
Traffic ==
  {Packet("HELLO", i1, i1),
   Packet("DATA", i2, i1),
   Packet("LARGE", i1, i1)}

Symmetry == Permutations(Clients)
=============================================================================
