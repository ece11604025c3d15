----------------------------- MODULE MCClientIO -----------------------------
(* Instances of ClientIO.  A header of 2 bytes and packets of up to 4. *)
EXTENDS ClientIO

CONSTANTS i1, i2

\* The packet whose header says n.
Packet(k, s, n) ==
  [kind |-> k, src |-> s, says |-> n,
   length |-> IF n < PACKET_HDR_LENGTH THEN PACKET_HDR_LENGTH ELSE n]

\* Every verdict of validate_packet and every size: empty packets, bodies
\* that fit, one that fills read_buffer, one that is too long, and a header that
\* says less than its own length.
AllSorts ==
  {Packet("HELLO", i1, 2), Packet("DATA", i1, 4), Packet("DATA", i2, 3),
   Packet("OTHER", i1, 2), Packet("DATA", UNIDENTIFIED_CLIENT, 2),
   Packet("DATA", i1, 5), Packet("DATA", i1, 1)}
=============================================================================
