---------------------------- MODULE MCV5Server ----------------------------
(* Instances of V5Server. *)
EXTENDS V5Server, TLC

CONSTANTS i1, i2

\* The packet whose header says n.
Packet(k, i, j, n) ==
  [kind |-> k, src |-> i, dst |-> j, says |-> n,
   length |-> IF n < PACKET_HDR_LENGTH THEN PACKET_HDR_LENGTH ELSE n]

\* Two ids write to i1, one of which may be it; a name without data; a type
\* that is rejected after it has named its sender; one byte too many; and a
\* header that says less than its own length.
Traffic ==
  {Packet("HELLO", i1, i1, PACKET_HDR_LENGTH),
   Packet("DATA", i1, i1, PACKET_HDR_LENGTH),
   Packet("DATA", i2, i1, MAX_PACKET_LENGTH),
   Packet("BAD", i1, i1, PACKET_HDR_LENGTH),
   Packet("DATA", i2, i1, MAX_PACKET_LENGTH + 1),
   Packet("DATA", i2, i1, PACKET_HDR_LENGTH - 1)}

\* Nobody looks at the bytes behind a Short header again, nor at those of an
\* invalid Client: neither a guard nor a property.  States that differ in them
\* only are the same state to TLC; how many there are still counts.
Unheard(c) ==
  c \in cmgr.invalid \/ (read_buffer[c] # <<>> /\ Short(read_buffer[c][1].of))

Heard ==
  <<cmgr, writeVars, cev, pc, peer, wire,
    [c \in Clients |-> IF Unheard(c)
                         THEN <<Len(read_buffer[c]), Len(inbox[c])>>
                         ELSE <<read_buffer[c], inbox[c], sent[c]>>]>>

Symmetry == Permutations(Clients)
=============================================================================
