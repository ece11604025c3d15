----------------------------- MODULE ByteStream -----------------------------
(***************************************************************************)
(* What the byte-level modules (ClientIO, V4Reader, V5Server) have in      *)
(* common.  A byte is the packet it belongs to and its place in it; what   *)
(* its value is matters to nobody but the header's length.                 *)
(***************************************************************************)
EXTENDS Naturals, Sequences

\* The bytes of the packets of P, which are records with a field `length`.
Bytes(P) == {b \in [of : P, at : Nat \ {0}] : b.at <= b.of.length}

IsLast(b) == b.at = b.of.length

\* The packets in a stream of bytes s: those whose last byte is in it, in order.
PacketsIn(s) ==
  LET f[k \in 0 .. Len(s)] ==
        IF k = 0 THEN <<>>
        ELSE IF IsLast(s[k]) THEN Append(f[k - 1], s[k].of)
        ELSE f[k - 1]
  IN  f[Len(s)]
=============================================================================
