--------------------------- MODULE V5ServerProofs ---------------------------
(***************************************************************************)
(* Proofs about the fifth generation's server, for any number of           *)
(* connections, packets of any length, buffers of any size, and any way    *)
(* the streams may be cut: it drives ClientMgr as its contract allows, its *)
(* assertions hold, what a peer receives is whole packets, and the bytes   *)
(* implement the Relay.                                                    *)
(***************************************************************************)
EXTENDS V5Server, ClientMgrProofs, QueueLemmas

-----------------------------------------------------------------------------
(* The inductive invariant. *)

BatchSound == \A e \in cev : e.ptr # NULL => e.ptr \in cmgr.live /\ epoll[e.ptr] # {}

\* The bytes from c's peer: those in read_buffer, those on their way, and the
\* rest of the packet that the peer is about to send.
Incoming(c) == Arrived(c) \o sent[c]

\* The beginning of one packet of an acceptable length, and not all that read_body
\* wants of it.
Started(b) ==
  /\ b # <<>> => Len(b) < BodyEnd(b[1].of)
  /\ Len(b) >= PACKET_HDR_LENGTH => b[1].of.says <= MAX_PACKET_LENGTH

InInv(c) ==
  /\ Placed(Incoming(c)) /\ Finished(Incoming(c))
  /\ c \notin cmgr.invalid => Started(read_buffer[c])
  /\ Len(inbox[c]) <= RcvBuf

\* The bytes that may be on their way to c.
Mail(c) == {b \in Byte : b.of.dst = cmgr.id[c] /\ b.of.length <= MAX_PACKET_LENGTH}

OutInv(c) ==
  /\ wire[c] \in Seq(Mail(c)) /\ write_buffer[c] \in Seq(Mail(c))
  /\ Len(wire[c]) <= SndBuf
  /\ Placed(Outgoing(c)) /\ Finished(Outgoing(c))
  /\ wire[c] # <<>> \/ write_buffer[c] # <<>> => c \in cmgr.managed

\* There is nothing at an address that is free.
FreeInv5(c) == c \notin cmgr.live => read_buffer[c] = <<>> /\ epoll[c] = {}

V5Inv ==
  /\ CMInv(cmgr)
  /\ TypeOK
  /\ BatchSound
  /\ \A c \in Clients : InInv(c) /\ OutInv(c) /\ FreeInv5(c)

-----------------------------------------------------------------------------
(* Buffers. *)

LEMMA PacketFacts ==
  /\ \A p \in Packets : /\ p.length \in Nat /\ PACKET_HDR_LENGTH <= p.length
                        /\ p.src \in AllIds /\ p.dst \in AllIds
  /\ PACKET_HDR_LENGTH \in Nat \ {0} /\ MAX_PACKET_LENGTH \in Nat
  /\ SndBuf \in Nat
  /\ Byte = Bytes(Packets)
  BY V5Assumption DEF Byte, Bytes, Short

\* What the header of a packet says, and where its body ends for read_body.
LEMMA SaysFacts ==
  /\ UINT32 \in Nat /\ RcvBuf \in Nat
  /\ PACKET_HDR_LENGTH <= MAX_PACKET_LENGTH
  /\ MAX_PACKET_LENGTH + RcvBuf < UINT32
  /\ \A p \in Packets :
       /\ p.says \in Nat
       /\ BodyEnd(p) \in Nat \ {0} /\ PACKET_HDR_LENGTH <= BodyEnd(p)
       /\ Short(p) => UINT32 <= BodyEnd(p)
       /\ ~Short(p) => BodyEnd(p) = p.length /\ p.says = p.length
<1>1. /\ UINT32 \in Nat /\ RcvBuf \in Nat
      /\ PACKET_HDR_LENGTH \in Nat \ {0} /\ MAX_PACKET_LENGTH \in Nat
      /\ PACKET_HDR_LENGTH <= MAX_PACKET_LENGTH
      /\ MAX_PACKET_LENGTH + RcvBuf < UINT32
  BY V5Assumption
<1>2. ASSUME NEW p \in Packets
      PROVE  /\ p.says \in Nat
             /\ p.length = IF Short(p) THEN PACKET_HDR_LENGTH ELSE p.says
  BY V5Assumption
<1> QED
  BY <1>1, <1>2 DEF BodyEnd, Short

LEMMA Regroup == \A u, v, w \in Seq(Byte) : (u \o v) \o w = u \o (v \o w)
  BY ConcatAssociative, SMTT(40)

\* Every sequence is its first n elements and the rest, also behind another.
LEMMA Rejoining ==
  ASSUME NEW S, NEW w \in Seq(S), NEW s \in Seq(S), NEW n \in Nat
  PROVE  /\ Upto(s, n) \in Seq(S) /\ Beyond(s, n) \in Seq(S)
         /\ Len(s) \in Nat
         /\ n <= Len(s) => Len(Upto(s, n)) = n
         /\ ~(n <= Len(s)) => Upto(s, n) = s
         /\ (w \o Upto(s, n)) \o Beyond(s, n) = w \o s
<1>1. Len(s) \in Nat
  BY LenProperties
<1>2. CASE n <= Len(s)
  <2>1. n \in 0 .. Len(s)
    BY <1>1, <1>2
  <2>2. Upto(s, n) = SubSeq(s, 1, n) /\ Beyond(s, n) = SubSeq(s, n + 1, Len(s))
    BY <1>2 DEF Upto, Beyond
  <2>3. Upto(s, n) \in Seq(S) /\ Beyond(s, n) \in Seq(S) /\ Len(Upto(s, n)) = n
    BY <2>1, <2>2, SeqFacts, SubSeqLength
  <2>4. (w \o Upto(s, n)) \o Beyond(s, n) = w \o s
    BY <2>1, <2>2, Moving
  <2> QED
    BY <1>1, <1>2, <2>3, <2>4
<1>3. CASE ~(n <= Len(s))
  <2>1. Upto(s, n) = s
    BY <1>3, SubSeqFull DEF Upto
  <2>2. Beyond(s, n) = <<>>
    BY <1>1, <1>3, SubSeqEmpty DEF Beyond
  <2>3. w \o s \in Seq(S) /\ (w \o s) \o <<>> = w \o s
    BY ConcatProperties, ConcatEmptySeq
  <2>4. (w \o Upto(s, n)) \o Beyond(s, n) = w \o s
    BY <2>1, <2>2, <2>3
  <2> QED
    BY <1>1, <1>3, <2>1, <2>2, <2>4, EmptySeq
<1> QED
  BY <1>2, <1>3

LEMMA Parts ==
  ASSUME NEW S, NEW s \in Seq(S), NEW n \in Nat
  PROVE  /\ Upto(s, n) \in Seq(S) /\ Beyond(s, n) \in Seq(S)
         /\ Len(s) \in Nat
         /\ n <= Len(s) => Len(Upto(s, n)) = n
         /\ ~(n <= Len(s)) => Upto(s, n) = s
         /\ Upto(s, n) \o Beyond(s, n) = s
<1>1. <<>> \in Seq(S)
  BY EmptySeq
<1>2. /\ Upto(s, n) \in Seq(S) /\ Beyond(s, n) \in Seq(S)
      /\ Len(s) \in Nat
      /\ n <= Len(s) => Len(Upto(s, n)) = n
      /\ ~(n <= Len(s)) => Upto(s, n) = s
      /\ (<<>> \o Upto(s, n)) \o Beyond(s, n) = <<>> \o s
  BY <1>1, Rejoining
<1>3. <<>> \o Upto(s, n) = Upto(s, n) /\ <<>> \o s = s
  BY <1>2, ConcatEmptySeq
<1> QED
  BY <1>2, <1>3

LEMMA Rejoined ==
  \A v, s \in Seq(Byte), n \in Nat :
    /\ Upto(s, n) \in Seq(Byte) /\ Beyond(s, n) \in Seq(Byte)
    /\ (v \o Upto(s, n)) \o Beyond(s, n) = v \o s
  BY Rejoining, ZenonT(60)

\* What the type invariant says of the buffers of one Client.
LEMMA BufferTypes ==
  ASSUME TypeOK, NEW c \in Clients
  PROVE  /\ read_buffer[c] \in Seq(Byte) /\ write_buffer[c] \in Seq(Byte)
         /\ sent[c] \in Seq(Byte) /\ inbox[c] \in Seq(Byte) /\ wire[c] \in Seq(Byte)
         /\ Arrived(c) \in Seq(Byte) /\ Incoming(c) \in Seq(Byte)
         /\ Outgoing(c) \in Seq(Byte)
<1>1. /\ read_buffer[c] \in Seq(Byte) /\ write_buffer[c] \in Seq(Byte)
      /\ sent[c] \in Seq(Byte) /\ inbox[c] \in Seq(Byte) /\ wire[c] \in Seq(Byte)
  BY DEF TypeOK, Stream
<1>2. Arrived(c) \in Seq(Byte) /\ Outgoing(c) \in Seq(Byte)
  BY <1>1, ConcatProperties DEF Arrived, Outgoing
<1>3. Incoming(c) \in Seq(Byte)
  BY <1>1, <1>2, ConcatProperties DEF Incoming
<1> QED
  BY <1>1, <1>2, <1>3

\* What has arrived of a Client's stream, and what read_packet wants of it.
LEMMA WantedFacts ==
  ASSUME V5Inv, NEW c \in Clients
  PROVE  LET A == Arrived(c)
             p == A[1].of
         IN  /\ A \in Seq(Byte) /\ Len(A) \in Nat /\ Placed(A)
             /\ A # <<>> =>
                  /\ p \in Packets /\ PACKET_HDR_LENGTH <= p.length
                  /\ \A j \in 1 .. Len(A) : j <= p.length => A[j] = [of |-> p, at |-> j]
             /\ Len(A) >= PACKET_HDR_LENGTH => A # <<>>
             /\ Len(A) >= PACKET_HDR_LENGTH /\ p.says <= MAX_PACKET_LENGTH =>
                  Wanted(c) = BodyEnd(p)
             /\ ~(Len(A) >= PACKET_HDR_LENGTH /\ p.says <= MAX_PACKET_LENGTH) =>
                  Wanted(c) = PACKET_HDR_LENGTH
             /\ Wanted(c) \in Nat \ {0}
<1> DEFINE A == Arrived(c)
           H == PACKET_HDR_LENGTH
           p == A[1].of
<1>1. /\ A \in Seq(Byte) /\ sent[c] \in Seq(Byte) /\ Incoming(c) = A \o sent[c]
      /\ Placed(Incoming(c)) /\ Len(A) \in Nat
  BY BufferTypes, LenProperties DEF V5Inv, InInv, Incoming
<1>2. Placed(A)
  BY <1>1, PacketFacts, FrontAndRest
<1>3. H \in Nat \ {0} /\ MAX_PACKET_LENGTH \in Nat
  BY PacketFacts
<1> HIDE DEF A, H
<1>4. ASSUME A # <<>>
      PROVE  /\ p \in Packets /\ H <= p.length /\ p.length \in Nat
             /\ \A j \in 1 .. Len(A) : j <= p.length => A[j] = [of |-> p, at |-> j]
  BY <1>1, <1>2, <1>4, PacketFacts, FirstPacket DEF H
<1>5. Len(A) >= H => A # <<>>
  <2>1. A = <<>> => Len(A) = 0
    BY EmptySeq
  <2> QED
    BY <1>3, <2>1
<1> HIDE DEF p
<1>6. ASSUME Len(A) >= H
      PROVE  A[H].of = p /\ p \in Packets
  <2>1. H \in 1 .. Len(A) /\ H <= p.length
    BY <1>1, <1>3, <1>4, <1>5, <1>6
  <2>2. A[H] = [of |-> p, at |-> H]
    BY <1>4, <1>5, <1>6, <2>1
  <2> QED
    BY <1>4, <1>5, <1>6, <2>2
<1>7. CASE Len(A) >= H
  <2>1. ~(Len(A) < H)
    BY <1>1, <1>3, <1>7
  <2>2. Wanted(c) = IF p.says > MAX_PACKET_LENGTH THEN H ELSE BodyEnd(p)
    BY <1>6, <1>7, <2>1 DEF Wanted, GET_PACKET_LENGTH, A, H
  <2>3. p.says \in Nat /\ BodyEnd(p) \in Nat \ {0}
    BY <1>6, <1>7, SaysFacts
  <2>4. /\ p.says <= MAX_PACKET_LENGTH => Wanted(c) = BodyEnd(p)
        /\ ~(p.says <= MAX_PACKET_LENGTH) => Wanted(c) = H
    BY <1>3, <2>2, <2>3
  <2>5. Wanted(c) \in Nat \ {0}
    BY <1>3, <2>3, <2>4
  <2> QED
    BY <1>1, <1>2, <1>4, <1>5, <1>7, <2>4, <2>5 DEF A, H, p
<1>8. CASE ~(Len(A) >= H)
  <2>1. Len(A) < H
    BY <1>1, <1>3, <1>8
  <2>2. Wanted(c) = H
    BY <2>1 DEF Wanted, A, H
  <2> QED
    BY <1>1, <1>2, <1>3, <1>4, <1>5, <1>8, <2>2 DEF A, H, p
<1> QED
  BY <1>7, <1>8

\* Unless a read_buffer was overrun, less has arrived than read_body wants of a
\* Short packet.
LEMMA ArrivedBound ==
  ASSUME V5Inv, ~Overrun, NEW c \in Clients
  PROVE  Len(Arrived(c)) < UINT32
<1>1. read_buffer[c] \in Seq(Byte) /\ inbox[c] \in Seq(Byte)
  BY BufferTypes DEF V5Inv
<1>2. /\ Len(Arrived(c)) = Len(read_buffer[c]) + Len(inbox[c])
      /\ Len(read_buffer[c]) \in Nat /\ Len(inbox[c]) \in Nat
  BY <1>1, ConcatProperties, LenProperties DEF Arrived
<1>3. ~(Len(read_buffer[c]) > MAX_PACKET_LENGTH) /\ Len(inbox[c]) <= RcvBuf
  BY DEF Overrun, V5Inv, InInv
<1>4. /\ MAX_PACKET_LENGTH \in Nat /\ RcvBuf \in Nat /\ UINT32 \in Nat
      /\ MAX_PACKET_LENGTH + RcvBuf < UINT32
  BY PacketFacts, SaysFacts
<1> DEFINE n == Len(read_buffer[c])
           m == Len(inbox[c])
<1>5. n \in Nat /\ m \in Nat /\ ~(n > MAX_PACKET_LENGTH) /\ m <= RcvBuf
  BY <1>2, <1>3
<1>6. Len(Arrived(c)) = n + m
  BY <1>2
<1> HIDE DEF n, m
<1> QED
  BY <1>4, <1>5, <1>6

\* What read_packet finds: all that has arrived, which is not all it wants; or
\* the header of a packet that is too long; or one packet and its bytes, which
\* is never Short.
LEMMA ReadFacts ==
  ASSUME V5Inv, ~Overrun, NEW c \in Clients
  PROVE  LET p == Filled(c)[1].of
         IN  /\ Wanted(c) \in Nat \ {0}
             /\ Filled(c) \in Seq(Byte) /\ Beyond(Arrived(c), Wanted(c)) \in Seq(Byte)
             /\ Filled(c) \o Beyond(Arrived(c), Wanted(c)) = Arrived(c)
             /\ Len(Filled(c)) \in Nat
             /\ Len(Filled(c)) < Wanted(c) => Started(Filled(c))
             /\ ~(Len(Filled(c)) < Wanted(c)) =>
                  /\ Len(Filled(c)) = Wanted(c)
                  /\ Filled(c) # <<>>
                  /\ p \in Packets /\ ~Short(p)
                  /\ GET_PACKET_LENGTH(Filled(c)) = p.length
                  /\ p.length <= MAX_PACKET_LENGTH => Len(Filled(c)) = p.length
<1> DEFINE A == Arrived(c)
           F == Filled(c)
           W == Wanted(c)
           H == PACKET_HDR_LENGTH
           p == A[1].of
<1>1. /\ A \in Seq(Byte) /\ Len(A) \in Nat /\ Placed(A)
      /\ A # <<>> =>
           /\ p \in Packets /\ H <= p.length
           /\ \A j \in 1 .. Len(A) : j <= p.length => A[j] = [of |-> p, at |-> j]
      /\ Len(A) >= H => A # <<>>
      /\ Len(A) >= H /\ p.says <= MAX_PACKET_LENGTH => W = BodyEnd(p)
      /\ ~(Len(A) >= H /\ p.says <= MAX_PACKET_LENGTH) => W = H
      /\ W \in Nat \ {0}
  BY WantedFacts
<1>2. /\ H \in Nat \ {0} /\ MAX_PACKET_LENGTH \in Nat /\ UINT32 \in Nat
      /\ H <= MAX_PACKET_LENGTH /\ Len(A) < UINT32
  BY PacketFacts, SaysFacts, ArrivedBound
<1>3. A # <<>> =>
        /\ p.says \in Nat /\ p.length \in Nat
        /\ BodyEnd(p) \in Nat \ {0} /\ H <= BodyEnd(p)
        /\ Short(p) => UINT32 <= BodyEnd(p)
        /\ ~Short(p) => BodyEnd(p) = p.length /\ p.says = p.length
        /\ Short(p) => p.says < H
  BY <1>1, PacketFacts, SaysFacts DEF Short
<1>4. F = Upto(A, W)
  BY DEF Filled, A
<1> HIDE DEF A, F, W, H, p
<1>5. /\ F \in Seq(Byte) /\ Beyond(A, W) \in Seq(Byte) /\ F \o Beyond(A, W) = A
      /\ W <= Len(A) => Len(F) = W
      /\ ~(W <= Len(A)) => F = A
  BY <1>1, <1>4, Parts
<1>6. CASE ~(W <= Len(A))
  <2>1. F = A /\ Len(F) < W
    BY <1>1, <1>5, <1>6
  <2>2. ASSUME A # <<>> PROVE Len(A) < BodyEnd(p)
    BY <1>1, <1>2, <1>3, <1>6, <2>2
  <2>3. ASSUME Len(A) >= H PROVE p.says <= MAX_PACKET_LENGTH
    BY <1>1, <1>2, <1>6, <2>3
  <2>4. Started(A)
    BY <2>2, <2>3 DEF Started, p, H
  <2> QED
    BY <1>1, <1>5, <2>1, <2>4 DEF A, F, W
<1>7. CASE W <= Len(A)
  <2>1. Len(F) = W /\ ~(Len(F) < W)
    BY <1>1, <1>5, <1>7
  <2>2. Len(A) >= H /\ A # <<>>
    BY <1>1, <1>2, <1>3, <1>7
  <2>3. ~Short(p)
    <3>1. SUFFICES ASSUME Short(p) PROVE FALSE
      OBVIOUS
    <3>2. W = BodyEnd(p)
      BY <1>1, <1>2, <1>3, <2>2, <3>1
    <3> QED
      BY <1>1, <1>2, <1>3, <1>7, <2>2, <3>1, <3>2
  <2>4. /\ p \in Packets /\ p.says = p.length /\ p.length \in Nat /\ H <= p.length
        /\ p.length <= MAX_PACKET_LENGTH => W = p.length
        /\ H <= W /\ W <= p.length
    BY <1>1, <1>2, <1>3, <2>2, <2>3
  <2>5. F # <<>>
    BY <1>1, <2>1, EmptySeq
  <2>6. \A j \in 1 .. Len(F) : F[j] = A[j]
    <3> DEFINE Rest == Beyond(A, W)
    <3>1. Rest \in Seq(Byte) /\ F \o Rest = A
      BY <1>5
    <3> HIDE DEF Rest
    <3>2. /\ \A i \in 1 .. Len(F) + Len(Rest) :
                (F \o Rest)[i] = IF i <= Len(F) THEN F[i] ELSE Rest[i - Len(F)]
          /\ Len(Rest) \in Nat
      BY <1>5, <3>1, ConcatProperties, LenProperties
    <3>3. \A j \in 1 .. Len(F) : j \in 1 .. Len(F) + Len(Rest) /\ j <= Len(F)
      BY <1>1, <2>1, <3>2
    <3> QED
      BY <3>1, <3>2, <3>3
  <2>7. F[1].of = p
    <3>1. 1 \in 1 .. Len(F)
      BY <1>1, <2>1
    <3> QED
      BY <2>6, <3>1 DEF p
  <2>8. GET_PACKET_LENGTH(F) = p.length
    <3>1. /\ H \in 1 .. Len(F) /\ H \in 1 .. Len(A) /\ H <= p.length
      BY <1>1, <1>2, <2>1, <2>2, <2>4
    <3>2. F[H] = [of |-> p, at |-> H]
      BY <1>1, <2>2, <2>6, <3>1
    <3>3. F[H].of = p
      BY <3>2
    <3> QED
      BY <2>4, <3>3 DEF GET_PACKET_LENGTH, H
  <2> QED
    BY <1>1, <1>5, <2>1, <2>3, <2>4, <2>5, <2>7, <2>8 DEF A, F, W
<1> QED
  BY <1>6, <1>7

\* A read takes at least as much of what the kernel holds as it leaves in
\* read_buffer: no more is held than before.
LEMMA InboxShrinks ==
  ASSUME V5Inv, ~Overrun, NEW c \in Clients, c \notin cmgr.invalid
  PROVE  Len(Beyond(Arrived(c), Wanted(c))) <= RcvBuf
<1> DEFINE A == Arrived(c)
           W == Wanted(c)
           H == PACKET_HDR_LENGTH
           b == read_buffer[c]
           i == inbox[c]
<1>1. b \in Seq(Byte) /\ i \in Seq(Byte) /\ A = b \o i
  BY BufferTypes DEF V5Inv, Arrived
<1>2. Len(i) <= RcvBuf /\ Started(b)
  BY DEF V5Inv, InInv
<1>3. /\ Len(A) \in Nat
      /\ A # <<>> => A[1].of \in Packets
      /\ Len(A) >= H => A # <<>>
      /\ Len(A) >= H /\ A[1].of.says <= MAX_PACKET_LENGTH => W = BodyEnd(A[1].of)
      /\ ~(Len(A) >= H /\ A[1].of.says <= MAX_PACKET_LENGTH) => W = H
      /\ W \in Nat \ {0}
  BY WantedFacts
<1>4. /\ H \in Nat \ {0} /\ RcvBuf \in Nat
      /\ A # <<>> => BodyEnd(A[1].of) \in Nat
  BY <1>3, PacketFacts, SaysFacts
<1>5. /\ b # <<>> => Len(b) < BodyEnd(b[1].of)
      /\ Len(b) >= H => b[1].of.says <= MAX_PACKET_LENGTH
  BY <1>2 DEF Started
<1>6. Beyond(A, W) = SubSeq(A, W + 1, Len(A))
  BY DEF Beyond
<1> HIDE DEF A, W, H, b, i
<1>7. /\ Len(A) = Len(b) + Len(i) /\ Len(b) \in Nat /\ Len(i) \in Nat
      /\ \A k \in 1 .. Len(b) + Len(i) :
           A[k] = IF k <= Len(b) THEN b[k] ELSE i[k - Len(b)]
  BY <1>1, ConcatProperties, LenProperties
<1>8. b = <<>> <=> Len(b) = 0
  BY <1>1, EmptySeq
<1>9. b # <<>> => A # <<>> /\ b[1] = A[1]
  <2>1. SUFFICES ASSUME b # <<>> PROVE A # <<>> /\ b[1] = A[1]
    OBVIOUS
  <2>2. 1 \in 1 .. Len(b) + Len(i) /\ 1 <= Len(b) /\ Len(A) # 0
    BY <1>7, <1>8, <2>1
  <2>3. A = <<>> => Len(A) = 0
    BY EmptySeq
  <2> QED
    BY <1>7, <2>2, <2>3
<1>10. Len(b) <= W
  <2>1. CASE b = <<>>
    BY <1>3, <1>8, <2>1
  <2>2. CASE b # <<>>
    <3>1. /\ Len(b) < BodyEnd(A[1].of)
          /\ Len(b) >= H => A[1].of.says <= MAX_PACKET_LENGTH
      BY <1>5, <1>9, <2>2
    <3> QED
      BY <1>3, <1>4, <1>7, <1>9, <2>2, <3>1
  <2> QED
    BY <2>1, <2>2
<1>11. CASE W <= Len(A)
  <2>1. Len(SubSeq(A, W + 1, Len(A))) = Len(A) - W
    <3>1. W \in 0 .. Len(A) /\ A \in Seq(Byte)
      BY <1>1, <1>3, <1>11, ConcatProperties
    <3> QED
      BY <3>1, SubSeqLength
  <2> QED
    BY <1>2, <1>3, <1>4, <1>6, <1>7, <1>10, <2>1 DEF A, W
<1>12. CASE ~(W <= Len(A))
  <2>1. SubSeq(A, W + 1, Len(A)) = <<>>
    BY <1>3, <1>12, <1>1, SubSeqEmpty, ConcatProperties
  <2>2. Len(<<>>) = 0
    BY EmptySeq
  <2>3. Len(Beyond(A, W)) = 0
    BY <1>6, <2>1, <2>2, Zenon
  <2>4. Len(Beyond(A, W)) <= RcvBuf
    BY <1>4, <2>3
  <2> QED
    BY <2>4 DEF A, W
<1> QED
  BY <1>11, <1>12

-----------------------------------------------------------------------------
(* The server meets the contract of ClientMgr. *)

\* Reading changes, in ClientMgr, at most the id of a Client that had none; a
\* HELLO or DATA packet leaves it with the id it was sent under.
LEMMA IdentifiedAs ==
  ASSUME V5Inv, ~Overrun, NEW c \in Clients
  PROVE  LET i == Identified(c).id[c]
             p == Filled(c)[1].of
         IN  /\ Identified(c) = SetId(cmgr, c, i)
             /\ i \in AllIds
             /\ cmgr.id[c] \in {UNIDENTIFIED_CLIENT, i}
             /\ read_packet(c) \in {"HELLO", "DATA"} => p \in Packets /\ i = p.src /\ i \in Ids
<1> DEFINE p == Filled(c)[1].of
           i == Identified(c).id[c]
           full == ~(Len(Filled(c)) < Wanted(c))
           fits == GET_PACKET_LENGTH(Filled(c)) <= MAX_PACKET_LENGTH
<1>1. /\ Wanted(c) \in Nat \ {0} /\ Len(Filled(c)) \in Nat
      /\ full => /\ Len(Filled(c)) = Wanted(c)
                 /\ p \in Packets
                 /\ GET_PACKET_LENGTH(Filled(c)) = p.length
  BY ReadFacts
<1>2. cmgr.id[c] \in AllIds /\ cmgr = SetId(cmgr, c, cmgr.id[c])
  BY DEF SetId, V5Inv, CMInv, CMState
<1>3. Len(Filled(c)) = Wanted(c) => full
  BY <1>1
<1>4. ASSUME read_packet(c) \in {"HELLO", "DATA"}
      PROVE  /\ full /\ fits
             /\ p.src # UNIDENTIFIED_CLIENT
             /\ cmgr.id[c] \in {UNIDENTIFIED_CLIENT, p.src}
  <2>1. full
    BY <1>4 DEF read_packet
  <2>2. ~(GET_PACKET_LENGTH(Filled(c)) > MAX_PACKET_LENGTH)
    BY <1>4, <2>1 DEF read_packet
  <2>3. read_packet(c) = validate_packet(c, p)
    BY <2>1, <2>2 DEF read_packet
  <2>4. p.src # UNIDENTIFIED_CLIENT /\ cmgr.id[c] \in {UNIDENTIFIED_CLIENT, p.src}
    BY <1>4, <2>3 DEF validate_packet
  <2>5. fits
    <3>1. GET_PACKET_LENGTH(Filled(c)) \in Nat /\ MAX_PACKET_LENGTH \in Nat
      BY <1>1, <2>1, PacketFacts
    <3> QED
      BY <2>2, <3>1
  <2> QED
    BY <2>1, <2>4, <2>5
<1>5. CASE full /\ fits /\ cmgr.id[c] = UNIDENTIFIED_CLIENT
  <2>1. Identified(c) = SetId(cmgr, c, p.src)
    BY <1>1, <1>5 DEF Identified
  <2>2. i = p.src /\ p \in Packets /\ p.src \in AllIds
    BY <1>1, <1>5, <2>1, PacketFacts DEF SetId, V5Inv, CMInv, CMState
  <2> HIDE DEF full, fits, p, i
  <2> QED
    BY <1>4, <1>5, <2>1, <2>2 DEF AllIds, p, i
<1>6. CASE ~(full /\ fits /\ cmgr.id[c] = UNIDENTIFIED_CLIENT)
  <2>1. Identified(c) = cmgr
    BY <1>3, <1>6 DEF Identified
  <2>2. i = cmgr.id[c]
    BY <2>1
  <2>3. ASSUME read_packet(c) \in {"HELLO", "DATA"}
        PROVE  p \in Packets /\ i = p.src /\ i \in Ids
    <3>1. cmgr.id[c] = p.src /\ p \in Packets
      BY <1>1, <1>4, <1>6, <2>3
    <3> QED
      BY <1>2, <1>4, <2>2, <2>3, <3>1 DEF AllIds
  <2> HIDE DEF full, fits, p, i
  <2> QED
    BY <1>2, <2>1, <2>2, <2>3 DEF p, i
<1> QED
  BY <1>5, <1>6

LEMMA EventClient ==
  ASSUME V5Inv, NEW e \in cev, e.ptr # NULL
  PROVE  e.ptr \in Clients /\ e.ptr \in cmgr.live /\ epoll[e.ptr] # {}
  BY DEF V5Inv, BatchSound, CMInv, CMState

LEMMA ReadMeetsContract ==
  ASSUME V5Inv, ~Overrun, NEW e \in cev
  PROVE  LET c == e.ptr
             i == Identified(c).id[c]
         IN  /\ ReadFails(e) => c \in Clients /\ i \in AllIds /\ Reject(c, i)
             /\ ReadHello(e) \/ ReadData(e) =>
                  /\ c \in Clients /\ i \in Ids /\ Admit(c, i)
                  /\ Filled(c)[1].of \in Packets
<1> DEFINE c == e.ptr
           i == Identified(c).id[c]
<1> SUFFICES ASSUME e.ptr # NULL, c \notin cmgr.invalid
             PROVE  /\ ReadFails(e) => c \in Clients /\ i \in AllIds /\ Reject(c, i)
                    /\ ReadHello(e) \/ ReadData(e) =>
                         /\ c \in Clients /\ i \in Ids /\ Admit(c, i)
                         /\ Filled(c)[1].of \in Packets
  BY DEF ReadFails, ReadHello, ReadData, Reads, ReadEvent
<1>1. c \in Clients /\ c \in cmgr.live
  BY EventClient
<1>2. /\ Identified(c) = SetId(cmgr, c, i)
      /\ i \in AllIds
      /\ cmgr.id[c] \in {UNIDENTIFIED_CLIENT, i}
      /\ read_packet(c) \in {"HELLO", "DATA"} => i \in Ids /\ Filled(c)[1].of \in Packets
  BY <1>1, IdentifiedAs
<1> HIDE DEF i
<1> QED
  BY <1>1, <1>2 DEF ReadFails, ReadHello, ReadData, Reads, Reject, Admit

LEMMA WriteMeetsContract ==
  ASSUME V5Inv, NEW e \in cev, WriteFails(e)
  PROVE  e.ptr \in Clients /\ cmgr.id[e.ptr] \in AllIds /\ Reject(e.ptr, cmgr.id[e.ptr])
<1> DEFINE c == e.ptr
           i == cmgr.id[c]
<1>1. c \in Clients /\ c \in cmgr.live \ cmgr.invalid
  BY EventClient DEF WriteFails, Writes, WriteEvent
<1>2. i \in AllIds /\ cmgr = SetId(cmgr, c, i)
  BY <1>1 DEF SetId, V5Inv, CMInv, CMState
<1> QED
  BY <1>1, <1>2 DEF WriteFails, Reject

\* Every step of the server is a step of the contract, or leaves ClientMgr
\* unchanged.
LEMMA StepMeetsContract ==
  ASSUME V5Inv, [Next]_vars
  PROVE  [CMNext]_cmgr
<1>1. ASSUME NEW e \in cev, accept_connection(e) PROVE [CMNext]_cmgr
  BY <1>1 DEF accept_connection, Backlog, Connect, CMNext
<1>2. ASSUME NEW e \in cev, ~Overrun, handle_read_event(e) PROVE [CMNext]_cmgr
  BY <1>2, ReadMeetsContract DEF handle_read_event, ReadPartial, CMNext
<1>3. ASSUME NEW e \in cev, handle_write_event(e) PROVE [CMNext]_cmgr
  BY <1>3, WriteMeetsContract DEF handle_write_event, WriteNothing, WriteSome, CMNext
<1>4. ASSUME NEW e \in cev, StaleEvent(e) PROVE [CMNext]_cmgr
  BY <1>4 DEF StaleEvent
<1>5. CASE EndOfBatch
  BY <1>5 DEF EndOfBatch, Reap, CMNext
<1>6. CASE PollWait
  BY <1>6 DEF PollWait
<1>7. ASSUME NEW c \in Clients, Peer(c) PROVE UNCHANGED cmgr
  BY <1>7 DEF Peer, PeerConnect, PeerSend, PeerRead, PeerGoes, serverVars
<1>8. CASE UNCHANGED vars
  BY <1>8 DEF vars, serverVars
<1> QED
  BY <1>1, <1>2, <1>3, <1>4, <1>5, <1>6, <1>7, <1>8 DEF Next, do_poll, handle_event

-----------------------------------------------------------------------------
(* Every step preserves the inductive invariant. *)

\* What happens to the Clients between two ends of a batch.
Grows ==
  /\ cmgr.live \subseteq cmgr'.live
  /\ cmgr.invalid \subseteq cmgr'.invalid
  /\ cmgr.managed \subseteq cmgr'.managed
  /\ \A c \in cmgr.managed : cmgr'.id[c] = cmgr.id[c]

LEMMA ConnectGrows ==
  ASSUME CMInv(cmgr), NEW c \in Clients, Connect(c)
  PROVE  Grows /\ cmgr'.invalid = cmgr.invalid
<1>1. /\ cmgr'.live = cmgr.live \cup {c}
      /\ cmgr'.invalid = cmgr.invalid \ {c} /\ cmgr'.managed = cmgr.managed \ {c}
      /\ cmgr'.id = [cmgr.id EXCEPT ![c] = UNIDENTIFIED_CLIENT]
  BY DEF Connect, NewClient, CMInv, CMState
<1>2. c \notin cmgr.invalid /\ c \notin cmgr.managed
  BY DEF Connect, CMInv, ListedOnce, Consistent
<1> QED
  BY <1>1, <1>2 DEF Grows, CMInv, CMState

LEMMA AdmitGrows ==
  ASSUME CMInv(cmgr), NEW c \in Clients, NEW i \in Ids, Admit(c, i)
  PROVE  Grows
  BY AdmitEffect DEF Grows, CMInv, CMState

LEMMA RejectGrows ==
  ASSUME CMInv(cmgr), NEW c \in Clients, NEW i \in AllIds, Reject(c, i)
  PROVE  Grows /\ c \in cmgr'.invalid
<1>1. /\ cmgr'.live = cmgr.live /\ cmgr'.managed = cmgr.managed
      /\ cmgr'.id = [cmgr.id EXCEPT ![c] = i]
      /\ cmgr'.invalid = cmgr.invalid \cup {c}
      /\ c \in cmgr.managed => cmgr.id[c] = i
  BY RejectEffect
<1>2. cmgr.id \in [Clients -> AllIds] /\ cmgr.managed \subseteq Clients
  BY DEF CMInv, CMState
<1> QED
  BY <1>1, <1>2 DEF Grows

\* The buffers of a Client whose id stays hold mail for it after the step.
LEMMA MailKept ==
  ASSUME NEW c, NEW q \in Seq(Mail(c)),
         q # <<>> => cmgr'.id[c] = cmgr.id[c]
  PROVE  q \in Seq(Mail(c)')
<1>1. CASE q = <<>>
  BY <1>1, EmptySeq
<1>2. CASE q # <<>>
  <2>1. Mail(c)' = Mail(c)
    BY <1>2 DEF Mail
  <2> QED
    BY <2>1
<1> QED
  BY <1>1, <1>2

\* What is on its way to a Client is, if nobody touches it.
LEMMA OutKept ==
  ASSUME V5Inv, Grows \/ UNCHANGED cmgr, NEW c \in Clients,
         wire'[c] = wire[c], write_buffer'[c] = write_buffer[c]
  PROVE  OutInv(c)'
<1>1. /\ wire[c] \in Seq(Mail(c)) /\ write_buffer[c] \in Seq(Mail(c))
      /\ wire[c] # <<>> \/ write_buffer[c] # <<>> => c \in cmgr.managed
      /\ OutInv(c)
  BY DEF V5Inv, OutInv
<1>2. /\ wire[c] # <<>> => cmgr'.id[c] = cmgr.id[c]
      /\ write_buffer[c] # <<>> => cmgr'.id[c] = cmgr.id[c]
      /\ cmgr.managed \subseteq cmgr'.managed
  BY <1>1 DEF Grows
<1>3. wire[c] \in Seq(Mail(c)') /\ write_buffer[c] \in Seq(Mail(c)')
  BY <1>1, <1>2, MailKept
<1>4. Outgoing(c)' = Outgoing(c)
  BY DEF Outgoing
<1> QED
  BY <1>1, <1>2, <1>3, <1>4 DEF OutInv

LEMMA InKept ==
  ASSUME V5Inv, NEW c \in Clients, c \in cmgr.invalid => c \in cmgr'.invalid,
         read_buffer'[c] = read_buffer[c], inbox'[c] = inbox[c], sent'[c] = sent[c]
  PROVE  InInv(c)'
<1>1. Incoming(c)' = Incoming(c)
  BY DEF Incoming, Arrived
<1> QED
  BY <1>1 DEF V5Inv, InInv

LEMMA FreeKept ==
  ASSUME V5Inv, Grows \/ UNCHANGED cmgr, NEW c \in Clients,
         c \notin cmgr.live =>
           read_buffer'[c] = read_buffer[c] /\ (epoll[c] = {} => epoll'[c] = {})
  PROVE  FreeInv5(c)'
  BY DEF V5Inv, FreeInv5, Grows

\* Handling an event leaves the rest of the batch as sound as it was, if it
\* frees nothing and takes nobody out of epoll.
LEMMA BatchShrinks ==
  ASSUME V5Inv, NEW e \in cev, Dispatch(e), Grows \/ UNCHANGED cmgr,
         \A c \in Clients : epoll[c] # {} => epoll'[c] # {}
  PROVE  BatchSound'
<1>1. cev' \subseteq cev
  BY DEF Dispatch
<1>2. cmgr.live \subseteq cmgr'.live
  BY DEF Grows
<1>3. \A f \in cev : f.ptr # NULL => f.ptr \in Clients /\ f.ptr \in cmgr.live /\ epoll[f.ptr] # {}
  BY EventClient
<1> QED
  BY <1>1, <1>2, <1>3 DEF BatchSound

LEMMA DispatchTyped ==
  ASSUME TypeOK, NEW e \in cev, Dispatch(e)
  PROVE  cev' \subseteq Event /\ pc' \in {"wait", "dispatch"}
  BY DEF Dispatch, TypeOK

LEMMA AcceptPreserves ==
  ASSUME V5Inv, NEW e \in cev, accept_connection(e), CMInv(cmgr)'
  PROVE  V5Inv'
<1>1. /\ Dispatch(e)
      /\ UNCHANGED <<read_buffer, write_buffer, write_registered, peer, sent, inbox, wire>>
  BY DEF accept_connection, peerVars
<1>2. /\ Grows \/ UNCHANGED cmgr
      /\ \/ UNCHANGED epoll
         \/ \E c \in Clients : c \in cmgr'.live /\ epoll' = [epoll EXCEPT ![c] = {"IN"}]
  <2>1. CASE UNCHANGED <<cmgr, epoll>>
    BY <2>1
  <2>2. ASSUME NEW c \in Backlog, cmgr' = NewClient(cmgr, c),
               \/ epoll' = [epoll EXCEPT ![c] = {"IN"}]
               \/ CallsMayFail /\ UNCHANGED epoll
        PROVE  /\ Grows
               /\ \/ UNCHANGED epoll
                  \/ c \in cmgr'.live /\ epoll' = [epoll EXCEPT ![c] = {"IN"}]
    <3>1. c \in Clients /\ Connect(c)
      BY <2>2 DEF Backlog, Connect
    <3>2. c \in cmgr'.live
      BY <2>2 DEF NewClient, V5Inv, CMInv, CMState
    <3> QED
      BY <2>2, <3>1, <3>2, ConnectGrows DEF V5Inv
  <2> QED
    BY <2>1, <2>2 DEF accept_connection, Backlog
<1>3. epoll \in [Clients -> SUBSET {"IN", "OUT"}]
  BY DEF V5Inv, TypeOK
<1>4. /\ epoll' \in [Clients -> SUBSET {"IN", "OUT"}]
      /\ \A c \in Clients : /\ epoll[c] # {} => epoll'[c] # {}
                            /\ c \notin cmgr'.live => epoll'[c] = epoll[c]
  BY <1>2, <1>3
<1>5. TypeOK'
  BY <1>1, <1>4, DispatchTyped DEF V5Inv, TypeOK, CMTypeOK, CMInv
<1>6. BatchSound'
  BY <1>1, <1>2, <1>4, BatchShrinks
<1>7. ASSUME NEW c \in Clients PROVE InInv(c)' /\ OutInv(c)'
  <2>1. c \in cmgr.invalid => c \in cmgr'.invalid
    BY <1>2 DEF Grows
  <2> QED
    BY <1>1, <1>2, <2>1, InKept, OutKept
<1>8. ASSUME NEW c \in Clients PROVE FreeInv5(c)'
  BY <1>1, <1>2, <1>4 DEF V5Inv, FreeInv5, Grows
<1> QED
  BY <1>5, <1>6, <1>7, <1>8 DEF V5Inv

\* A read of a valid Client: what it does to the stream from its peer.  The
\* Client either keeps what it got, or has got a whole packet and is done
\* with it.
LEMMA ReadsIn ==
  ASSUME V5Inv, ~Overrun, NEW c \in Clients, c \notin cmgr.invalid,
         cmgr.invalid \subseteq cmgr'.invalid,
         UNCHANGED sent,
         inbox' = [inbox EXCEPT ![c] = Beyond(Arrived(c), Wanted(c))],
         \/ /\ read_buffer' = [read_buffer EXCEPT ![c] = Filled(c)]
            /\ Len(Filled(c)) < Wanted(c) \/ c \in cmgr'.invalid
         \/ /\ read_buffer' = [read_buffer EXCEPT ![c] = <<>>]
            /\ ~(Len(Filled(c)) < Wanted(c))
            /\ GET_PACKET_LENGTH(Filled(c)) <= MAX_PACKET_LENGTH
  PROVE  /\ {read_buffer', inbox'} \subseteq Stream
         /\ \A d \in Clients : InInv(d)'
         /\ \A d \in Clients : d # c => read_buffer'[d] = read_buffer[d]
<1> DEFINE F == Filled(c)
           Rest == Beyond(Arrived(c), Wanted(c))
<1>1. /\ F \in Seq(Byte) /\ Rest \in Seq(Byte) /\ F \o Rest = Arrived(c)
      /\ Len(F) < Wanted(c) => Started(F)
      /\ ~(Len(F) < Wanted(c)) =>
           /\ F # <<>>
           /\ GET_PACKET_LENGTH(F) = F[1].of.length
           /\ F[1].of.length <= MAX_PACKET_LENGTH => Len(F) = F[1].of.length
  BY ReadFacts
<1>2. /\ read_buffer \in [Clients -> Seq(Byte)] /\ inbox \in [Clients -> Seq(Byte)]
      /\ <<>> \in Seq(Byte)
  BY EmptySeq DEF V5Inv, TypeOK, Stream
<1>3. {read_buffer', inbox'} \subseteq Stream
  BY <1>1, <1>2, ZenonT(60) DEF Stream
<1>4. \A d \in Clients : d # c => read_buffer'[d] = read_buffer[d] /\ inbox'[d] = inbox[d]
  BY <1>2
<1>5. inbox'[c] = Rest /\ Len(Rest) <= RcvBuf
  BY <1>2, InboxShrinks
<1>6. /\ sent[c] \in Seq(Byte)
      /\ Placed(Incoming(c)) /\ Finished(Incoming(c))
      /\ Incoming(c) = Arrived(c) \o sent[c]
  BY BufferTypes DEF V5Inv, InInv, Incoming
<1> HIDE DEF F, Rest
<1>7. InInv(c)'
  <2>1. CASE /\ read_buffer' = [read_buffer EXCEPT ![c] = F]
             /\ Len(F) < Wanted(c) \/ c \in cmgr'.invalid
    <3>1. read_buffer'[c] = F
      BY <1>2, <2>1
    <3>2. Incoming(c)' = Incoming(c)
      BY <1>1, <1>5, <1>6, <3>1 DEF Incoming, Arrived
    <3>3. c \notin cmgr'.invalid => Started(read_buffer'[c])
      BY <1>1, <2>1, <3>1
    <3>4. Started(read_buffer[c])' = Started(read_buffer'[c])
      BY DEF Started
    <3> QED
      BY <1>5, <1>6, <3>2, <3>3, <3>4 DEF InInv
  <2>2. CASE /\ read_buffer' = [read_buffer EXCEPT ![c] = <<>>]
             /\ ~(Len(F) < Wanted(c))
             /\ GET_PACKET_LENGTH(F) <= MAX_PACKET_LENGTH
    <3>1. read_buffer'[c] = <<>>
      BY <1>2, <2>2
    <3>2. F # <<>> /\ F[1].of.length = Len(F)
      BY <1>1, <2>2
    <3>3. Incoming(c)' = Rest \o sent[c]
      <4>1. Incoming(c)' = (<<>> \o Rest) \o sent[c]
        BY <1>5, <3>1 DEF Incoming, Arrived
      <4> QED
        BY <1>1, <4>1, ConcatEmptySeq
    <3>4. Incoming(c) = F \o (Rest \o sent[c]) /\ Rest \o sent[c] \in Seq(Byte)
      <4>1. (F \o Rest) \o sent[c] = F \o (Rest \o sent[c])
        BY <1>1, <1>6, Regroup, Zenon
      <4> QED
        BY <1>1, <1>6, <4>1, ConcatProperties
    <3>5. Placed(Rest \o sent[c]) /\ Finished(Rest \o sent[c])
      BY <1>1, <1>6, <3>2, <3>4, PacketFacts, FrontAndRest, ZenonT(60)
    <3>6. Started(<<>>)
      BY EmptySeq, PacketFacts DEF Started
    <3>7. Started(read_buffer[c])'
      BY <3>1, <3>6 DEF Started
    <3> QED
      BY <1>5, <3>3, <3>5, <3>7 DEF InInv
  <2> QED
    BY <2>1, <2>2 DEF F
<1>8. \A d \in Clients : d # c => InInv(d)'
  BY <1>4, InKept
<1> QED
  BY <1>3, <1>4, <1>7, <1>8

\* What the branches of read_packet say of what was read.
LEMMA Verdicts ==
  ASSUME V5Inv, ~Overrun, NEW c \in Clients
  PROVE  /\ read_packet(c) = "EAGAIN" => Len(Filled(c)) < Wanted(c)
         /\ read_packet(c) \in {"HELLO", "DATA", "EINVAL"} =>
              /\ ~(Len(Filled(c)) < Wanted(c))
              /\ GET_PACKET_LENGTH(Filled(c)) <= MAX_PACKET_LENGTH
<1>1. ASSUME ~(Len(Filled(c)) < Wanted(c))
      PROVE  GET_PACKET_LENGTH(Filled(c)) \in Nat /\ MAX_PACKET_LENGTH \in Nat
  BY <1>1, ReadFacts, PacketFacts
<1> DEFINE p == Filled(c)[1].of
<1>2. CASE Len(Filled(c)) < Wanted(c)
  BY <1>2 DEF read_packet
<1>3. CASE ~(Len(Filled(c)) < Wanted(c)) /\ GET_PACKET_LENGTH(Filled(c)) > MAX_PACKET_LENGTH
  BY <1>3 DEF read_packet
<1>4. CASE /\ ~(Len(Filled(c)) < Wanted(c))
           /\ ~(GET_PACKET_LENGTH(Filled(c)) > MAX_PACKET_LENGTH)
  <2>1. read_packet(c) = validate_packet(c, p)
    BY <1>4 DEF read_packet
  <2>2. ~(Len(Filled(c)) < Wanted(c)) /\ p \in Packets
    BY <1>4, ReadFacts
  <2>3. validate_packet(c, p) # "EAGAIN"
    BY <2>2, V5Assumption DEF validate_packet
  <2>4. GET_PACKET_LENGTH(Filled(c)) <= MAX_PACKET_LENGTH
    BY <1>1, <1>4
  <2> QED
    BY <1>4, <2>1, <2>3, <2>4
<1> QED
  BY <1>2, <1>3, <1>4

\* A read that touches nothing but its Client.
LEMMA ReadPreserves ==
  ASSUME V5Inv, ~Overrun, NEW e \in cev, CMInv(cmgr)',
         ReadPartial(e) \/ ReadHello(e) \/ ReadFails(e)
  PROVE  V5Inv'
<1> DEFINE c == e.ptr
<1>1. /\ Dispatch(e) /\ c # NULL /\ c \notin cmgr.invalid
      /\ inbox' = [inbox EXCEPT ![c] = Beyond(Arrived(c), Wanted(c))]
      /\ UNCHANGED <<peer, sent, wire, write_buffer, write_registered, epoll>>
  BY DEF ReadPartial, ReadHello, ReadFails, Reads, ReadEvent, writeVars
<1>2. c \in Clients /\ c \in cmgr.live
  BY <1>1, EventClient
<1>3. Grows \/ UNCHANGED cmgr
  <2>1. CASE ReadPartial(e)
    BY <2>1 DEF ReadPartial
  <2>2. CASE ReadHello(e)
    BY <2>2, ReadMeetsContract, AdmitGrows DEF V5Inv
  <2>3. CASE ReadFails(e)
    BY <2>3, ReadMeetsContract, RejectGrows DEF V5Inv
  <2> QED
    BY <2>1, <2>2, <2>3
<1>4. \/ /\ read_buffer' = [read_buffer EXCEPT ![c] = Filled(c)]
         /\ Len(Filled(c)) < Wanted(c) \/ c \in cmgr'.invalid
      \/ /\ read_buffer' = [read_buffer EXCEPT ![c] = <<>>]
         /\ ~(Len(Filled(c)) < Wanted(c))
         /\ GET_PACKET_LENGTH(Filled(c)) <= MAX_PACKET_LENGTH
  <2>1. CASE ReadPartial(e)
    BY <1>2, <2>1, Verdicts DEF ReadPartial, Reads
  <2>2. CASE ReadHello(e)
    BY <1>2, <2>2, Verdicts DEF ReadHello, Reads, Emptied
  <2>3. CASE ReadFails(e)
    <3>1. c \in cmgr'.invalid
      BY <2>3, ReadMeetsContract, RejectGrows DEF V5Inv
    <3>2. CASE read_packet(c) = "EINVAL"
      BY <1>2, <2>3, <3>2, Verdicts DEF ReadFails
    <3>3. CASE read_packet(c) # "EINVAL"
      BY <2>3, <3>1, <3>3 DEF ReadFails
    <3> QED
      BY <3>2, <3>3
  <2> QED
    BY <2>1, <2>2, <2>3
<1>5. cmgr.invalid \subseteq cmgr'.invalid
  BY <1>3 DEF Grows
<1>6. /\ {read_buffer', inbox'} \subseteq Stream
      /\ \A d \in Clients : InInv(d)'
      /\ \A d \in Clients : d # c => read_buffer'[d] = read_buffer[d]
  <2> HIDE DEF c
  <2> QED
    BY <1>1, <1>2, <1>4, <1>5, ReadsIn
<1>7. TypeOK'
  BY <1>1, <1>6, DispatchTyped DEF V5Inv, TypeOK, CMTypeOK, CMInv
<1>8. BatchSound'
  BY <1>1, <1>3, BatchShrinks
<1>9. ASSUME NEW d \in Clients PROVE OutInv(d)' /\ FreeInv5(d)'
  BY <1>1, <1>2, <1>3, <1>6, OutKept, FreeKept
<1> QED
  BY <1>6, <1>7, <1>8, <1>9 DEF V5Inv

\* Queueing a packet for the Client that has the id it is addressed to.
LEMMA QueuedOut ==
  ASSUME V5Inv, Grows, CMInv(cmgr)', NEW p \in Packets, NEW d \in Clients,
         p.length <= MAX_PACKET_LENGTH,
         find_client_by_id(cmgr', p.dst) = d,
         wire'[d] = wire[d], write_buffer'[d] = Queued(write_buffer[d], p)
  PROVE  OutInv(d)' /\ write_buffer'[d] \in Seq(Byte) /\ d \in cmgr'.live
<1> DEFINE s == serialize(p)
           q == write_buffer[d]
           w == wire[d]
<1>1. /\ s \in Seq(Byte) /\ Placed(s) /\ Finished(s) /\ Len(s) = p.length
      /\ \A k \in 1 .. Len(s) : s[k].of = p
  BY PacketFacts, OnePacket DEF serialize
<1> HIDE DEF s
<1>2. d \in cmgr'.managed /\ cmgr'.id[d] = p.dst /\ d \in cmgr'.live
  BY PacketFacts DEF find_client_by_id, CMInv, Consistent
<1>3. /\ w \in Seq(Mail(d)) /\ q \in Seq(Mail(d))
      /\ w # <<>> \/ q # <<>> => d \in cmgr.managed
      /\ Len(w) <= SndBuf
      /\ Placed(w \o q) /\ Finished(w \o q)
  BY DEF V5Inv, OutInv, Outgoing
<1>4. w \in Seq(Byte) /\ q \in Seq(Byte)
  BY BufferTypes DEF V5Inv
<1>5. /\ w # <<>> => cmgr'.id[d] = cmgr.id[d]
      /\ q # <<>> => cmgr'.id[d] = cmgr.id[d]
  BY <1>3 DEF Grows
<1> HIDE DEF w, q
<1>6. w \in Seq(Mail(d)') /\ q \in Seq(Mail(d)')
  BY <1>3, <1>5, MailKept
<1>7. s \in Seq(Mail(d)')
  <2>1. \A k \in 1 .. Len(s) : s[k] \in Mail(d)'
    <3> TAKE k \in 1 .. Len(s)
    <3>1. s[k] \in Byte /\ s[k].of = p
      BY <1>1, ElementOfSeq
    <3>2. Mail(d)' = {b \in Byte : b.of.dst = cmgr'.id[d] /\ b.of.length <= MAX_PACKET_LENGTH}
      BY DEF Mail
    <3> QED
      BY <1>2, <3>1, <3>2
  <2>2. /\ Len(s) \in Nat /\ s = [k \in 1 .. Len(s) |-> s[k]]
    BY <1>1, LenProperties
  <2>3. s \in [1 .. Len(s) -> Mail(d)']
    BY <2>1, <2>2
  <2> QED
    BY <2>2, <2>3, SeqDef
<1>8. CASE write_buffer'[d] = q
  <2>1. Outgoing(d)' = w \o q
    BY <1>8 DEF Outgoing, w
  <2> QED
    BY <1>2, <1>3, <1>4, <1>6, <1>8, <2>1 DEF OutInv, w
<1>9. CASE write_buffer'[d] = q \o s
  <2>1. q \o s \in Seq(Mail(d)') /\ q \o s \in Seq(Byte) /\ w \o q \in Seq(Byte)
    BY <1>1, <1>4, <1>6, <1>7, ConcatProperties
  <2>2. Outgoing(d)' = w \o (q \o s)
    BY <1>9 DEF Outgoing, w
  <2>3. (w \o q) \o s = w \o (q \o s)
    BY <1>1, <1>4, Regroup, Zenon
  <2>4. Placed((w \o q) \o s) /\ Finished((w \o q) \o s)
    <3> DEFINE u == w \o q
    <3>1. u \in Seq(Byte) /\ Placed(u) /\ Finished(u)
      BY <1>3, <2>1
    <3> HIDE DEF u
    <3>2. Placed(u \o s) /\ Finished(u \o s)
      BY <1>1, <3>1, PacketFacts, Joined
    <3> QED
      BY <3>2 DEF u
  <2> QED
    BY <1>2, <1>3, <1>6, <1>9, <2>1, <2>2, <2>3, <2>4 DEF OutInv, w
<1> QED
  BY <1>8, <1>9 DEF Queued, q, s

LEMMA DataPreserves ==
  ASSUME V5Inv, ~Overrun, NEW e \in cev, CMInv(cmgr)', ReadData(e)
  PROVE  V5Inv'
<1> DEFINE c == e.ptr
           p == Filled(c)[1].of
           d == find_client_by_id(cmgr', p.dst)
<1>1. /\ Dispatch(e) /\ c # NULL /\ c \notin cmgr.invalid
      /\ inbox' = [inbox EXCEPT ![c] = Beyond(Arrived(c), Wanted(c))]
      /\ read_buffer' = [read_buffer EXCEPT ![c] = <<>>]
      /\ read_packet(c) = "DATA"
      /\ UNCHANGED <<peer, sent, wire>>
  BY DEF ReadData, Reads, ReadEvent, Emptied
<1>2. c \in Clients /\ c \in cmgr.live
  BY <1>1, EventClient
<1>3. Grows /\ p \in Packets /\ p.length <= MAX_PACKET_LENGTH
  BY <1>1, <1>2, ReadMeetsContract, AdmitGrows, Verdicts, ReadFacts DEF V5Inv
<1>4. cmgr.invalid \subseteq cmgr'.invalid
  BY <1>3 DEF Grows
<1>5. /\ {read_buffer', inbox'} \subseteq Stream
      /\ \A f \in Clients : InInv(f)'
      /\ \A f \in Clients : f # c => read_buffer'[f] = read_buffer[f]
  BY <1>1, <1>2, <1>4, ReadsIn, Verdicts
<1>6. d \in Clients \cup {NULL}
  BY <1>3, PacketFacts DEF find_client_by_id, CMInv, CMState
<1>7. /\ d = NULL => UNCHANGED writeVars
      /\ d # NULL => /\ write_buffer' = [write_buffer EXCEPT ![d] = Queued(@, p)]
                     /\ register_write(d)
  BY DEF ReadData, send_data_to_client
<1> HIDE DEF c, p, d
<1>8. /\ write_registered \subseteq Clients /\ epoll \in [Clients -> SUBSET {"IN", "OUT"}]
      /\ write_buffer \in [Clients -> Seq(Byte)]
  BY DEF V5Inv, TypeOK, Stream
<1>9. /\ write_buffer' \in [Clients -> Seq(Byte)]
      /\ \A f \in Clients : OutInv(f)'
      /\ write_registered' \subseteq Clients
      /\ epoll' \in [Clients -> SUBSET {"IN", "OUT"}]
      /\ \A f \in Clients : /\ epoll[f] = {} => epoll'[f] = {}
                            /\ epoll[f] # {} => epoll'[f] # {}
  <2>1. CASE d = NULL
    <3>1. UNCHANGED <<write_buffer, write_registered, epoll>>
      BY <1>7, <2>1 DEF writeVars
    <3> QED
      BY <1>1, <1>3, <1>8, <3>1, OutKept
  <2>2. CASE d # NULL
    <3>1. PICK t \in Clients : t = d
      BY <1>6, <2>2
    <3>2. /\ write_buffer' = [write_buffer EXCEPT ![t] = Queued(@, p)]
          /\ register_write(t)
          /\ find_client_by_id(cmgr', p.dst) = t
      BY <1>7, <2>2, <3>1 DEF d
    <3>3. /\ write_buffer'[t] = Queued(write_buffer[t], p) /\ wire'[t] = wire[t]
          /\ \A f \in Clients : f # t => write_buffer'[f] = write_buffer[f]
      BY <1>1, <1>8, <3>2
    <3>4. OutInv(t)' /\ write_buffer'[t] \in Seq(Byte)
      BY <1>3, <3>2, <3>3, QueuedOut
    <3>5. \A f \in Clients : f # t => OutInv(f)'
      BY <1>1, <1>3, <3>3, OutKept
    <3>6. \A f \in Clients : OutInv(f)'
      BY <3>4, <3>5
    <3>7. write_buffer' \in [Clients -> Seq(Byte)]
      <4>1. Queued(write_buffer[t], p) \in Seq(Byte)
        BY <3>3, <3>4
      <4> QED
        BY <1>8, <3>2, <4>1
    <3>8. /\ write_registered' \subseteq Clients
          /\ epoll' \in [Clients -> SUBSET {"IN", "OUT"}]
          /\ \A f \in Clients : /\ epoll[f] = {} => epoll'[f] = {}
                                /\ epoll[f] # {} => epoll'[f] # {}
      BY <1>8, <3>2, ZenonT(60) DEF register_write, modify
    <3> QED
      BY <3>6, <3>7, <3>8
  <2> QED
    BY <2>1, <2>2
<1>10. TypeOK'
  BY <1>1, <1>5, <1>9, DispatchTyped DEF V5Inv, TypeOK, CMTypeOK, CMInv, Stream
<1>11. BatchSound'
  BY <1>1, <1>3, <1>9, BatchShrinks
<1>12. ASSUME NEW f \in Clients PROVE FreeInv5(f)'
  BY <1>2, <1>3, <1>5, <1>9, FreeKept
<1> QED
  BY <1>5, <1>9, <1>10, <1>11, <1>12 DEF V5Inv

\* Nothing but the batch changes.
LEMMA StalePreserves ==
  ASSUME V5Inv, NEW e \in cev, StaleEvent(e)
  PROVE  V5Inv'
<1>1. /\ Dispatch(e)
      /\ UNCHANGED <<cmgr, read_buffer, write_buffer, write_registered, epoll,
                     peer, sent, inbox, wire>>
  BY DEF StaleEvent, ReadEvent, WriteEvent, writeVars, peerVars
<1>2. TypeOK' /\ CMInv(cmgr)'
  BY <1>1, DispatchTyped DEF V5Inv, TypeOK, CMTypeOK, CMInv, ListedOnce, Consistent
<1>3. BatchSound'
  BY <1>1, BatchShrinks
<1>4. ASSUME NEW c \in Clients PROVE InInv(c)' /\ OutInv(c)' /\ FreeInv5(c)'
  BY <1>1, InKept, OutKept, FreeKept
<1> QED
  BY <1>2, <1>3, <1>4 DEF V5Inv

LEMMA WritePreserves ==
  ASSUME V5Inv, NEW e \in cev, CMInv(cmgr)', handle_write_event(e)
  PROVE  V5Inv'
<1> DEFINE c == e.ptr
<1>1. /\ Dispatch(e) /\ c # NULL
      /\ UNCHANGED <<read_buffer, peer, sent, inbox>>
  BY DEF handle_write_event, WriteNothing, WriteSome, WriteFails, Writes, WriteEvent
<1>2. c \in Clients /\ c \in cmgr.live
  BY <1>1, EventClient
<1>3. Grows \/ UNCHANGED cmgr
  <2>1. CASE WriteFails(e)
    BY <2>1, WriteMeetsContract, RejectGrows DEF V5Inv
  <2> QED
    BY <2>1 DEF handle_write_event, WriteNothing, WriteSome
<1>4. cmgr.invalid \subseteq cmgr'.invalid
  BY <1>3 DEF Grows
<1>5. /\ write_registered \subseteq Clients /\ epoll \in [Clients -> SUBSET {"IN", "OUT"}]
      /\ write_buffer \in [Clients -> Seq(Byte)] /\ wire \in [Clients -> Seq(Byte)]
  BY DEF V5Inv, TypeOK, Stream
<1>6. /\ write_registered' \subseteq Clients
      /\ epoll' \in [Clients -> SUBSET {"IN", "OUT"}]
      /\ \A f \in Clients : /\ epoll[f] = {} => epoll'[f] = {}
                            /\ epoll[f] # {} => epoll'[f] # {}
  <2>1. CASE WriteNothing(e)
    BY <1>2, <1>5, <2>1, ZenonT(60) DEF WriteNothing, unregister_write, modify
  <2> QED
    BY <1>5, <2>1 DEF handle_write_event, WriteSome, WriteFails, writeVars
<1> HIDE DEF c
<1>7. /\ {write_buffer', wire'} \subseteq Stream
      /\ \A f \in Clients : OutInv(f)'
  <2>1. CASE UNCHANGED <<write_buffer, wire>>
    BY <1>3, <1>5, <2>1, OutKept DEF Stream
  <2>2. CASE WriteSome(e)
    <3> DEFINE room == SndBuf - Len(wire[c])
               q == write_buffer[c]
               w == wire[c]
               a == Upto(q, room)
               z == Beyond(q, room)
    <3>1. /\ wire' = [wire EXCEPT ![c] = w \o a]
          /\ write_buffer' = [write_buffer EXCEPT ![c] = z]
          /\ UNCHANGED cmgr /\ q # <<>>
      BY <2>2 DEF WriteSome, c
    <3>2. /\ w \in Seq(Mail(c)) /\ q \in Seq(Mail(c)) /\ c \in cmgr.managed
          /\ Len(w) <= SndBuf /\ Len(w) \in Nat
          /\ Placed(w \o q) /\ Finished(w \o q)
      BY <1>2, <3>1, LenProperties DEF V5Inv, OutInv, Outgoing
    <3>3. room \in Nat
      BY <3>2, PacketFacts
    <3>4. w \in Seq(Byte) /\ q \in Seq(Byte)
      BY <1>2, <1>5
    <3> HIDE DEF q, w
    <3>5. a \in Seq(Byte) /\ z \in Seq(Byte) /\ (w \o a) \o z = w \o q
      <4> HIDE DEF room
      <4> QED
        BY <3>3, <3>4, Rejoined, Zenon
    <3>6. /\ a \in Seq(Mail(c)) /\ z \in Seq(Mail(c)) /\ Len(a) \in Nat /\ Len(a) <= room
      <4> HIDE DEF room
      <4>1. /\ a \in Seq(Mail(c)) /\ z \in Seq(Mail(c)) /\ Len(q) \in Nat
            /\ room <= Len(q) => Len(a) = room
            /\ ~(room <= Len(q)) => a = q
        BY <3>2, <3>3, Parts
      <4>2. Len(a) \in Nat
        BY <4>1, LenProperties
      <4> QED
        BY <3>3, <4>1, <4>2
    <3> HIDE DEF a, z
    <3>7. w \o a \in Seq(Mail(c)) /\ w \o a \in Seq(Byte) /\ Len(w \o a) = Len(w) + Len(a)
      BY <3>2, <3>4, <3>5, <3>6, ConcatProperties
    <3>8. Len(w \o a) <= SndBuf
      <4>1. room = SndBuf - Len(w)
        BY DEF w
      <4> HIDE DEF room
      <4> QED
        BY <3>2, <3>6, <3>7, <4>1, PacketFacts
    <3>9. wire'[c] = w \o a /\ write_buffer'[c] = z
      BY <1>2, <1>5, <3>1
    <3>10. OutInv(c)'
      <4>1. Outgoing(c)' = w \o q
        BY <3>5, <3>9 DEF Outgoing
      <4>2. Mail(c)' = Mail(c)
        BY <3>1 DEF Mail
      <4> QED
        BY <3>1, <3>2, <3>6, <3>7, <3>8, <3>9, <4>1, <4>2 DEF OutInv
    <3>11. \A f \in Clients : f # c => OutInv(f)'
      BY <1>3, <1>5, <3>1, OutKept
    <3>12. {write_buffer', wire'} \subseteq Stream
      BY <1>5, <3>1, <3>5, <3>7 DEF Stream
    <3> QED
      BY <3>10, <3>11, <3>12
  <2> QED
    BY <2>1, <2>2 DEF handle_write_event, WriteNothing, WriteFails, writeVars
<1>8. TypeOK'
  BY <1>1, <1>6, <1>7, DispatchTyped DEF V5Inv, TypeOK, CMTypeOK, CMInv
<1>9. BatchSound'
  BY <1>1, <1>3, <1>6, BatchShrinks
<1>10. ASSUME NEW f \in Clients PROVE InInv(f)' /\ FreeInv5(f)'
  BY <1>1, <1>3, <1>4, <1>6, InKept, FreeKept
<1> QED
  BY <1>7, <1>8, <1>9, <1>10 DEF V5Inv

\* epoll_wait only returns pointers of Clients that the kernel watches.
LEMMA PollPreserves ==
  ASSUME V5Inv, PollWait
  PROVE  V5Inv'
<1>1. /\ UNCHANGED <<cmgr, read_buffer, write_buffer, write_registered, epoll,
                     peer, sent, inbox, wire>>
      /\ cev' \subseteq Ready /\ pc' = "dispatch"
  BY DEF PollWait, writeVars, peerVars
<1>2. epoll \in [Clients -> SUBSET {"IN", "OUT"}]
  BY DEF V5Inv, TypeOK
<1>3. ASSUME NEW c \in Clients
      PROVE  EventsOf(c) \subseteq epoll[c]
  BY DEF EventsOf
<1>4. ASSUME NEW e \in Ready
      PROVE  /\ e \in Event
             /\ e.ptr # NULL => e.ptr \in cmgr.live /\ epoll[e.ptr] # {}
  <2>1. ASSUME NEW c \in Clients, EventsOf(c) # {}, e = [ptr |-> c, events |-> EventsOf(c)]
        PROVE  e \in Event /\ e.ptr \in cmgr.live /\ epoll[e.ptr] # {}
    <3>1. EventsOf(c) \in SUBSET {"IN", "OUT"} /\ epoll[c] # {}
      BY <1>2, <1>3, <2>1
    <3>2. c \in cmgr.live
      BY <3>1 DEF V5Inv, FreeInv5
    <3> QED
      BY <2>1, <3>1, <3>2 DEF Event
  <2>2. ASSUME e = [ptr |-> NULL, events |-> {"IN"}]
        PROVE  e \in Event /\ e.ptr = NULL
    BY <2>2 DEF Event
  <2> QED
    BY <2>1, <2>2 DEF Ready
<1>5. TypeOK' /\ CMInv(cmgr)'
  BY <1>1, <1>4 DEF V5Inv, TypeOK, CMTypeOK, CMInv, ListedOnce, Consistent
<1>6. BatchSound'
  BY <1>1, <1>4 DEF BatchSound
<1>7. ASSUME NEW c \in Clients PROVE InInv(c)' /\ OutInv(c)' /\ FreeInv5(c)'
  BY <1>1, InKept, OutKept, FreeKept
<1> QED
  BY <1>5, <1>6, <1>7 DEF V5Inv

\* The invalid Clients are freed, with all that was on its way from and to
\* them; nothing else changes.
LEMMA EndPreserves ==
  ASSUME V5Inv, EndOfBatch, CMInv(cmgr)'
  PROVE  V5Inv'
<1> DEFINE S == cmgr.invalid
<1>1. /\ Listed(cmgr) = S
      /\ cmgr' = free_invalid_clients(cmgr)
      /\ S \subseteq Clients
  BY FreeInv, SMTT(40) DEF V5Inv, EndOfBatch, CMInv, CMState
<1>2. /\ cmgr'.live = cmgr.live \ S /\ cmgr'.invalid = cmgr.invalid \ S
      /\ cmgr'.managed = cmgr.managed \ S
      /\ \A c \in Clients : c \notin S => cmgr'.id[c] = cmgr.id[c]
  BY <1>1 DEF free_invalid_clients, V5Inv, CMInv, CMState
<1>3. /\ cev' = {} /\ pc' = "wait"
      /\ read_buffer' = Cleared(read_buffer, S, <<>>)
      /\ write_buffer' = Cleared(write_buffer, S, <<>>)
      /\ write_registered' = write_registered \ S
      /\ epoll' = Cleared(epoll, S, {})
      /\ peer'  = Cleared(peer, S, "none")
      /\ sent'  = Cleared(sent, S, <<>>)
      /\ inbox' = Cleared(inbox, S, <<>>)
      /\ wire'  = Cleared(wire, S, <<>>)
  BY <1>1 DEF EndOfBatch, Reset
<1> HIDE DEF S
<1>4. TypeOK'
  <2>1. <<>> \in Seq(Byte)
    BY EmptySeq
  <2>2. {read_buffer, write_buffer, sent, inbox, wire} \subseteq [Clients -> Seq(Byte)]
    BY DEF V5Inv, TypeOK, Stream
  <2>3. {read_buffer', write_buffer', sent', inbox', wire'} \subseteq Stream
    BY <1>3, <2>1, <2>2 DEF Cleared, Stream
  <2>4. /\ epoll' \in [Clients -> SUBSET {"IN", "OUT"}]
        /\ peer' \in [Clients -> {"none", "open", "closed", "reset"}]
    BY <1>3 DEF V5Inv, TypeOK, Cleared
  <2> QED
    BY <1>3, <2>3, <2>4 DEF V5Inv, TypeOK, CMTypeOK, CMInv
<1>5. BatchSound'
  BY <1>3 DEF BatchSound
<1>6. ASSUME NEW c \in Clients, c \in S
      PROVE  InInv(c)' /\ OutInv(c)' /\ FreeInv5(c)'
  <2>1. /\ read_buffer'[c] = <<>> /\ write_buffer'[c] = <<>> /\ sent'[c] = <<>>
        /\ inbox'[c] = <<>> /\ wire'[c] = <<>> /\ epoll'[c] = {}
    BY <1>3, <1>6 DEF Cleared
  <2>2. <<>> \o <<>> = <<>> /\ Len(<<>>) = 0 /\ \A T : <<>> \in Seq(T)
    <3>1. <<>> \in Seq({}) /\ Len(<<>>) = 0 /\ \A T : <<>> \in Seq(T)
      BY EmptySeq
    <3> QED
      BY <3>1, ConcatEmptySeq
  <2>3. Placed(<<>>) /\ Finished(<<>>)
    BY <2>2 DEF Placed, Finished
  <2>4. Incoming(c)' = <<>> /\ Outgoing(c)' = <<>>
    BY <2>1, <2>2 DEF Incoming, Arrived, Outgoing
  <2>5. Started(read_buffer[c])'
    BY <2>1, <2>2, PacketFacts DEF Started
  <2> QED
    BY <2>1, <2>2, <2>3, <2>4, <2>5, PacketFacts, SaysFacts DEF InInv, OutInv, FreeInv5
<1>7. ASSUME NEW c \in Clients, c \notin S
      PROVE  InInv(c)' /\ OutInv(c)' /\ FreeInv5(c)'
  <2>1. /\ read_buffer'[c] = read_buffer[c] /\ write_buffer'[c] = write_buffer[c]
        /\ sent'[c] = sent[c] /\ inbox'[c] = inbox[c] /\ wire'[c] = wire[c]
        /\ epoll'[c] = epoll[c]
    BY <1>3, <1>7 DEF Cleared
  <2>2. InInv(c)'
    BY <1>7, <2>1, InKept DEF S
  <2>3. OutInv(c)'
    <3>1. Mail(c)' = Mail(c)
      BY <1>2, <1>7 DEF Mail
    <3>2. Outgoing(c)' = Outgoing(c) /\ OutInv(c)
      BY <2>1 DEF Outgoing, V5Inv
    <3>3. c \in cmgr.managed => c \in cmgr'.managed
      BY <1>2, <1>7
    <3> QED
      BY <2>1, <3>1, <3>2, <3>3 DEF OutInv
  <2>4. FreeInv5(c)'
    BY <1>2, <1>7, <2>1 DEF V5Inv, FreeInv5
  <2> QED
    BY <2>2, <2>3, <2>4
<1> QED
  BY <1>4, <1>5, <1>6, <1>7 DEF V5Inv

\* A peer that connects, closes or resets moves no byte.
LEMMA PeerMoves ==
  ASSUME V5Inv, NEW c \in Clients, PeerConnect(c) \/ PeerGoes(c)
  PROVE  V5Inv'
<1>1. /\ UNCHANGED <<cmgr, read_buffer, write_buffer, write_registered, epoll, cev, pc,
                     sent, inbox, wire>>
      /\ peer' \in [Clients -> {"none", "open", "closed", "reset"}]
  BY DEF PeerConnect, PeerGoes, serverVars, writeVars, V5Inv, TypeOK
<1>2. TypeOK' /\ CMInv(cmgr)' /\ BatchSound'
  BY <1>1 DEF V5Inv, TypeOK, CMTypeOK, CMInv, ListedOnce, Consistent, BatchSound
<1>3. ASSUME NEW d \in Clients PROVE InInv(d)' /\ OutInv(d)' /\ FreeInv5(d)'
  BY <1>1, InKept, OutKept, FreeKept
<1> QED
  BY <1>2, <1>3 DEF V5Inv

\* A byte that a peer writes is the next of the packet it has begun, or the
\* first of another.
LEMMA PeerSendPreserves ==
  ASSUME V5Inv, NEW c \in Clients, PeerSend(c)
  PROVE  V5Inv'
<1>1. UNCHANGED <<cmgr, read_buffer, write_buffer, write_registered, epoll, cev, pc,
                  peer, wire>>
  BY DEF PeerSend, serverVars, writeVars
<1>2. PICK s : /\ s \in IF sent[c] = <<>> THEN {serialize(p) : p \in Packets} ELSE {sent[c]}
               /\ inbox' = [inbox EXCEPT ![c] = Append(@, Head(s))]
               /\ sent' = [sent EXCEPT ![c] = Tail(s)]
  BY DEF PeerSend
<1>3. /\ inbox \in [Clients -> Seq(Byte)] /\ sent \in [Clients -> Seq(Byte)]
      /\ inbox[c] \in Seq(Byte) /\ sent[c] \in Seq(Byte)
      /\ read_buffer[c] \in Seq(Byte) /\ Arrived(c) \in Seq(Byte)
      /\ Incoming(c) \in Seq(Byte)
      /\ Placed(Incoming(c)) /\ Finished(Incoming(c))
  BY BufferTypes DEF V5Inv, TypeOK, Stream, InInv
<1>4. /\ s \in Seq(Byte) /\ s # <<>>
      /\ Placed(Arrived(c) \o s) /\ Finished(Arrived(c) \o s)
  <2>1. CASE sent[c] = <<>>
    <3>1. PICK p \in Packets : s = serialize(p)
      BY <1>2, <2>1
    <3>2. s \in Seq(Byte) /\ Placed(s) /\ Finished(s) /\ Len(s) = p.length
      BY <3>1, PacketFacts, OnePacket DEF serialize
    <3>3. s # <<>>
      BY <3>2, PacketFacts, EmptySeq
    <3>4. Incoming(c) = Arrived(c)
      BY <1>3, <2>1, ConcatEmptySeq DEF Incoming
    <3> DEFINE a == Arrived(c)
    <3>5. a \in Seq(Byte) /\ Placed(a) /\ Finished(a)
      BY <1>3, <3>4
    <3> HIDE DEF a
    <3>6. Placed(a \o s) /\ Finished(a \o s)
      BY <3>2, <3>5, PacketFacts, Joined
    <3> QED
      BY <3>2, <3>3, <3>6 DEF a
  <2>2. CASE sent[c] # <<>>
    BY <1>2, <1>3, <2>2 DEF Incoming
  <2> QED
    BY <2>1, <2>2
<1>5. /\ Head(s) \in Byte /\ Tail(s) \in Seq(Byte) /\ s = <<Head(s)>> \o Tail(s)
      /\ <<Head(s)>> \in Seq(Byte)
  BY <1>4, HeadTailProperties, ConcatProperties
<1> DEFINE h == Head(s)
           r == Tail(s)
           b == inbox[c]
           f == read_buffer[c]
<1>6. h \in Byte /\ r \in Seq(Byte) /\ s = <<h>> \o r /\ <<h>> \in Seq(Byte)
  BY <1>5
<1>7. inbox'[c] = Append(b, h) /\ sent'[c] = r /\ read_buffer'[c] = f
  BY <1>1, <1>2, <1>3
<1>8. f \in Seq(Byte) /\ b \in Seq(Byte) /\ Arrived(c) = f \o b
  BY <1>3 DEF Arrived
<1>9. inbox' = [inbox EXCEPT ![c] = Append(b, h)] /\ sent' = [sent EXCEPT ![c] = r]
  BY <1>2
<1> HIDE DEF h, r, b, f
<1>10. Append(b, h) \in Seq(Byte) /\ Append(b, h) = b \o <<h>>
  BY <1>6, <1>8, AppendProperties, AppendIsConcat
<1>11. Incoming(c)' = Arrived(c) \o s
  <2>1. Incoming(c)' = (f \o (b \o <<h>>)) \o r
    BY <1>7, <1>10 DEF Incoming, Arrived
  <2>2. f \o (b \o <<h>>) = (f \o b) \o <<h>>
    BY <1>6, <1>8, Regroup, ZenonT(60)
  <2>3. f \o b \in Seq(Byte)
    BY <1>8, ConcatProperties
  <2>4. ((f \o b) \o <<h>>) \o r = (f \o b) \o (<<h>> \o r)
    BY <1>6, <2>3, Regroup, Zenon
  <2> QED
    BY <1>6, <1>8, <2>1, <2>2, <2>4, Zenon
<1>12. InInv(c)'
  <2>1. Started(read_buffer[c])' = Started(read_buffer[c])
    BY <1>1 DEF Started
  <2>2. Len(inbox'[c]) <= RcvBuf
    <3>1. Len(Append(b, h)) = Len(b) + 1 /\ Len(b) \in Nat
      BY <1>6, <1>8, AppendProperties, LenProperties
    <3>2. Len(b) < RcvBuf
      BY DEF PeerSend, b
    <3> QED
      BY <1>7, <3>1, <3>2, SaysFacts
  <2> QED
    BY <1>1, <1>4, <1>11, <2>1, <2>2 DEF InInv, V5Inv
<1>13. {inbox', sent'} \subseteq Stream
  BY <1>3, <1>6, <1>9, <1>10 DEF Stream
<1>14. TypeOK' /\ CMInv(cmgr)' /\ BatchSound'
  <2>1. TypeOK'
    BY <1>1, <1>13 DEF V5Inv, TypeOK, CMTypeOK, CMInv
  <2> QED
    BY <1>1, <2>1 DEF V5Inv, CMInv, ListedOnce, Consistent, BatchSound
<1>15. ASSUME NEW d \in Clients, d # c PROVE InInv(d)'
  <2>1. inbox'[d] = inbox[d] /\ sent'[d] = sent[d]
    BY <1>3, <1>9, <1>15
  <2> QED
    BY <1>1, <2>1, InKept
<1>16. ASSUME NEW d \in Clients PROVE OutInv(d)' /\ FreeInv5(d)'
  BY <1>1, OutKept, FreeKept, SMTT(40)
<1> QED
  BY <1>12, <1>14, <1>15, <1>16 DEF V5Inv

\* The first packet on its way to a peer, once it is there, and what follows.
LEMMA FirstOnWire ==
  ASSUME V5Inv, NEW c \in Clients, wire[c] # <<>>, wire[c][1].of.length <= Len(wire[c])
  PROVE  LET w == wire[c]
             q == write_buffer[c]
             n == w[1].of.length
             u == Upto(w, n)
             v == Beyond(w, n)
         IN  /\ n \in Nat \ {0} /\ Len(w) \in Nat \ {0}
             /\ u \in Seq(Byte) /\ v \in Seq(Byte) /\ v \in Seq(Mail(c))
             /\ Len(u) = n /\ Len(v) = Len(w) - n
             /\ u[1] = w[1] /\ u # <<>>
             /\ Outgoing(c) = u \o (v \o q) /\ v \o q \in Seq(Byte)
<1> DEFINE w == wire[c]
           q == write_buffer[c]
           n == w[1].of.length
           u == Upto(w, n)
           v == Beyond(w, n)
<1>1. w # <<>> /\ n <= Len(w)
  OBVIOUS
<1>2. w \in Seq(Byte) /\ q \in Seq(Byte)
  BY DEF V5Inv, TypeOK, Stream
<1>3. w \in Seq(Mail(c)) /\ Placed(w \o q) /\ Outgoing(c) = w \o q
  BY DEF V5Inv, OutInv, Outgoing
<1> HIDE DEF w, q
<1>4. Placed(w)
  BY <1>2, <1>3, PacketFacts, FrontAndRest
<1>5. n \in Nat \ {0} /\ Len(w) \in Nat \ {0}
  BY <1>1, <1>2, <1>4, PacketFacts, FirstPacket
<1> HIDE DEF n
<1>6. /\ u = SubSeq(w, 1, n) /\ v = SubSeq(w, n + 1, Len(w))
      /\ n \in 0 .. Len(w)
  BY <1>1, <1>5 DEF Upto, Beyond
<1> HIDE DEF u, v
<1>7. /\ u \in Seq(Byte) /\ v \in Seq(Byte) /\ v \in Seq(Mail(c))
      /\ Len(u) = n /\ Len(v) = Len(w) - n
  BY <1>2, <1>3, <1>6, SeqFacts, SubSeqLength
<1>8. u[1] = w[1] /\ u # <<>>
  <2>1. /\ 1 \in Int /\ n \in Int /\ 1 \in 1 .. (n - 1 + 1) /\ 1 + 1 - 1 = 1
        /\ \A k \in 1 .. n : k \in 1 .. Len(w)
    BY <1>1, <1>5
  <2>2. \A k \in 1 .. n : w[k] \in Byte
    BY <1>2, <2>1, ElementOfSeq
  <2>3. SubSeq(w, 1, n)[1] = w[1]
    BY <1>5, <2>1, <2>2, SubSeqProperties
  <2>4. u # <<>>
    BY <1>5, <1>7, EmptySeq
  <2> QED
    BY <1>6, <2>3, <2>4
<1>9. w \o q = u \o (v \o q) /\ v \o q \in Seq(Byte)
  <2>1. u \o v = w
    BY <1>2, <1>6, SplitAt
  <2>2. (u \o v) \o q = u \o (v \o q)
    BY <1>2, <1>7, Regroup, ZenonT(60)
  <2> QED
    BY <1>2, <1>7, <2>1, <2>2, ConcatProperties
<1> QED
  BY <1>3, <1>5, <1>7, <1>8, <1>9, ZenonT(40) DEF w, q, n, u, v

\* What a peer takes is the first packet on its way to it.
LEMMA PeerReadPreserves ==
  ASSUME V5Inv, NEW c \in Clients, PeerRead(c)
  PROVE  V5Inv'
<1> DEFINE w == wire[c]
           q == write_buffer[c]
           n == w[1].of.length
           u == Upto(w, n)
           v == Beyond(w, n)
<1>1. /\ UNCHANGED <<cmgr, read_buffer, write_buffer, write_registered, epoll, cev, pc,
                     peer, sent, inbox>>
      /\ wire' = [wire EXCEPT ![c] = v]
      /\ w # <<>> /\ n <= Len(w)
  BY DEF PeerRead, serverVars, writeVars
<1>2. wire \in [Clients -> Seq(Byte)] /\ w \in Seq(Byte) /\ q \in Seq(Byte)
  BY DEF V5Inv, TypeOK, Stream
<1>3. /\ w \in Seq(Mail(c)) /\ q \in Seq(Mail(c)) /\ c \in cmgr.managed
      /\ Len(w) <= SndBuf
      /\ Placed(w \o q) /\ Finished(w \o q)
  BY <1>1 DEF V5Inv, OutInv, Outgoing
<1>4. wire'[c] = v /\ write_buffer'[c] = q /\ Mail(c)' = Mail(c)
  BY <1>1, <1>2 DEF Mail
<1>5. \A d \in Clients : d # c => wire'[d] = wire[d]
  BY <1>1, <1>2
<1>6. /\ n \in Nat \ {0} /\ Len(w) \in Nat \ {0}
      /\ u \in Seq(Byte) /\ v \in Seq(Byte) /\ v \in Seq(Mail(c))
      /\ Len(u) = n /\ Len(v) = Len(w) - n
      /\ u[1] = w[1] /\ u # <<>>
      /\ Outgoing(c) = u \o (v \o q) /\ v \o q \in Seq(Byte)
  BY <1>1, FirstOnWire, ZenonT(40)
<1>7. w \o q = u \o (v \o q) /\ v \o q \in Seq(Byte)
  BY <1>6, ZenonT(40) DEF Outgoing
<1> HIDE DEF w, q, n, u, v
<1>8. Placed(v \o q) /\ Finished(v \o q)
  <2>1. u[1].of.length = Len(u)
    BY <1>6 DEF n
  <2> QED
    BY <1>3, <1>6, <1>7, <2>1, PacketFacts, FrontAndRest
<1>9. OutInv(c)'
  <2>1. Len(v) <= SndBuf
    BY <1>3, <1>6, PacketFacts
  <2>2. Outgoing(c)' = v \o q
    BY <1>4 DEF Outgoing
  <2> QED
    BY <1>1, <1>3, <1>4, <1>6, <1>8, <2>1, <2>2 DEF OutInv, q
<1>10. wire' \in Stream
  BY <1>1, <1>2, <1>6 DEF Stream
<1>11. TypeOK' /\ CMInv(cmgr)' /\ BatchSound'
  <2>1. TypeOK'
    BY <1>1, <1>10 DEF V5Inv, TypeOK, CMTypeOK, CMInv
  <2> QED
    BY <1>1, <2>1 DEF V5Inv, CMInv, ListedOnce, Consistent, BatchSound
<1>12. ASSUME NEW d \in Clients, d # c PROVE OutInv(d)'
  BY <1>1, <1>5, <1>12, OutKept
<1>13. ASSUME NEW d \in Clients PROVE InInv(d)' /\ FreeInv5(d)'
  BY <1>1, InKept, FreeKept
<1> QED
  BY <1>9, <1>11, <1>12, <1>13 DEF V5Inv

-----------------------------------------------------------------------------
(* The theorems. *)

LEMMA V5InitInv == Init => V5Inv
<1> SUFFICES ASSUME Init PROVE V5Inv
  OBVIOUS
<1>1. CMInv(cmgr) /\ cmgr.live = {} /\ cmgr.invalid = {}
  BY InitStateInv DEF Init, CMInit, CMInitState
<1>2. /\ <<>> \o <<>> = <<>> /\ Len(<<>>) = 0 /\ \A T : <<>> \in Seq(T)
      /\ Placed(<<>>) /\ Finished(<<>>) /\ Started(<<>>)
  <2>1. <<>> \in Seq({}) /\ Len(<<>>) = 0 /\ \A T : <<>> \in Seq(T)
    BY EmptySeq
  <2> QED
    BY <2>1, ConcatEmptySeq, PacketFacts DEF Placed, Finished, Started
<1>3. TypeOK
  BY <1>1, <1>2 DEF Init, TypeOK, CMTypeOK, CMInv, Nothing, Stream
<1>4. BatchSound
  BY DEF Init, BatchSound
<1>5. ASSUME NEW c \in Clients PROVE InInv(c) /\ OutInv(c) /\ FreeInv5(c)
  <2>1. /\ read_buffer[c] = <<>> /\ write_buffer[c] = <<>> /\ sent[c] = <<>>
        /\ inbox[c] = <<>> /\ wire[c] = <<>> /\ epoll[c] = {}
    BY DEF Init, Nothing
  <2>2. Incoming(c) = <<>> /\ Outgoing(c) = <<>>
    BY <1>2, <2>1 DEF Incoming, Arrived, Outgoing
  <2> QED
    BY <1>2, <2>1, <2>2, PacketFacts, SaysFacts DEF InInv, OutInv, FreeInv5
<1> QED
  BY <1>1, <1>3, <1>4, <1>5 DEF V5Inv

LEMMA V5StepInv ==
  ASSUME V5Inv, [Next]_vars
  PROVE  V5Inv'
<1>1. CMInv(cmgr)'
  BY StepMeetsContract, CMStep DEF V5Inv
<1>2. ASSUME ~Overrun, NEW e \in cev, handle_event(e) PROVE V5Inv'
  BY <1>1, <1>2, AcceptPreserves, StalePreserves, ReadPreserves, DataPreserves, WritePreserves
     DEF handle_event, handle_read_event
<1>3. CASE ~Overrun /\ do_poll
  BY <1>1, <1>2, <1>3, PollPreserves, EndPreserves DEF do_poll
<1>4. ASSUME NEW c \in Clients, Peer(c) PROVE V5Inv'
  BY <1>4, PeerMoves, PeerSendPreserves, PeerReadPreserves DEF Peer
<1>5. CASE UNCHANGED vars
  <2>1. UNCHANGED <<cmgr, read_buffer, write_buffer, write_registered, epoll, cev, pc,
                    peer, sent, inbox, wire>>
    BY <1>5 DEF vars, serverVars, writeVars, peerVars
  <2>2. TypeOK' /\ BatchSound'
    BY <2>1 DEF V5Inv, TypeOK, CMTypeOK, BatchSound
  <2>3. ASSUME NEW d \in Clients PROVE InInv(d)' /\ OutInv(d)' /\ FreeInv5(d)'
    BY <2>1, InKept, OutKept, FreeKept
  <2> QED
    BY <1>1, <2>2, <2>3 DEF V5Inv
<1> QED
  BY <1>3, <1>4, <1>5 DEF Next

\* The inductive invariant holds in every state.
THEOREM V5Invariance == Spec => []V5Inv
<1> QED
  BY V5InitInv, V5StepInv, PTL DEF Spec

\* The pointers of a batch are those of live, registered Clients, and the four
\* assertions about read_buffer hold, however the streams are cut and whatever a
\* header says of its packet's length; only a Short packet overruns the buffer.
THEOREM V5Asserts == Spec => []Inv
<1>1. V5Inv => Inv
  <2> SUFFICES ASSUME V5Inv, NEW c \in Clients, c \notin cmgr.invalid
               PROVE  LET b == read_buffer[c]
                      IN  /\ \A k \in 1 .. Len(b) :
                               k <= b[1].of.length => b[k] = [of |-> b[1].of, at |-> k]
                          /\ b # <<>> => Len(b) < BodyEnd(b[1].of)
                          /\ Len(b) >= PACKET_HDR_LENGTH =>
                               b[1].of.says <= MAX_PACKET_LENGTH
                          /\ Len(b) > MAX_PACKET_LENGTH => Short(b[1].of)
    BY DEF V5Inv, Inv, AssertionsHold, BatchSound, CMInv, CMState
  <2> DEFINE b == read_buffer[c]
  <2>1. b \in Seq(Byte) /\ inbox[c] \in Seq(Byte) /\ sent[c] \in Seq(Byte)
    BY BufferTypes DEF V5Inv
  <2>2. Placed((b \o inbox[c]) \o sent[c]) /\ Started(b)
    BY DEF V5Inv, InInv, Incoming, Arrived
  <2> HIDE DEF b
  <2>3. /\ (b \o inbox[c]) \o sent[c] = b \o (inbox[c] \o sent[c])
        /\ inbox[c] \o sent[c] \in Seq(Byte)
    <3>1. (b \o inbox[c]) \o sent[c] = b \o (inbox[c] \o sent[c])
      BY <2>1, Regroup, ZenonT(60)
    <3> QED
      BY <2>1, <3>1, ConcatProperties
  <2>4. Placed(b)
    BY <2>1, <2>2, <2>3, PacketFacts, FrontAndRest
  <2>5. b # <<>> =>
          /\ b[1].of \in Packets /\ Len(b) \in Nat
          /\ \A j \in 1 .. Len(b) :
               j <= b[1].of.length => b[j] = [of |-> b[1].of, at |-> j]
    BY <2>1, <2>4, PacketFacts, FirstPacket
  <2>6. b = <<>> => Len(b) = 0
    BY EmptySeq
  <2>7. \A k \in 1 .. Len(b) :
          k <= b[1].of.length => b[k] = [of |-> b[1].of, at |-> k]
    BY <2>5, <2>6
  <2>8. ASSUME Len(b) > MAX_PACKET_LENGTH PROVE Short(b[1].of)
    <3>1. b # <<>>
      BY <2>6, <2>8, PacketFacts
    <3>2. /\ Len(b) < BodyEnd(b[1].of)
          /\ Len(b) >= PACKET_HDR_LENGTH => b[1].of.says <= MAX_PACKET_LENGTH
      BY <2>2, <3>1 DEF Started
    <3> DEFINE p == b[1].of
    <3>3. p \in Packets /\ Len(b) \in Nat /\ Len(b) < BodyEnd(p)
      BY <2>5, <3>1, <3>2
    <3>4. Len(b) >= PACKET_HDR_LENGTH => p.says <= MAX_PACKET_LENGTH
      BY <3>2
    <3> HIDE DEF p
    <3>5. Short(p)
      BY <2>8, <3>3, <3>4, PacketFacts, SaysFacts
    <3> QED
      BY <3>5 DEF p
  <2> QED
    BY <2>2, <2>7, <2>8 DEF Started, b
<1> QED
  BY <1>1, V5Invariance, PTL

\* What a peer receives is whole packets addressed to it.
THEOREM V5WholePackets == Spec => []WholePackets
<1>1. V5Inv => WholePackets
  <2> SUFFICES ASSUME V5Inv, NEW c \in Clients, NEW k \in DOMAIN Outgoing(c)
               PROVE  LET b == Outgoing(c)[k]
                      IN  /\ b.of.dst = cmgr.id[c] /\ c \in cmgr.managed
                          /\ k = 1 => b.at = 1
                          /\ IF b.at = b.of.length
                               THEN k < Len(Outgoing(c)) => Outgoing(c)[k + 1].at = 1
                               ELSE /\ k < Len(Outgoing(c))
                                    /\ Outgoing(c)[k + 1] = [of |-> b.of, at |-> b.at + 1]
    BY DEF WholePackets
  <2> DEFINE s == Outgoing(c)
  <2>1. /\ wire[c] \in Seq(Mail(c)) /\ write_buffer[c] \in Seq(Mail(c))
        /\ wire[c] # <<>> \/ write_buffer[c] # <<>> => c \in cmgr.managed
        /\ Placed(s) /\ Finished(s)
        /\ s = wire[c] \o write_buffer[c]
    BY DEF V5Inv, OutInv, Outgoing
  <2>2. s \in Seq(Byte) /\ s \in Seq(Mail(c))
    BY <2>1, BufferTypes, ConcatProperties DEF V5Inv
  <2> HIDE DEF s
  <2>3. k \in 1 .. Len(s) /\ Len(s) \in Nat
    BY <2>2, LenProperties DEF s
  <2>4. s[k].of.dst = cmgr.id[c]
    <3>1. s[k] \in Mail(c)
      BY <2>2, <2>3, ElementOfSeq
    <3> QED
      BY <3>1 DEF Mail
  <2>5. c \in cmgr.managed
    <3>1. CASE wire[c] = <<>> /\ write_buffer[c] = <<>>
      <4>1. s = <<>>
        BY <2>1, <3>1, ConcatEmptySeq
      <4> QED
        BY <2>3, <4>1, EmptySeq
    <3> QED
      BY <2>1, <3>1
  <2>6. /\ k = 1 => s[k].at = 1
        /\ k < Len(s) => IF s[k].at = s[k].of.length
                           THEN s[k + 1].at = 1
                           ELSE s[k + 1] = [of |-> s[k].of, at |-> s[k].at + 1]
        /\ s[k].at # s[k].of.length => k < Len(s)
    BY <2>1, <2>2, <2>3, PacketFacts, NextByte, ZenonT(60)
  <2> QED
    BY <2>4, <2>5, <2>6 DEF s
<1> QED
  BY <1>1, V5Invariance, PTL

\* The server drives ClientMgr only as its contract allows.
THEOREM V5MeetsContract == Spec => CMSpec
<1>1. Init => CMInit
  BY DEF Init
<1>2. V5Inv /\ [Next]_vars => [CMNext]_cmgr
  BY StepMeetsContract
<1> QED
  BY <1>1, <1>2, V5Invariance, PTL DEF Spec, CMSpec

\* Its table of Clients is consistent in every state.
THEOREM V5Table == Spec => []TableConsistent
  BY V5MeetsContract, CMTableConsistent, PTL

\* It never deletes a Client twice.
THEOREM V5Deletes == Spec => []NoDoubleFree
  BY V5MeetsContract, CMNoDoubleFree, PTL

\* Whoever loses an id is on the list of Clients to free.
THEOREM V5Evicts == Spec => EvictedIsDoomed
  BY V5MeetsContract, CMEvictedIsDoomed, PTL

\* A rejected newcomer leaves the table alone.
THEOREM V5Rejects == Spec => RejectedIsHarmless
  BY V5MeetsContract, CMRejectedIsHarmless, PTL
-----------------------------------------------------------------------------
(* The server implements the relay of packets.  The lemmas say what its    *)
(* steps are to the relay, as in TCPServerProofs; here a packet is in a     *)
(* mailbox when its last byte is on its way.                               *)

\* The relay's owner of a name is the entry of the table.
Owner == [i \in Ids |-> cmgr.client_array[i]]

LEMMA Sessions ==
  \A c \in Clients :
    /\ session[c] = IF c \notin cmgr.live THEN "absent"
                    ELSE IF c \in cmgr.invalid THEN "gone"
                    ELSE IF c \in cmgr.managed THEN "bound"
                    ELSE "fresh"
    /\ mailbox[c] = PacketsIn(Outgoing(c))
  BY DEF session, mailbox

\* A step that leaves ClientMgr and the packets under way alone is no step of
\* the relay.
LEMMA RelayStutters ==
  ASSUME cmgr' = cmgr, mailbox' = mailbox
  PROVE  UNCHANGED <<session, Owner, mailbox>>
  BY DEF session, Owner

LEMMA MailStays ==
  ASSUME write_buffer' = write_buffer, wire' = wire
  PROVE  mailbox' = mailbox
  BY DEF mailbox, Outgoing

\* Only the bytes on their way to c change, and with them c's mailbox.
LEMMA MailOfOne ==
  ASSUME NEW c \in Clients, NEW m,
         \A d \in Clients : d # c => wire'[d] = wire[d] /\ write_buffer'[d] = write_buffer[d],
         PacketsIn(Outgoing(c)') = m
  PROVE  mailbox' = [mailbox EXCEPT ![c] = m]
<1>1. \A d \in Clients : d # c => Outgoing(d)' = Outgoing(d)
  BY DEF Outgoing
<1>2. mailbox' = [d \in Clients |-> PacketsIn(Outgoing(d)')]
  BY DEF mailbox
<1>3. mailbox = [d \in Clients |-> PacketsIn(Outgoing(d))]
  BY DEF mailbox
<1> QED
  BY <1>1, <1>2, <1>3

\* Admitting c is c speaking under its name.
LEMMA AdmitSpeaks ==
  ASSUME V5Inv, NEW c \in Clients, NEW i \in Ids, Admit(c, i)
  PROVE  R!Speak(c, i)
<1>1. /\ cmgr'.live = cmgr.live
      /\ cmgr'.managed = cmgr.managed \cup {c}
      /\ c \in cmgr.live \ cmgr.invalid
  BY AdmitEffect DEF V5Inv, Admit
<1> DEFINE p == cmgr.client_array[i]
<1>2. /\ c \in cmgr.managed =>
           /\ p = c
           /\ cmgr'.invalid = cmgr.invalid
           /\ cmgr'.client_array = cmgr.client_array
      /\ c \notin cmgr.managed =>
           /\ p # c
           /\ p # NULL => p \in cmgr.managed \ cmgr.invalid
           /\ cmgr'.invalid = IF p = NULL THEN cmgr.invalid ELSE cmgr.invalid \cup {p}
           /\ cmgr'.client_array = [cmgr.client_array EXCEPT ![i] = c]
  BY AdmitTable DEF V5Inv
<1>3. cmgr.managed \subseteq cmgr.live /\ cmgr.client_array \in [AllIds -> Clients \cup {NULL}]
  BY DEF V5Inv, CMInv, CMState, Consistent
<1>4. Owner[i] = p /\ NULL \notin Clients
  BY CMAssumption DEF Owner
<1> HIDE DEF p
<1>5. CASE c \in cmgr.managed
  <2>1. session' = session /\ Owner' = Owner
    BY <1>1, <1>2, <1>5 DEF session, Owner
  <2>2. session[c] = "bound" /\ Owner[i] = c
    BY <1>1, <1>2, <1>4, <1>5, Sessions
  <2> QED
    BY <2>1, <2>2 DEF R!Speak, Owner
<1>6. CASE c \notin cmgr.managed
  <2>1. session[c] = "fresh"
    BY <1>1, <1>6, Sessions
  <2>2. session' = [d \in Clients |-> IF d = c             THEN "bound"
                                      ELSE IF d = Owner[i] THEN "gone"
                                      ELSE session[d]]
    BY <1>1, <1>2, <1>3, <1>4, <1>6 DEF session
  <2>3. Owner' = [Owner EXCEPT ![i] = c]
    BY <1>2, <1>3, <1>6 DEF Owner, AllIds
  <2> QED
    BY <2>1, <2>2, <2>3 DEF R!Speak, Owner
<1> QED
  BY <1>5, <1>6

\* Rejecting c, whatever it did wrong, is c hanging up.
LEMMA RejectHangsUp ==
  ASSUME V5Inv, NEW c \in Clients, NEW i \in AllIds, Reject(c, i), mailbox' = mailbox
  PROVE  R!Hangup(c)
<1>1. /\ cmgr'.live = cmgr.live
      /\ cmgr'.managed = cmgr.managed
      /\ cmgr'.invalid = cmgr.invalid \cup {c}
      /\ c \in cmgr.live \ cmgr.invalid
  BY RejectEffect DEF V5Inv, Reject
<1>2. session[c] \in {"fresh", "bound"}
  BY <1>1, Sessions
<1>3. session' = [session EXCEPT ![c] = "gone"]
  BY <1>1 DEF session
<1>4. Owner' = [n \in Ids |-> IF Owner[n] = c THEN NULL ELSE Owner[n]]
  <2>1. cmgr'.client_array =
          [j \in AllIds |-> IF cmgr.client_array[j] = c THEN NULL ELSE cmgr.client_array[j]]
    BY RejectTable DEF V5Inv
  <2>2. \A n \in Ids : n \in AllIds
    BY DEF AllIds
  <2> QED
    BY <2>1, <2>2 DEF Owner
<1> QED
  BY <1>2, <1>3, <1>4 DEF R!Hangup, Owner

\* A Client allocated is a connection accepted, whether epoll knows it or not.
LEMMA AcceptRefines ==
  ASSUME V5Inv, NEW e \in cev, accept_connection(e)
  PROVE  \/ \E c \in Clients : R!Accept(c)
         \/ UNCHANGED <<session, Owner, mailbox>>
<1>1. mailbox' = mailbox
  BY MailStays DEF accept_connection, peerVars
<1>2. CASE UNCHANGED cmgr
  BY <1>1, <1>2, RelayStutters
<1>3. ASSUME NEW c \in Backlog, cmgr' = NewClient(cmgr, c)
      PROVE  R!Accept(c)
  <2>1. c \in Clients /\ c \notin cmgr.live
    BY <1>3 DEF Backlog
  <2>2. /\ cmgr'.live = cmgr.live \cup {c}
        /\ cmgr'.invalid = cmgr.invalid \ {c}
        /\ cmgr'.managed = cmgr.managed \ {c}
        /\ cmgr'.client_array = cmgr.client_array
    BY <1>3 DEF NewClient, V5Inv, CMInv, CMState
  <2>3. session[c] = "absent" /\ session' = [session EXCEPT ![c] = "fresh"]
    BY <2>1, <2>2 DEF session
  <2>4. Owner' = Owner
    BY <2>2 DEF Owner
  <2> QED
    BY <1>1, <2>3, <2>4 DEF R!Accept, Owner
<1> QED
  BY <1>2, <1>3 DEF accept_connection, Backlog

LEMMA ReadRefines ==
  ASSUME V5Inv, ~Overrun, NEW e \in cev
  PROVE  /\ ReadFails(e) => e.ptr \in Clients /\ R!Hangup(e.ptr)
         /\ ReadHello(e) => e.ptr \in Clients /\ \E i \in Ids : R!Bind(e.ptr, i)
<1>1. ReadFails(e) \/ ReadHello(e) => mailbox' = mailbox
  BY MailStays DEF ReadFails, ReadHello, Reads, writeVars
<1>2. ASSUME ReadFails(e) PROVE e.ptr \in Clients /\ R!Hangup(e.ptr)
  BY <1>1, <1>2, ReadMeetsContract, RejectHangsUp
<1>3. ASSUME ReadHello(e) PROVE e.ptr \in Clients /\ \E i \in Ids : R!Bind(e.ptr, i)
  BY <1>1, <1>3, ReadMeetsContract, AdmitSpeaks DEF R!Bind
<1> QED
  BY <1>2, <1>3

\* If a packet does not fit, there are at least as many on their way as
\* write_buffer has room for, if each is as long as a packet can be.
LEMMA RefusedWhenFull ==
  ASSUME V5Inv, NEW d \in Clients, NEW p \in Packets, p.length <= MAX_PACKET_LENGTH,
         Len(write_buffer[d]) + p.length > MAX_ALLOWED_WRITE_QUEUE
  PROVE  Len(mailbox[d]) >= MAX_ALLOWED_WRITE_QUEUE \div MAX_PACKET_LENGTH
<1> DEFINE s == Outgoing(d)
           q == write_buffer[d]
           n == Len(PacketsIn(s))
           l == p.length
           M == MAX_PACKET_LENGTH
           Q == MAX_ALLOWED_WRITE_QUEUE
<1>1. M \in Nat \ {0} /\ Q \in Nat /\ l \in Nat /\ l <= M
  BY V5Assumption, PacketFacts
<1>2. s \in Seq(Byte) /\ q \in Seq(Byte) /\ wire[d] \in Seq(Byte) /\ s = wire[d] \o q
  BY BufferTypes DEF V5Inv, Outgoing
<1>3. wire[d] \in Seq(Mail(d)) /\ q \in Seq(Mail(d)) /\ Placed(s) /\ Finished(s)
  BY DEF V5Inv, OutInv
<1> HIDE DEF s, q, M, Q, l
<1>4. Len(s) \in Nat /\ Len(q) \in Nat /\ Len(q) <= Len(s)
  <2>1. Len(s) = Len(wire[d]) + Len(q)
    BY <1>2, ConcatProperties
  <2>2. Len(wire[d]) \in Nat /\ Len(q) \in Nat
    BY <1>2, LenProperties
  <2> QED
    BY <2>1, <2>2
<1>5. \A k \in 1 .. Len(s) : s[k].of.length <= M
  <2>1. s \in Seq(Mail(d))
    BY <1>2, <1>3, ConcatProperties
  <2> TAKE k \in 1 .. Len(s)
  <2>2. s[k] \in Mail(d)
    BY <2>1, ElementOfSeq
  <2> QED
    BY <2>2 DEF Mail, M
<1>6. Len(s) <= n * M
  BY <1>1, <1>2, <1>3, <1>5, PacketFacts, PacketsHold
<1>7. n \in Nat
  BY <1>2, PacketFacts, PacketsInTyped, LenProperties
<1>8. Len(q) + l > Q
  BY DEF q, l, Q
<1> HIDE DEF n
<1>9. n * M \in Nat
  BY <1>1, <1>7
<1>10. Q < n * M + M
  <2> DEFINE x == n * M
  <2> HIDE DEF x
  <2>1. x \in Nat /\ Len(s) <= x
    BY <1>6, <1>9 DEF x
  <2>2. Q < x + M
    BY <1>1, <1>4, <1>8, <2>1
  <2> QED
    BY <2>2 DEF x
<1>11. n >= Q \div M
  BY <1>1, <1>7, <1>10, FullOf
<1>12. Len(mailbox[d]) = n
  BY Sessions DEF n, s
<1> QED
  BY <1>11, <1>12 DEF Q, M

\* A packet read from c reaches the mailbox of the owner of its destination.
LEMMA DataRefines ==
  ASSUME V5Inv, ~Overrun, NEW e \in cev, ReadData(e), CMInv(cmgr)'
  PROVE  \E c \in Clients, p \in {x \in Packets : x.kind = "DATA" /\ ~Short(x)} :
           R!Submit(c, p)
<1> DEFINE c == e.ptr
<1>1. c \in Clients /\ wire' = wire /\ read_packet(c) = "DATA"
  BY EventClient DEF ReadData, Reads, ReadEvent
<1> DEFINE f == Filled(c)[1].of
<1>2. f \in Packets /\ f.length <= MAX_PACKET_LENGTH /\ f.kind = "DATA" /\ ~Short(f)
  <2>1. f \in Packets /\ f.length <= MAX_PACKET_LENGTH /\ ~Short(f)
    BY <1>1, ReadMeetsContract, Verdicts, ReadFacts
  <2>2. f.kind = "DATA"
    BY <1>1 DEF read_packet, validate_packet
  <2> QED
    BY <2>1, <2>2
<1>3. PICK p \in Packets :
        p = f /\ p.length <= MAX_PACKET_LENGTH /\ p.kind = "DATA" /\ ~Short(p)
  BY <1>2
<1> DEFINE d == cmgr'.client_array[p.dst]
<1>4. p.length \in Nat \ {0} /\ p.dst \in AllIds
  BY PacketFacts
<1>5. p.src \in Ids /\ R!Speak(c, p.src)
  <2>1. PICK i \in Ids : i = p.src /\ Admit(c, i)
    BY <1>1, <1>3, ReadMeetsContract, IdentifiedAs
  <2>2. R!Speak(c, i)
    BY <1>1, <2>1, AdmitSpeaks, SMTT(40)
  <2> QED
    BY <2>1, <2>2
<1>6. /\ d = find_client_by_id(cmgr', p.dst) /\ d \in Clients \cup {NULL}
      /\ d = NULL => UNCHANGED write_buffer
      /\ d # NULL => write_buffer' = [write_buffer EXCEPT ![d] = Queued(@, p)]
  BY <1>3, <1>4, ZenonT(40) DEF ReadData, send_data_to_client, writeVars, find_client_by_id, CMInv, CMState
<1>7. d = IF p.dst \in Ids THEN Owner'[p.dst] ELSE NULL
  <2>1. CASE p.dst \in Ids
    BY <2>1 DEF Owner
  <2>2. CASE p.dst \notin Ids
    BY <1>4, <2>2, SMTT(60) DEF AllIds, CMInv, Consistent
  <2> QED
    BY <2>1, <2>2
<1> HIDE DEF c, d
<1>8. \/ d # NULL /\ mailbox' = [mailbox EXCEPT ![d] = Append(@, p)]
      \/ /\ d = NULL \/ Len(mailbox[d]) >= MAX_ALLOWED_WRITE_QUEUE \div MAX_PACKET_LENGTH
         /\ mailbox' = mailbox
  <2>1. CASE d = NULL
    BY <1>1, <1>6, <2>1, MailStays
  <2>2. CASE d # NULL
    <3>1. PICK t \in Clients : t = d
      BY <1>6, <2>2
    <3> DEFINE q == write_buffer[t]
               w == wire[t]
               s == serialize(p)
    <3>2. /\ w \in Seq(Byte) /\ q \in Seq(Byte)
          /\ write_buffer \in [Clients -> Seq(Byte)]
          /\ write_buffer' = [write_buffer EXCEPT ![t] = Queued(q, p)]
      BY <1>6, <2>2, <3>1 DEF V5Inv, TypeOK, Stream
    <3>3. CASE Len(q) + p.length > MAX_ALLOWED_WRITE_QUEUE
      <4>1. write_buffer' = write_buffer
        BY <3>2, <3>3 DEF Queued
      <4> QED
        BY <1>1, <1>3, <3>1, <3>3, <4>1, MailStays, RefusedWhenFull
    <3>4. CASE ~(Len(q) + p.length > MAX_ALLOWED_WRITE_QUEUE)
      <4>1. write_buffer' = [write_buffer EXCEPT ![t] = q \o s]
        BY <3>2, <3>4 DEF Queued
      <4>2. /\ write_buffer'[t] = q \o s /\ wire'[t] = w
            /\ \A h \in Clients : h # t => wire'[h] = wire[h] /\ write_buffer'[h] = write_buffer[h]
        BY <1>1, <3>2, <4>1
      <4>3. s = [k \in 1 .. p.length |-> [of |-> p, at |-> k]]
        BY DEF serialize
      <4>4. s \in Seq(Byte)
        BY <4>3, PacketFacts, OnePacket
      <4>5. Outgoing(t) = w \o q /\ Outgoing(t) \in Seq(Byte)
        BY BufferTypes DEF V5Inv, Outgoing
      <4>6. Outgoing(t)' = w \o (q \o s)
        BY <4>2 DEF Outgoing
      <4> DEFINE o == Outgoing(t)
      <4> HIDE DEF w, q, s, o
      <4>7. (w \o q) \o s = w \o (q \o s)
        BY <3>2, <4>4, Regroup, ZenonT(60)
      <4>8. o \in Seq(Byte) /\ Outgoing(t)' = o \o s
        BY <4>5, <4>6, <4>7 DEF o
      <4>9. PacketsIn(o \o s) = Append(PacketsIn(o), p)
        BY <1>4, <4>3, <4>8, PacketFacts, PacketJoins
      <4>10. PacketsIn(Outgoing(t)') = Append(mailbox[t], p)
        BY <4>8, <4>9, Sessions DEF o
      <4>11. mailbox' = [mailbox EXCEPT ![t] = Append(mailbox[t], p)]
        BY <4>2, <4>10, MailOfOne
      <4> QED
        BY <2>2, <3>1, <4>11
    <3> QED
      BY <3>3, <3>4
  <2> QED
    BY <2>1, <2>2
<1>9. \E n \in Ids : (n # p.src => ~TRUE /\ session[c] = "bound") /\ R!Speak(c, n)
  BY <1>5, ZenonT(40)
<1>10. R!Submit(c, p)
  BY <1>7, <1>8, <1>9, ZenonT(40) DEF R!Submit, Owner
<1> QED
  BY <1>1, <1>3, <1>10

\* write_data moves bytes within what is on its way.
LEMMA WriteRefines ==
  ASSUME V5Inv, NEW e \in cev, WriteSome(e)
  PROVE  UNCHANGED <<session, Owner, mailbox>>
<1> DEFINE c == e.ptr
           room == SndBuf - Len(wire[c])
           q == write_buffer[c]
           w == wire[c]
<1>1. /\ wire' = [wire EXCEPT ![c] = w \o Upto(q, room)]
      /\ write_buffer' = [write_buffer EXCEPT ![c] = Beyond(q, room)]
      /\ cmgr' = cmgr /\ c \in Clients
  BY EventClient DEF WriteSome, Writes, WriteEvent
<1>2. /\ w \in Seq(Byte) /\ q \in Seq(Byte) /\ room \in Nat
      /\ wire \in [Clients -> Seq(Byte)] /\ write_buffer \in [Clients -> Seq(Byte)]
  <2>1. Len(w) \in Nat /\ Len(w) <= SndBuf
    BY <1>1, BufferTypes, LenProperties DEF V5Inv, OutInv
  <2>2. room = SndBuf - Len(w)
    OBVIOUS
  <2> HIDE DEF room, w
  <2>3. room \in Nat
    BY <2>1, <2>2, PacketFacts
  <2> QED
    BY <1>1, <2>3 DEF V5Inv, TypeOK, Stream, w
<1> HIDE DEF w, q, room
<1>3. (w \o Upto(q, room)) \o Beyond(q, room) = w \o q
  BY <1>2, Rejoined, Zenon
<1>4. Outgoing(c)' = Outgoing(c)
  <2>1. wire'[c] = w \o Upto(q, room) /\ write_buffer'[c] = Beyond(q, room)
    BY <1>1, <1>2
  <2> QED
    BY <1>3, <2>1 DEF Outgoing, w, q
<1>5. \A d \in Clients : d # c => wire'[d] = wire[d] /\ write_buffer'[d] = write_buffer[d]
  BY <1>1, <1>2
<1>6. \A d \in Clients : Outgoing(d)' = Outgoing(d)
  BY <1>4, <1>5 DEF Outgoing
<1>7. mailbox' = mailbox
  BY <1>6 DEF mailbox
<1> QED
  BY <1>1, <1>7, RelayStutters

\* What the peers do: only what they read is seen by the relay.
LEMMA PeerRefines ==
  ASSUME V5Inv, NEW c \in Clients, Peer(c)
  PROVE  R!Receive(c) \/ UNCHANGED <<session, Owner, mailbox>>
<1>1. cmgr' = cmgr /\ write_buffer' = write_buffer
  BY DEF Peer, PeerConnect, PeerSend, PeerRead, PeerGoes, serverVars, writeVars
<1>2. CASE PeerRead(c)
  <2> DEFINE w == wire[c]
             q == write_buffer[c]
             n == w[1].of.length
             u == Upto(w, n)
             v == Beyond(w, n)
  <2>1. w # <<>> /\ n <= Len(w) /\ wire' = [wire EXCEPT ![c] = v]
    BY <1>2, SMTT(40) DEF PeerRead
  <2>2. /\ u \in Seq(Byte) /\ Len(u) = n /\ u[1] = w[1] /\ u # <<>>
        /\ Outgoing(c) = u \o (v \o q) /\ v \o q \in Seq(Byte)
    BY <2>1, FirstOnWire, ZenonT(40)
  <2>3. wire \in [Clients -> Seq(Byte)] /\ Placed(Outgoing(c)) /\ c \in cmgr.managed
    BY <2>1 DEF V5Inv, TypeOK, Stream, OutInv
  <2>4. Len(u) = u[1].of.length
    BY <2>2, ZenonT(40)
  <2>5. wire'[c] = v /\ \A d \in Clients : d # c => wire'[d] = wire[d]
    BY <2>1, <2>3
  <2>6. Outgoing(c)' = v \o q
    BY <1>1, <2>5 DEF Outgoing
  <2> HIDE DEF n, u, v, q, w
  <2>7. Placed(u)
    BY <2>2, <2>3, PacketFacts, FrontAndRest
  <2> DEFINE r == v \o q
  <2>8. r \in Seq(Byte) /\ Outgoing(c) = u \o r /\ Outgoing(c)' = r
    BY <2>2, <2>6
  <2> HIDE DEF r
  <2>9. PacketsIn(u \o r) # <<>> /\ Tail(PacketsIn(u \o r)) = PacketsIn(r)
    BY <2>2, <2>4, <2>7, <2>8, PacketFacts, PacketLeaves
  <2>10. mailbox[c] # <<>> /\ PacketsIn(Outgoing(c)') = Tail(mailbox[c])
    BY <2>8, <2>9, Sessions
  <2>11. mailbox' = [mailbox EXCEPT ![c] = Tail(mailbox[c])]
    BY <1>1, <2>5, <2>10, MailOfOne
  <2>12. session[c] \in {"bound", "gone"}
    BY <2>3, Sessions DEF V5Inv, CMInv, Consistent
  <2>13. session' = session /\ Owner' = Owner
    BY <1>1 DEF session, Owner
  <2> QED
    BY <2>10, <2>11, <2>12, <2>13 DEF R!Receive, Owner
<1>3. CASE ~PeerRead(c)
  <2>1. wire' = wire
    BY <1>3 DEF Peer, PeerConnect, PeerSend, PeerGoes
  <2> QED
    BY <1>1, <2>1, MailStays, RelayStutters
<1> QED
  BY <1>2, <1>3

\* The freed Clients' connections are over; nobody else's is touched.
LEMMA EndRefines ==
  ASSUME V5Inv, EndOfBatch
  PROVE  \E S \in SUBSET Clients : R!Discard(S)
<1> DEFINE S == cmgr.invalid
<1>1. Listed(cmgr) = S /\ S \subseteq cmgr.live /\ S \subseteq Clients
  BY FreeInv DEF V5Inv, CMInv, CMState, ListedOnce
<1>2. /\ cmgr' = free_invalid_clients(cmgr)
      /\ write_buffer' = [c \in Clients |-> IF c \in S THEN <<>> ELSE write_buffer[c]]
      /\ wire' = [c \in Clients |-> IF c \in S THEN <<>> ELSE wire[c]]
  BY <1>1 DEF EndOfBatch, Reset, Cleared
<1>3. /\ cmgr'.live = cmgr.live \ S
      /\ cmgr'.invalid = {}
      /\ cmgr'.managed = cmgr.managed \ S
      /\ cmgr'.client_array = cmgr.client_array
  BY <1>1, <1>2 DEF free_invalid_clients, V5Inv, CMInv, CMState
<1>4. \A c \in S : session[c] = "gone"
  BY <1>1, Sessions
<1>5. session' = [c \in Clients |-> IF c \in S THEN "absent" ELSE session[c]]
  BY <1>1, <1>3 DEF session
<1>6. <<>> \o <<>> = <<>>
  BY EmptySeq, ConcatEmptySeq
<1>7. mailbox' = [c \in Clients |-> IF c \in S THEN <<>> ELSE mailbox[c]]
  <2>1. \A c \in Clients : Outgoing(c)' = IF c \in S THEN <<>> ELSE Outgoing(c)
    BY <1>2, <1>6 DEF Outgoing
  <2>2. mailbox' = [c \in Clients |-> PacketsIn(Outgoing(c)')]
    BY DEF mailbox
  <2>3. \A c \in Clients : PacketsIn(Outgoing(c)') = IF c \in S THEN <<>> ELSE mailbox[c]
    BY <2>1, PacketsInNothing, Sessions
  <2> QED
    BY <2>2, <2>3
<1>8. Owner' = Owner
  BY <1>3 DEF Owner
<1>9. R!Discard(S)
  BY <1>4, <1>5, <1>7, <1>8 DEF R!Discard, Owner
<1> QED
  BY <1>1, <1>9

LEMMA StepRefines == V5Inv /\ CMInv(cmgr)' /\ [Next]_vars => [R!Next]_(R!relayVars)
<1> SUFFICES ASSUME V5Inv, CMInv(cmgr)', [Next]_vars
             PROVE  R!Next \/ UNCHANGED <<session, Owner, mailbox>>
  BY DEF R!relayVars, Owner
<1>1. ASSUME ~Overrun, NEW e \in cev, handle_event(e)
      PROVE  R!Next \/ UNCHANGED <<session, Owner, mailbox>>
  <2>1. CASE accept_connection(e)
    BY <2>1, AcceptRefines DEF R!Next
  <2>2. CASE StaleEvent(e) \/ ReadPartial(e) \/ WriteNothing(e)
    <3>1. cmgr' = cmgr /\ write_buffer' = write_buffer /\ wire' = wire
      BY <2>2 DEF StaleEvent, ReadPartial, WriteNothing, Reads, peerVars, writeVars
    <3> QED
      BY <3>1, MailStays, RelayStutters
  <2>3. CASE ReadFails(e) \/ ReadHello(e)
    BY <1>1, <2>3, ReadRefines DEF R!Next
  <2>4. CASE ReadData(e)
    BY <1>1, <2>4, DataRefines DEF R!Next
  <2>5. CASE WriteSome(e)
    BY <2>5, WriteRefines
  <2>6. CASE WriteFails(e)
    <3>1. mailbox' = mailbox
      BY <2>6, MailStays DEF WriteFails, writeVars
    <3>2. e.ptr \in Clients /\ R!Hangup(e.ptr)
      BY <2>6, <3>1, WriteMeetsContract, RejectHangsUp
    <3> QED
      BY <3>2 DEF R!Next
  <2> QED
    BY <1>1, <2>1, <2>2, <2>3, <2>4, <2>5, <2>6
       DEF handle_event, handle_read_event, handle_write_event
<1>2. CASE PollWait
  <2>1. cmgr' = cmgr /\ write_buffer' = write_buffer /\ wire' = wire
    BY <1>2 DEF PollWait, peerVars, writeVars
  <2> QED
    BY <2>1, MailStays, RelayStutters
<1>3. CASE EndOfBatch
  BY <1>3, EndRefines DEF R!Next
<1>4. ASSUME NEW c \in Clients, Peer(c)
      PROVE  R!Next \/ UNCHANGED <<session, Owner, mailbox>>
  BY <1>4, PeerRefines DEF R!Next
<1>5. CASE UNCHANGED vars
  <2>1. cmgr' = cmgr /\ write_buffer' = write_buffer /\ wire' = wire
    BY <1>5 DEF vars, serverVars, writeVars, peerVars
  <2> QED
    BY <2>1, MailStays, RelayStutters
<1> QED
  BY <1>1, <1>2, <1>3, <1>4, <1>5 DEF Next, do_poll

\* Byte by byte, the server implements the message relay: however the senders'
\* packets and the writes are cut, a packet is put once, in order and under its
\* sender's own id, into what is on its way to whoever owns the destination id
\* when its last byte is read.  It is dropped only if nobody does, or if at
\* least as many packets wait there as write_buffer holds of the longest ones
\* (V5Server!RelaySpec).
THEOREM V5ImplementsRelay == Spec => RelaySpec
<1>1. Init => R!Init
  <2> SUFFICES ASSUME Init PROVE R!Init
    OBVIOUS
  <2>1. session = [c \in Clients |-> "absent"]
    BY DEF Init, CMInit, CMInitState, session
  <2>2. Owner = [n \in Ids |-> NULL]
    BY DEF Init, CMInit, CMInitState, Owner, AllIds
  <2>3. <<>> \o <<>> = <<>>
    BY EmptySeq, ConcatEmptySeq
  <2>4. mailbox = [c \in Clients |-> <<>>]
    BY <2>3, PacketsInNothing DEF Init, Nothing, mailbox, Outgoing
  <2> QED
    BY <2>1, <2>2, <2>4 DEF R!Init, Owner
<1>2. V5Inv => CMInv(cmgr)
  BY DEF V5Inv
<1>3. V5Inv /\ V5Inv' /\ [Next]_vars => [R!Next]_(R!relayVars)
  BY <1>2, StepRefines DEF V5Inv
<1> QED
  BY <1>1, <1>3, V5Invariance, PTL DEF Spec, RelaySpec, R!Spec

=============================================================================
