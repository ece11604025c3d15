--------------------------- MODULE ClientIOProofs ---------------------------
(***************************************************************************)
(* Proofs about the I/O of a Client, for packets of any length, buffers of *)
(* any size, and any way the kernel may cut the stream into pieces: the    *)
(* reader never loses its place, no assertion of read_packet fails, and    *)
(* the bytes implement the pipe of packets.  Headers that say less than    *)
(* their own length are among the packets.                                 *)
(***************************************************************************)
EXTENDS ClientIO, QueueLemmas

\* What of write_buffer is still going to be sent.
Unsent == IF link = "open" THEN write_buffer ELSE <<>>

\* Where the reader is in its packet.  Behind a Short header nothing is known
\* but that it will not come to the end of what it asks for.
ReaderPlace ==
  /\ write_pending <= MAX_ALLOWED_WRITE_QUEUE
  /\ Len(channel) <= ChannelSize
  /\ rpc = "read_body" => read_offset = PACKET_HDR_LENGTH
  /\ rpc # "stopped" /\ read_offset >= PACKET_HDR_LENGTH =>
       /\ GET_PACKET_LENGTH(read_buffer) <= MAX_PACKET_LENGTH
       /\ ~Swallowing =>
            /\ read_offset <= GET_PACKET_LENGTH(read_buffer)
            /\ rpc = "idle" => read_offset < GET_PACKET_LENGTH(read_buffer)

\* The assertions alone are not inductive: that the body of a packet ends where
\* its header said, and another header begins there, is only so because every
\* byte behind it is in its place, back to write_buffer.  A packet is cut off
\* only with the link.
InOrder ==
  /\ Placed(Stream)
  /\ link = "open" => Finished(Stream)
  /\ read_buffer # <<>> /\ ~Swallowing => read_offset <= read_buffer[1].of.length

IOInv == TypeOK /\ ReaderPlace /\ InOrder

-----------------------------------------------------------------------------
(* The buffers. *)

LEMMA PacketFacts ==
  /\ \A p \in Packets : p.length \in Nat /\ PACKET_HDR_LENGTH <= p.length
  /\ PACKET_HDR_LENGTH \in Nat \ {0} /\ MAX_PACKET_LENGTH \in Nat
  /\ PACKET_HDR_LENGTH <= MAX_PACKET_LENGTH
  /\ Byte = Bytes(Packets)
<1>1. \A p \in Packets : p.length \in Nat /\ p.says \in Nat
  BY IOAssumption
<1>2. \A p \in Packets : p.length = IF Short(p) THEN PACKET_HDR_LENGTH ELSE p.says
  BY IOAssumption
<1> QED
  BY <1>1, <1>2, IOAssumption DEF Byte, Short

\* What the header of a packet says of it.
LEMMA SaysFacts ==
  ASSUME NEW p \in Packets
  PROVE  /\ p.says \in Nat
         /\ p.length \in Nat
         /\ Short(p) <=> p.says < PACKET_HDR_LENGTH
         /\ ~Short(p) => p.length = p.says
<1>1. p.says \in Nat /\ p.length \in Nat
  BY IOAssumption
<1>2. p.length = IF Short(p) THEN PACKET_HDR_LENGTH ELSE p.says
  BY IOAssumption
<1> QED
  BY <1>1, <1>2 DEF Short

LEMMA Regroup == \A u, v, w \in Seq(Byte) : (u \o v) \o w = u \o (v \o w)
  BY ConcatAssociative, SMTT(40)

LEMMA UnsentTyped == TypeOK => Unsent \in Seq(Byte)
  BY EmptySeq DEF TypeOK, Unsent

\* What is in read_buffer begins with one packet, and it is the header's length
\* that says how much of it is missing.
LEMMA OnePacketRead ==
  ASSUME NEW b \in Seq(Byte), Placed(b), b # <<>>
  PROVE  /\ Len(b) \in Nat \ {0}
         /\ PacketIn(b) \in Packets
         /\ PacketIn(b).length \in Nat
         /\ PACKET_HDR_LENGTH <= PacketIn(b).length
         /\ Len(b) <= b[1].of.length =>
              \A k \in 1 .. Len(b) : b[k] = [of |-> PacketIn(b), at |-> k]
         /\ Len(b) >= PACKET_HDR_LENGTH =>
              /\ GET_PACKET_LENGTH(b) = PacketIn(b).says
              /\ GET_PACKET_LENGTH(b) \in Nat
<1>1. /\ b[1].of \in Packets /\ b[1].of.length \in Nat \ {0}
      /\ Len(b) \in Nat \ {0}
      /\ \A j \in 1 .. Len(b) :
           j <= b[1].of.length => b[j] = [of |-> b[1].of, at |-> j]
  BY PacketFacts, FirstPacket
<1>2. ASSUME Len(b) <= b[1].of.length
      PROVE  \A k \in 1 .. Len(b) : b[k] = [of |-> b[1].of, at |-> k]
  <2>1. \A k \in 1 .. Len(b) : k <= b[1].of.length
    BY <1>1, <1>2
  <2> QED
    BY <1>1, <2>1
<1>3. ASSUME Len(b) >= PACKET_HDR_LENGTH PROVE GET_PACKET_LENGTH(b) = b[1].of.says
  <2>1. PACKET_HDR_LENGTH \in 1 .. Len(b) /\ PACKET_HDR_LENGTH <= b[1].of.length
    BY <1>1, <1>3, PacketFacts
  <2>2. b[PACKET_HDR_LENGTH] = [of |-> b[1].of, at |-> PACKET_HDR_LENGTH]
    BY <1>1, <2>1, Zenon
  <2>3. b[PACKET_HDR_LENGTH].of = b[1].of
    BY <2>2
  <2> QED
    BY <2>3 DEF GET_PACKET_LENGTH
<1>4. b[1].of.says \in Nat
  BY <1>1, SaysFacts
<1> QED
  BY <1>1, <1>2, <1>3, <1>4, PacketFacts DEF PacketIn

\* The two halves of the bytes that are read: those that were there and the
\* first n from the channel; the stream stays as it was.
LEMMA ReadingMoves ==
  ASSUME TypeOK, NEW n \in 0 .. Len(channel)
  PROVE  LET b == read_buffer \o SubSeq(channel, 1, n)
             r == SubSeq(channel, n + 1, Len(channel))
         IN  /\ b \in Seq(Byte) /\ Len(b) = read_offset + n
             /\ read_offset \in Nat
             /\ r \in Seq(Byte)
             /\ Stream = b \o (r \o Unsent)
             /\ Stream = b \o r \o Unsent
             /\ r \o Unsent \in Seq(Byte)
             /\ read_buffer # <<>> => b[1] = read_buffer[1]
<1> DEFINE a == SubSeq(channel, 1, n)
           b == read_buffer \o a
           r == SubSeq(channel, n + 1, Len(channel))
<1>1. /\ read_buffer \in Seq(Byte) /\ channel \in Seq(Byte) /\ Unsent \in Seq(Byte)
      /\ read_offset \in Nat
  BY UnsentTyped, LenProperties DEF TypeOK, read_offset
<1>2. a \in Seq(Byte) /\ r \in Seq(Byte) /\ Len(a) = n
  BY <1>1, SeqFacts, SubSeqLength
<1>3. b \o r = read_buffer \o channel
  BY <1>1, Moving
<1> HIDE DEF a, r
<1>4. b \in Seq(Byte) /\ Len(b) = read_offset + n /\ r \o Unsent \in Seq(Byte)
  BY <1>1, <1>2, ConcatProperties DEF read_offset
<1>5. read_buffer # <<>> => b[1] = read_buffer[1]
  <2>1. read_buffer # <<>> => 1 <= Len(read_buffer) /\ 1 \in 1 .. Len(read_buffer) + Len(a)
    BY <1>1, <1>2, EmptySeq, LenProperties
  <2> QED
    BY <1>1, <1>2, <2>1, ConcatProperties
<1> HIDE DEF b
<1>6. (b \o r) \o Unsent = b \o (r \o Unsent)
  BY <1>1, <1>2, <1>4, ConcatAssociative, SMTT(60)
<1>7. Stream = (b \o r) \o Unsent
  BY <1>3 DEF Stream, Unsent
<1> QED
  BY <1>1, <1>2, <1>4, <1>5, <1>6, <1>7 DEF a, b, r

\* In every state: read_buffer is in order.
LEMMA ReadBufferPlaced ==
  ASSUME IOInv
  PROVE  /\ read_buffer \in Seq(Byte) /\ read_offset \in Nat
         /\ Placed(read_buffer)
         /\ read_buffer = <<>> <=> read_offset = 0
<1>1. /\ read_buffer \in Seq(Byte) /\ channel \in Seq(Byte) /\ Unsent \in Seq(Byte)
  BY UnsentTyped DEF IOInv, TypeOK
<1>2. Stream = read_buffer \o (channel \o Unsent) /\ channel \o Unsent \in Seq(Byte)
  <2>1. Stream = (read_buffer \o channel) \o Unsent
    BY DEF Stream, Unsent
  <2> QED
    BY <1>1, <2>1, ConcatAssociative, ConcatProperties, SMTT(40)
<1>3. Placed(read_buffer)
  BY <1>1, <1>2, PacketFacts, FrontAndRest DEF IOInv, InOrder
<1> QED
  BY <1>1, <1>3, EmptySeq, LenProperties DEF read_offset

-----------------------------------------------------------------------------
(* The reader. *)

\* The packet that is being read is what its header says.
LEMMA ReadBufferFacts ==
  ASSUME IOInv, read_buffer # <<>>
  PROVE  /\ PacketIn(read_buffer) \in Packets
         /\ PacketIn(read_buffer).length \in Nat
         /\ PACKET_HDR_LENGTH <= PacketIn(read_buffer).length
         /\ ~Swallowing => read_offset <= PacketIn(read_buffer).length
         /\ read_offset >= PACKET_HDR_LENGTH =>
              LET g == GET_PACKET_LENGTH(read_buffer)
              IN  /\ g \in Nat
                  /\ Swallowing <=> g < PACKET_HDR_LENGTH
                  /\ ~Swallowing => g = PacketIn(read_buffer).length
<1>1. read_buffer \in Seq(Byte) /\ Placed(read_buffer)
  BY ReadBufferPlaced
<1>2. /\ PacketIn(read_buffer) \in Packets
      /\ PacketIn(read_buffer).length \in Nat
      /\ PACKET_HDR_LENGTH <= PacketIn(read_buffer).length
      /\ read_offset >= PACKET_HDR_LENGTH =>
           GET_PACKET_LENGTH(read_buffer) = PacketIn(read_buffer).says
  BY <1>1, OnePacketRead DEF read_offset
<1>3. ~Swallowing => read_offset <= PacketIn(read_buffer).length
  BY DEF IOInv, InOrder, PacketIn
<1> QED
  BY <1>2, <1>3, SaysFacts DEF Swallowing

\* How much is missing is what the header or the length in it says; behind a
\* Short header it is more than there ever will be.
LEMMA MissingFacts ==
  ASSUME IOInv, Reading
  PROVE  /\ Missing \in Nat
         /\ read_offset < PACKET_HDR_LENGTH => read_offset + Missing = PACKET_HDR_LENGTH
         /\ read_offset >= PACKET_HDR_LENGTH => read_buffer # <<>>
         /\ Swallowing => Missing > Len(channel) /\ HasBody
         /\ read_offset >= PACKET_HDR_LENGTH /\ ~Swallowing =>
              /\ read_offset + Missing = PacketIn(read_buffer).length
              /\ PacketIn(read_buffer).length <= MAX_PACKET_LENGTH
              /\ HasBody <=> Missing # 0
         /\ read_buffer # <<>> /\ ~Swallowing =>
              /\ PacketIn(read_buffer) \in Packets
              /\ read_offset + Missing <= PacketIn(read_buffer).length
<1>1. /\ read_buffer \in Seq(Byte) /\ read_offset \in Nat
      /\ read_buffer = <<>> <=> read_offset = 0
  BY ReadBufferPlaced
<1>2. CASE read_offset < PACKET_HDR_LENGTH
  <2>1. Missing = PACKET_HDR_LENGTH - read_offset
    BY <1>2 DEF Missing
  <2>2. ~(read_offset >= PACKET_HDR_LENGTH) /\ ~Swallowing
    BY <1>1, <1>2, PacketFacts DEF Swallowing
  <2>3. Missing \in Nat /\ read_offset + Missing = PACKET_HDR_LENGTH
    BY <1>1, <1>2, <2>1, PacketFacts
  <2> QED
    BY <1>2, <2>2, <2>3, ReadBufferFacts
<1>3. CASE ~(read_offset < PACKET_HDR_LENGTH)
  <2> DEFINE g == GET_PACKET_LENGTH(read_buffer)
             l == PacketIn(read_buffer).length
  <2>1. read_offset >= PACKET_HDR_LENGTH /\ read_buffer # <<>>
    BY <1>1, <1>3, PacketFacts
  <2>2. /\ g \in Nat /\ g <= MAX_PACKET_LENGTH
        /\ Swallowing <=> g < PACKET_HDR_LENGTH
        /\ ~Swallowing => g = l /\ read_offset <= g
        /\ rpc = "idle" /\ ~Swallowing => read_offset < g
        /\ rpc = "read_body" => read_offset = PACKET_HDR_LENGTH
        /\ rpc \in {"idle", "read_body"}
        /\ PacketIn(read_buffer) \in Packets
    BY <2>1, ReadBufferFacts DEF IOInv, TypeOK, ReaderPlace, Reading
  <2>3. /\ Missing = IF read_offset <= g THEN g - read_offset ELSE (g + UINT32) - read_offset
        /\ HasBody <=> g # PACKET_HDR_LENGTH
    BY <1>3, <2>1 DEF Missing, Minus, HasBody
  <2>4. /\ Len(channel) \in Nat /\ Len(channel) <= ChannelSize
        /\ ~(read_offset > MAX_PACKET_LENGTH)
    BY LenProperties DEF IOInv, TypeOK, ReaderPlace, Reading, Overrun
  <2>5. /\ UINT32 \in Nat /\ ChannelSize \in Nat
        /\ MAX_PACKET_LENGTH + ChannelSize < UINT32
    BY IOAssumption
  <2> HIDE DEF g, l
  <2>6. CASE Swallowing
    <3>1. Missing = (g + UINT32) - read_offset
      BY <1>1, <2>1, <2>2, <2>3, <2>6, PacketFacts
    <3>2. Missing \in Nat /\ Missing > Len(channel) /\ HasBody
      BY <1>1, <2>2, <2>3, <2>4, <2>5, <2>6, <3>1, PacketFacts
    <3> QED
      BY <1>3, <2>1, <2>6, <3>2
  <2>7. CASE ~Swallowing
    <3>1. Missing = g - read_offset /\ Missing \in Nat /\ read_offset + Missing = g
      BY <1>1, <2>2, <2>3, <2>7
    <3>2. HasBody <=> Missing # 0
      BY <1>1, <2>1, <2>2, <2>3, <2>7, <3>1, PacketFacts
    <3> QED
      BY <1>3, <2>1, <2>2, <2>7, <3>1, <3>2 DEF l
  <2> QED
    BY <2>6, <2>7
<1> QED
  BY <1>2, <1>3

\* After n bytes were read and are kept: no more of the packet is there than
\* there is of it, but behind a Short header.
LEMMA ReadingKeeps ==
  ASSUME IOInv, Reading, NEW n \in Nat, n <= Missing, n <= Len(channel),
         n # 0,
         NEW b, b = read_buffer \o SubSeq(channel, 1, n)
  PROVE  /\ b \in Seq(Byte) /\ b # <<>> /\ Placed(b)
         /\ Len(b) = read_offset + n
         /\ read_offset \in Nat
         /\ ~Swallowing => Len(b) <= b[1].of.length
         /\ read_buffer # <<>> => PacketIn(b) = PacketIn(read_buffer)
<1>0. n \in 0 .. Len(channel)
  BY LenProperties DEF IOInv, TypeOK
<1> DEFINE r == SubSeq(channel, n + 1, Len(channel))
<1>1. /\ b \in Seq(Byte) /\ Len(b) = read_offset + n
      /\ read_offset \in Nat
      /\ Stream = b \o (r \o Unsent)
      /\ r \o Unsent \in Seq(Byte)
      /\ read_buffer # <<>> => b[1] = read_buffer[1]
  BY <1>0, ReadingMoves DEF IOInv
<1> HIDE DEF r
<1>2. Placed(b)
  BY <1>1, PacketFacts, FrontAndRest DEF IOInv, InOrder
<1>3. b # <<>> /\ Len(b) \in Nat \ {0}
  <2>1. Len(b) \in Nat \ {0}
    BY <1>1
  <2> QED
    BY <2>1, EmptySeq
<1>4. read_buffer # <<>> => PacketIn(b) = PacketIn(read_buffer)
  BY <1>1 DEF PacketIn
<1>5. ASSUME ~Swallowing PROVE Len(b) <= b[1].of.length
  <2>1. CASE read_buffer # <<>>
    <3>1. read_offset + Missing <= PacketIn(read_buffer).length /\ Missing \in Nat
          /\ PacketIn(read_buffer) \in Packets
      BY <1>5, <2>1, MissingFacts
    <3>2. read_offset + n <= PacketIn(read_buffer).length
      BY <1>1, <3>1, PacketFacts
    <3> QED
      BY <1>1, <1>4, <2>1, <3>2 DEF PacketIn
  <2>2. CASE read_buffer = <<>>
    <3>1. read_offset = 0
      BY <2>2, ReadBufferPlaced
    <3>2. Missing = PACKET_HDR_LENGTH
      BY <3>1, MissingFacts, PacketFacts
    <3>3. b[1].of \in Packets /\ b[1].of.length \in Nat
      BY <1>1, <1>2, <1>3, PacketFacts, FirstPacket
    <3>4. n <= PACKET_HDR_LENGTH /\ PACKET_HDR_LENGTH <= b[1].of.length
      BY <3>2, <3>3, PacketFacts
    <3> QED
      BY <1>1, <3>1, <3>3, <3>4, PacketFacts
  <2> QED
    BY <2>1, <2>2
<1> QED
  BY <1>1, <1>2, <1>3, <1>4, <1>5

\* A full packet is taken out, whatever is made of it.
LEMMA CompleteStream ==
  ASSUME TypeOK, NEW r \in Seq(Byte), read_buffer' = <<>>, channel' = r,
         UNCHANGED <<write_buffer, link>>
  PROVE  Stream' = r \o Unsent /\ r \o Unsent \in Seq(Byte)
<1>1. Stream' = (<<>> \o r) \o Unsent
  BY DEF Stream, Unsent
<1>2. <<>> \o r = r
  BY ConcatEmptySeq
<1> QED
  BY <1>1, <1>2, UnsentTyped, ConcatProperties

LEMMA CompletePreserves ==
  ASSUME IOInv, Reading,
         NEW b \in Seq(Byte), b # <<>>, Placed(b), Len(b) = PacketIn(b).length,
         NEW r \in Seq(Byte), Len(r) <= ChannelSize, Stream = b \o (r \o Unsent),
         Complete(b), channel' = r,
         UNCHANGED <<write_buffer, wpc, link, mode>>
  PROVE  IOInv'
<1>1. PacketIn(b) \in Packets
  BY PacketFacts, FirstPacket DEF PacketIn
<1>2. TypeOK'
  <2>1. <<>> \in Seq(Byte)
    BY EmptySeq
  <2>2. Identity(PacketIn(b)) \in Ids \cup {UNIDENTIFIED_CLIENT}
    BY <1>1, IOAssumption DEF Identity, IOInv, TypeOK
  <2>3. /\ got' \in Packets \cup {NULL} /\ err' \in Codes
        /\ rpc' \in {"idle", "read_body", "stopped"}
    BY <1>1 DEF Complete, validate_packet, Return, Codes
  <2> QED
    BY <2>1, <2>2, <2>3 DEF IOInv, TypeOK, Complete
<1>3. read_buffer' = <<>> /\ Len(<<>>) = 0 /\ rpc' \in {"idle", "stopped"}
  BY EmptySeq DEF Complete, validate_packet, Return
<1>4. ReaderPlace'
  BY <1>3, PacketFacts
  DEF IOInv, TypeOK, ReaderPlace, read_offset, write_pending
<1>5. Stream' = r \o Unsent /\ r \o Unsent \in Seq(Byte)
  BY <1>3, CompleteStream DEF IOInv
<1>6. Placed(r \o Unsent) /\ (Finished(Stream) => Finished(r \o Unsent))
  BY <1>5, PacketFacts, FrontAndRest DEF IOInv, InOrder, PacketIn
<1>7. InOrder'
  BY <1>3, <1>5, <1>6 DEF IOInv, InOrder
<1> QED
  BY <1>2, <1>4, <1>7 DEF IOInv

\* Bytes are read and kept: the stream is what it was.
LEMMA ReadingStream ==
  ASSUME TypeOK, NEW n \in 0 .. Len(channel),
         read_buffer' = read_buffer \o SubSeq(channel, 1, n),
         channel' = SubSeq(channel, n + 1, Len(channel)),
         UNCHANGED <<write_buffer, link>>
  PROVE  UNCHANGED Stream
<1>1. Stream = (read_buffer' \o channel') \o Unsent
  BY ReadingMoves
<1> QED
  BY <1>1 DEF Stream, Unsent

LEMMA ReadingPreserves ==
  ASSUME IOInv, Reading, NEW n \in Nat, n <= Missing, n <= Len(channel),
         n # 0,
         read_buffer' = read_buffer \o SubSeq(channel, 1, n),
         channel' = SubSeq(channel, n + 1, Len(channel)),
         UNCHANGED <<write_buffer, wpc, link, mode, id>>
  PROVE  /\ InOrder' /\ read_buffer' \in Seq(Byte) /\ channel' \in Seq(Byte)
         /\ Len(channel') <= ChannelSize
         /\ read_offset' = read_offset + n
         /\ read_buffer # <<>> => PacketIn(read_buffer)' = PacketIn(read_buffer)
         /\ Swallowing => Swallowing'
<1>1. n \in 0 .. Len(channel) /\ Len(channel) \in Nat /\ Len(channel) <= ChannelSize
  BY LenProperties DEF IOInv, TypeOK, ReaderPlace
<1>2. read_buffer' \in Seq(Byte) /\ channel' \in Seq(Byte)
  BY <1>1, ReadingMoves DEF IOInv
<1>3. Stream' = Stream
  BY <1>1, ReadingStream DEF IOInv
<1>4. /\ Len(read_buffer') = read_offset + n /\ read_offset \in Nat
      /\ ~Swallowing => Len(read_buffer') <= read_buffer'[1].of.length
      /\ read_buffer # <<>> => PacketIn(read_buffer') = PacketIn(read_buffer)
  BY ReadingKeeps
<1>5. Len(channel') = Len(channel) - n
  BY <1>1, SubSeqLength DEF IOInv, TypeOK
<1>6. Len(channel') <= ChannelSize
  BY <1>1, <1>5, IOAssumption
<1>7. read_offset' = read_offset + n /\ PacketIn(read_buffer)' = PacketIn(read_buffer')
  BY <1>4 DEF read_offset, PacketIn
<1>8. Swallowing => Swallowing'
  <2> SUFFICES ASSUME Swallowing PROVE Swallowing'
    OBVIOUS
  <2>1. read_offset >= PACKET_HDR_LENGTH /\ read_buffer # <<>>
    BY MissingFacts DEF Swallowing
  <2>2. PacketIn(read_buffer)' = PacketIn(read_buffer)
    BY <1>4, <1>7, <2>1
  <2>3. read_offset' >= PACKET_HDR_LENGTH
    BY <1>4, <1>7, <2>1, PacketFacts
  <2> QED
    BY <2>2, <2>3 DEF Swallowing, Short
<1>9. InOrder'
  BY <1>3, <1>4, <1>8 DEF IOInv, InOrder, read_offset
<1> QED
  BY <1>2, <1>4, <1>6, <1>7, <1>8, <1>9

LEMMA ReadPartPreserves == ASSUME IOInv, ReadPart PROVE IOInv'
<1>1. PICK n \in 1 .. Missing - 1 :
        LET b == read_buffer \o SubSeq(channel, 1, n)
        IN  /\ ReadBytes(n, b)
            /\ read_buffer' = b
            /\ Return(NULL, "EAGAIN")
            /\ UNCHANGED <<writerVars, link, mode, id>>
  BY DEF ReadPart
<1>2. /\ Reading /\ n <= Len(channel)
      /\ read_buffer' = read_buffer \o SubSeq(channel, 1, n)
      /\ channel' = SubSeq(channel, n + 1, Len(channel))
      /\ got' = NULL /\ err' = "EAGAIN" /\ rpc' = "idle"
      /\ UNCHANGED <<write_buffer, wpc, link, mode, id>>
  BY <1>1 DEF ReadBytes, Return, writerVars
<1>3. Missing \in Nat /\ n \in Nat /\ n # 0 /\ n < Missing
  BY <1>2, MissingFacts
<1>4. n <= Missing
  BY <1>3
<1>5. /\ InOrder' /\ read_buffer' \in Seq(Byte) /\ channel' \in Seq(Byte)
      /\ Len(channel') <= ChannelSize
      /\ read_offset' = read_offset + n
      /\ read_buffer # <<>> => PacketIn(read_buffer)' = PacketIn(read_buffer)
      /\ Swallowing => Swallowing'
  BY <1>2, <1>3, <1>4, ReadingPreserves
<1>6. TypeOK'
  BY <1>2, <1>5 DEF IOInv, TypeOK, Codes
<1> DEFINE b == read_buffer \o SubSeq(channel, 1, n)
<1>7. /\ b \in Seq(Byte) /\ b # <<>> /\ Placed(b)
      /\ Len(b) = read_offset + n /\ read_offset \in Nat
      /\ read_buffer' = b
      /\ Len(b) >= PACKET_HDR_LENGTH => GET_PACKET_LENGTH(b) = PacketIn(b).says
  <2>1. /\ b \in Seq(Byte) /\ b # <<>> /\ Placed(b)
        /\ Len(b) = read_offset + n /\ read_offset \in Nat
    BY <1>2, <1>3, <1>4, ReadingKeeps
  <2> HIDE DEF b
  <2> QED
    BY <1>2, <2>1, OnePacketRead DEF b
<1> HIDE DEF b
<1>8. ASSUME Len(b) >= PACKET_HDR_LENGTH
      PROVE  /\ GET_PACKET_LENGTH(b) <= MAX_PACKET_LENGTH
             /\ Swallowing \/ Len(b) < GET_PACKET_LENGTH(b)
  <2>1. read_offset >= PACKET_HDR_LENGTH
    <3> SUFFICES ASSUME read_offset < PACKET_HDR_LENGTH PROVE FALSE
      BY <1>7, PacketFacts
    <3>1. read_offset + Missing = PACKET_HDR_LENGTH
      BY <1>2, MissingFacts
    <3> QED
      BY <1>3, <1>7, <1>8, <3>1, PacketFacts
  <2>2. read_buffer # <<>>
    BY <1>2, <2>1, MissingFacts
  <2> DEFINE g == GET_PACKET_LENGTH(read_buffer)
  <2>3. GET_PACKET_LENGTH(b) = g /\ g <= MAX_PACKET_LENGTH /\ g \in Nat
    <3>1. PacketIn(b) = PacketIn(read_buffer)
      BY <1>5, <1>7, <2>2 DEF PacketIn
    <3>2. g = PacketIn(read_buffer).says /\ g \in Nat
      BY <2>1, <2>2, ReadBufferPlaced, OnePacketRead DEF read_offset
    <3>3. g <= MAX_PACKET_LENGTH
      BY <1>2, <2>1 DEF IOInv, ReaderPlace, Reading
    <3> QED
      BY <1>7, <1>8, <3>1, <3>2, <3>3
  <2>4. ASSUME ~Swallowing PROVE Len(b) < g
    <3>1. read_offset + Missing = PacketIn(read_buffer).length
      BY <1>2, <2>1, <2>4, MissingFacts
    <3>2. g = PacketIn(read_buffer).length
      BY <2>1, <2>2, <2>4, ReadBufferFacts
    <3> HIDE DEF g
    <3> QED
      BY <1>3, <1>7, <2>3, <3>1, <3>2
  <2> QED
    BY <2>3, <2>4
<1>9. ReaderPlace'
  <2>1. /\ read_offset' = Len(b) /\ Len(b) \in Nat
        /\ GET_PACKET_LENGTH(read_buffer)' = GET_PACKET_LENGTH(b)
    BY <1>7, LenProperties DEF read_offset, GET_PACKET_LENGTH
  <2>2. write_pending' <= MAX_ALLOWED_WRITE_QUEUE
    BY <1>2 DEF IOInv, ReaderPlace, write_pending
  <2> DEFINE g == GET_PACKET_LENGTH(b)
  <2>3. Len(b) >= PACKET_HDR_LENGTH /\ ~Swallowing' => Len(b) < g /\ Len(b) <= g
    <3>1. Len(b) >= PACKET_HDR_LENGTH => g \in Nat
      BY <1>7, OnePacketRead
    <3>2. Len(b) >= PACKET_HDR_LENGTH /\ ~Swallowing' => Len(b) < g
      BY <1>5, <1>8
    <3> HIDE DEF g
    <3> QED
      BY <2>1, <3>1, <3>2
  <2> QED
    BY <1>2, <1>5, <1>8, <2>1, <2>2, <2>3 DEF ReaderPlace
<1> QED
  BY <1>5, <1>6, <1>9 DEF IOInv

LEMMA ReadHeaderPreserves == ASSUME IOInv, ReadHeader PROVE IOInv'
<1> DEFINE n == Missing
           b == read_buffer \o SubSeq(channel, 1, n)
<1>1. /\ Reading /\ n <= Len(channel)
      /\ read_offset < PACKET_HDR_LENGTH
      /\ read_buffer' = b /\ channel' = SubSeq(channel, n + 1, Len(channel))
      /\ UNCHANGED <<write_buffer, wpc, link, mode, id>>
      /\ IF GET_PACKET_LENGTH(b) > MAX_PACKET_LENGTH
           THEN Return(NULL, "EMSGSIZE")
           ELSE rpc' = "read_body" /\ UNCHANGED <<got, err>>
  BY DEF ReadHeader, ReadBytes, writerVars
<1>2. n \in Nat /\ read_offset + n = PACKET_HDR_LENGTH /\ read_offset \in Nat
  BY <1>1, MissingFacts, ReadBufferPlaced
<1>3. n # 0 /\ n <= Missing
  BY <1>1, <1>2, PacketFacts
<1> HIDE DEF n
<1>4. /\ InOrder' /\ read_buffer' \in Seq(Byte) /\ channel' \in Seq(Byte)
      /\ Len(channel') <= ChannelSize
  BY <1>1, <1>2, <1>3, ReadingPreserves
<1>5. /\ b \in Seq(Byte) /\ b # <<>> /\ Placed(b)
      /\ Len(b) = PACKET_HDR_LENGTH
  BY <1>1, <1>2, <1>3, ReadingKeeps
<1> HIDE DEF b
<1>6. TypeOK'
  BY <1>1, <1>4 DEF IOInv, TypeOK, Codes, Return
<1>7. /\ GET_PACKET_LENGTH(b) = PacketIn(b).says
      /\ GET_PACKET_LENGTH(b) \in Nat
      /\ PacketIn(b) \in Packets
  <2>1. Len(b) >= PACKET_HDR_LENGTH
    BY <1>5, PacketFacts
  <2> QED
    BY <1>5, <2>1, OnePacketRead
<1>8. ReaderPlace'
  <2> DEFINE g == GET_PACKET_LENGTH(b)
  <2>1. /\ read_offset' = PACKET_HDR_LENGTH
        /\ GET_PACKET_LENGTH(read_buffer)' = g
    BY <1>1, <1>5 DEF read_offset, GET_PACKET_LENGTH
  <2>2. write_pending' <= MAX_ALLOWED_WRITE_QUEUE
    BY <1>1 DEF IOInv, ReaderPlace, write_pending
  <2>3. ~Swallowing' => PACKET_HDR_LENGTH <= g
    <3>1. Swallowing' <=> Short(PacketIn(b))
      <4>1. PacketIn(read_buffer)' = PacketIn(b)
        BY <1>1 DEF PacketIn
      <4> QED
        BY <2>1, <4>1, PacketFacts DEF Swallowing, Short
    <3> QED
      BY <1>7, <3>1, SaysFacts, PacketFacts
  <2>4. \/ rpc' = "stopped"
        \/ rpc' = "read_body" /\ ~(g > MAX_PACKET_LENGTH)
    BY <1>1 DEF Return
  <2>5. g \in Nat
    BY <1>7
  <2> HIDE DEF g
  <2>6. rpc' # "stopped" => rpc' = "read_body" /\ g <= MAX_PACKET_LENGTH
    BY <2>4, <2>5, PacketFacts
  <2> QED
    BY <1>4, <2>1, <2>2, <2>3, <2>6 DEF ReaderPlace
<1> QED
  BY <1>4, <1>6, <1>8 DEF IOInv

LEMMA ReadBodyPreserves == ASSUME IOInv, ReadBody PROVE IOInv'
<1> DEFINE n == Missing
           b == read_buffer \o SubSeq(channel, 1, n)
           r == SubSeq(channel, n + 1, Len(channel))
<1>1. /\ Reading /\ HasBody /\ n <= Len(channel)
      /\ read_offset >= PACKET_HDR_LENGTH
      /\ Complete(b) /\ channel' = r
      /\ UNCHANGED <<write_buffer, wpc, link, mode>>
  BY DEF ReadBody, ReadBytes, writerVars
<1>2. /\ n \in Nat /\ n # 0 /\ n <= Missing
      /\ read_offset + n = PacketIn(read_buffer).length
      /\ read_buffer # <<>>
  <2>1. Len(channel) \in Nat
    BY LenProperties DEF IOInv, TypeOK
  <2>2. ~Swallowing
    BY <1>1, <2>1, MissingFacts
  <2> QED
    BY <1>1, <2>2, MissingFacts
<1> HIDE DEF n
<1>3. n \in 0 .. Len(channel)
  BY <1>1, <1>2, LenProperties DEF IOInv, TypeOK
<1>4. /\ b \in Seq(Byte) /\ b # <<>> /\ Placed(b)
      /\ Len(b) = read_offset + n /\ PacketIn(b) = PacketIn(read_buffer)
  BY <1>1, <1>2, ReadingKeeps
<1>5. r \in Seq(Byte) /\ Stream = b \o (r \o Unsent) /\ Len(r) = Len(channel) - n
  BY <1>3, ReadingMoves, SubSeqLength DEF IOInv, TypeOK
<1> HIDE DEF b, r
<1>6. Len(b) = PacketIn(b).length
  BY <1>2, <1>4
<1>7. Len(r) <= ChannelSize
  BY <1>2, <1>3, <1>5, IOAssumption DEF IOInv, ReaderPlace
<1> QED
  BY <1>1, <1>4, <1>5, <1>6, <1>7, CompletePreserves

\* A packet without a body is there as soon as its header is.
LEMMA EmptyBodyRead ==
  ASSUME IOInv, EmptyBody
  PROVE  /\ Reading /\ Complete(read_buffer)
         /\ UNCHANGED <<write_buffer, wpc, channel, link, mode>>
         /\ read_buffer \in Seq(Byte) /\ read_buffer # <<>> /\ Placed(read_buffer)
         /\ Len(read_buffer) = PacketIn(read_buffer).length
         /\ PacketIn(read_buffer).length <= MAX_PACKET_LENGTH
         /\ channel \in Seq(Byte) /\ Len(channel) <= ChannelSize
         /\ Stream = read_buffer \o (channel \o Unsent)
<1>1. /\ rpc = "read_body" /\ ~HasBody /\ Complete(read_buffer)
      /\ UNCHANGED <<write_buffer, wpc, channel, link, mode>>
  BY DEF EmptyBody, writerVars
<1>2. read_offset = PACKET_HDR_LENGTH /\ read_offset >= PACKET_HDR_LENGTH
  BY <1>1, PacketFacts DEF IOInv, ReaderPlace
<1>3. Reading
  BY <1>1, <1>2, PacketFacts DEF Reading, Overrun
<1>4. /\ read_buffer \in Seq(Byte) /\ read_buffer # <<>> /\ Placed(read_buffer)
  BY <1>2, ReadBufferPlaced, PacketFacts
<1>5. ~Swallowing /\ Missing = 0 /\ Missing \in Nat
  BY <1>1, <1>2, <1>3, MissingFacts
<1>6. /\ Len(read_buffer) = PacketIn(read_buffer).length
      /\ PacketIn(read_buffer).length <= MAX_PACKET_LENGTH
  BY <1>2, <1>3, <1>5, MissingFacts, PacketFacts DEF read_offset
<1>7. /\ channel \in Seq(Byte) /\ Unsent \in Seq(Byte) /\ Len(channel) <= ChannelSize
  BY UnsentTyped DEF IOInv, TypeOK, ReaderPlace
<1>8. Stream = read_buffer \o (channel \o Unsent)
  <2>1. Stream = (read_buffer \o channel) \o Unsent
    BY DEF Stream, Unsent
  <2> QED
    BY <1>4, <1>7, <2>1, ConcatAssociative, SMTT(40)
<1> QED
  BY <1>1, <1>3, <1>4, <1>6, <1>7, <1>8

LEMMA EmptyBodyPreserves == ASSUME IOInv, EmptyBody PROVE IOInv'
  BY EmptyBodyRead, CompletePreserves

LEMMA ReadNothingPreserves == ASSUME IOInv, ReadNothing PROVE IOInv'
<1>1. /\ Reading /\ HasBody
      /\ got' = NULL /\ err' \in Codes
      /\ \/ rpc' = "idle" /\ rpc = "read_body"
         \/ rpc' = "stopped"
      /\ UNCHANGED <<write_buffer, wpc, channel, link, read_buffer, mode, id>>
  BY DEF ReadNothing, Return, writerVars, Codes
<1>2. UNCHANGED Swallowing
  BY <1>1 DEF Swallowing, read_offset, PacketIn, Short
<1>3. TypeOK' /\ InOrder'
  BY <1>1, <1>2 DEF IOInv, TypeOK, InOrder, Stream, read_offset
<1>4. ASSUME rpc' # "stopped", read_offset >= PACKET_HDR_LENGTH, ~Swallowing
      PROVE  read_offset < GET_PACKET_LENGTH(read_buffer)
  <2> DEFINE g == GET_PACKET_LENGTH(read_buffer)
  <2>1. read_buffer # <<>> /\ g \in Nat /\ ~(g < PACKET_HDR_LENGTH)
    BY <1>1, <1>4, MissingFacts, ReadBufferFacts
  <2>2. read_offset = PACKET_HDR_LENGTH /\ g # PACKET_HDR_LENGTH
    BY <1>1, <1>4 DEF IOInv, ReaderPlace, HasBody
  <2> HIDE DEF g
  <2> QED
    BY <2>1, <2>2, PacketFacts DEF g
<1>5. ReaderPlace'
  BY <1>1, <1>2, <1>4
  DEF IOInv, ReaderPlace, Reading, read_offset, write_pending, GET_PACKET_LENGTH
<1> QED
  BY <1>3, <1>5 DEF IOInv

-----------------------------------------------------------------------------
(* The writer. *)

\* The reader's part of the invariant, when the reader does nothing.
LEMMA ReaderKept ==
  ASSUME IOInv, UNCHANGED readerVars, InOrder',
         write_buffer' \in Seq(Byte), Len(write_buffer') <= MAX_ALLOWED_WRITE_QUEUE,
         wpc' \in {"idle", "write_data", "freed"}, channel' \in Seq(Byte),
         Len(channel') <= ChannelSize, link' \in {"open", "closed", "reset"}
  PROVE  IOInv'
  BY DEF IOInv, TypeOK, ReaderPlace, readerVars, read_offset, write_pending,
         GET_PACKET_LENGTH, Swallowing, PacketIn, Short

\* A packet goes behind the stream, or nowhere: there is no room for it, or the
\* connection is broken.
LEMMA QueueStream ==
  ASSUME TypeOK, NEW p, queue_packet(p), NEW t \in Seq(Byte), t = serialize(p)
  PROVE  IF link = "open" /\ RoomFor(p) THEN Stream' = Stream \o t /\ Stream \in Seq(Byte)
                                        ELSE UNCHANGED Stream
<1>1. /\ UNCHANGED <<read_buffer, channel, link>>
      /\ write_buffer' = IF RoomFor(p) THEN write_buffer \o t ELSE write_buffer
  BY DEF queue_packet, readerVars
<1>2. CASE link = "open" /\ RoomFor(p)
  <2> DEFINE a == read_buffer \o channel
  <2>1. a \in Seq(Byte) /\ write_buffer \in Seq(Byte)
    BY ConcatProperties DEF TypeOK
  <2>2. Stream = a \o write_buffer /\ Stream' = a \o (write_buffer \o t)
    BY <1>1, <1>2 DEF Stream
  <2> HIDE DEF a
  <2>3. (a \o write_buffer) \o t = a \o (write_buffer \o t)
    BY <2>1, Regroup, ZenonT(40)
  <2> QED
    BY <1>2, <2>1, <2>2, <2>3, ConcatProperties
<1>3. CASE ~(link = "open" /\ RoomFor(p))
  BY <1>1, <1>3 DEF Stream
<1> QED
  BY <1>2, <1>3

LEMMA QueuePreserves ==
  ASSUME IOInv, NEW p \in Packets, queue_packet(p) PROVE IOInv'
<1> DEFINE s == serialize(p)
<1>1. /\ s \in Seq(Byte) /\ Len(s) = p.length /\ Placed(s) /\ Finished(s)
  BY PacketFacts, OnePacket DEF serialize
<1>2. IF link = "open" /\ RoomFor(p) THEN Stream' = Stream \o s /\ Stream \in Seq(Byte)
                                      ELSE UNCHANGED Stream
  BY <1>1, QueueStream DEF IOInv
<1> HIDE DEF s
<1>3. /\ write_buffer \in Seq(Byte)
      /\ write_pending \in Nat /\ write_pending <= MAX_ALLOWED_WRITE_QUEUE
  BY LenProperties DEF IOInv, TypeOK, ReaderPlace, write_pending
<1>4. /\ UNCHANGED <<wpc, channel, link>> /\ UNCHANGED readerVars
      /\ write_buffer' = IF RoomFor(p) THEN write_buffer \o s ELSE write_buffer
  BY DEF queue_packet, s
<1>5. write_buffer' \in Seq(Byte) /\ Len(write_buffer') <= MAX_ALLOWED_WRITE_QUEUE
  <2>1. CASE RoomFor(p)
    <3>1. write_buffer \o s \in Seq(Byte)
          /\ Len(write_buffer \o s) = write_pending + p.length
      BY <1>1, <1>3, ConcatProperties DEF write_pending
    <3>2. Len(write_buffer \o s) <= MAX_ALLOWED_WRITE_QUEUE
      BY <1>3, <2>1, <3>1, PacketFacts DEF RoomFor
    <3> QED
      BY <1>4, <2>1, <3>1, <3>2
  <2>2. CASE ~RoomFor(p)
    BY <1>3, <1>4, <2>2 DEF write_pending
  <2> QED
    BY <2>1, <2>2
<1>6. InOrder'
  <2>1. CASE link = "open" /\ RoomFor(p)
    <3>1. Placed(Stream \o s) /\ Finished(Stream \o s)
      BY <1>1, <1>2, <2>1, PacketFacts, Joined DEF IOInv, InOrder
    <3> QED
      BY <1>2, <1>4, <2>1, <3>1 DEF IOInv, InOrder, readerVars, read_offset, Swallowing, PacketIn, Short
  <2>2. CASE ~(link = "open" /\ RoomFor(p))
    BY <1>2, <1>4, <2>2 DEF IOInv, InOrder, readerVars, read_offset, Swallowing, PacketIn, Short
  <2> QED
    BY <2>1, <2>2
<1> QED
  BY <1>4, <1>5, <1>6, ReaderKept DEF IOInv, TypeOK, ReaderPlace

\* Writing moves bytes from one part of the stream to the next.
LEMMA WriteStream == ASSUME TypeOK, WriteSome PROVE UNCHANGED Stream
<1>1. PICK n \in 1 .. write_pending :
        /\ Len(channel) + n <= ChannelSize
        /\ channel' = channel \o SubSeq(write_buffer, 1, n)
        /\ write_buffer' = Moved(n)
        /\ wpc' = IF n = write_pending THEN "idle" ELSE "write_data"
  BY DEF WriteSome
<1>2. link = "open" /\ link' = link /\ UNCHANGED readerVars
  BY DEF WriteSome
<1>3. /\ read_buffer \in Seq(Byte) /\ channel \in Seq(Byte)
      /\ write_buffer \in Seq(Byte)
      /\ write_pending \in Nat /\ write_pending = Len(write_buffer)
  BY LenProperties DEF TypeOK, write_pending
<1>4. n \in 0 .. Len(write_buffer)
  BY <1>1, <1>3
<1> DEFINE a == SubSeq(write_buffer, 1, n)
           z == SubSeq(write_buffer, n + 1, Len(write_buffer))
<1>5. a \in Seq(Byte) /\ z \in Seq(Byte)
  BY <1>3, <1>4, SeqFacts
<1>6. (channel \o a) \o z = channel \o write_buffer
  BY <1>3, <1>4, Moving
<1>7. write_buffer' = z /\ channel' = channel \o a
  BY <1>1 DEF Moved, write_pending
<1> HIDE DEF a, z
<1>8. channel' \in Seq(Byte)
  BY <1>3, <1>5, <1>7, ConcatProperties
<1>9. Stream' = (read_buffer \o channel') \o z
  BY <1>2, <1>7 DEF Stream, readerVars
<1>10. (read_buffer \o channel') \o z = read_buffer \o (channel' \o z)
  BY <1>3, <1>5, <1>8, Regroup, ZenonT(60)
<1>11. read_buffer \o (channel \o write_buffer) = (read_buffer \o channel) \o write_buffer
  BY <1>3, ConcatAssociative, SMTT(40)
<1>12. Stream = (read_buffer \o channel) \o write_buffer
  BY <1>2 DEF Stream
<1> QED
  BY <1>6, <1>7, <1>9, <1>10, <1>11, <1>12

LEMMA WriteSomePreserves == ASSUME IOInv, WriteSome PROVE IOInv'
<1>1. PICK n \in 1 .. write_pending :
        /\ Len(channel) + n <= ChannelSize
        /\ channel' = channel \o SubSeq(write_buffer, 1, n)
        /\ write_buffer' = Moved(n)
        /\ wpc' = IF n = write_pending THEN "idle" ELSE "write_data"
  BY DEF WriteSome
<1>2. link = "open" /\ link' = link /\ UNCHANGED readerVars
  BY DEF WriteSome
<1>3. /\ read_buffer \in Seq(Byte) /\ channel \in Seq(Byte)
      /\ write_buffer \in Seq(Byte)
      /\ write_pending \in Nat /\ write_pending <= MAX_ALLOWED_WRITE_QUEUE
      /\ write_pending = Len(write_buffer)
  BY LenProperties DEF IOInv, TypeOK, ReaderPlace, write_pending
<1>4. n \in 0 .. Len(write_buffer)
  BY <1>1, <1>3
<1> DEFINE a == SubSeq(write_buffer, 1, n)
           z == SubSeq(write_buffer, n + 1, Len(write_buffer))
<1>5. a \in Seq(Byte) /\ z \in Seq(Byte) /\ Len(z) = Len(write_buffer) - n
  BY <1>3, <1>4, SeqFacts, SubSeqLength
<1>6. write_buffer' = z /\ channel' = channel \o a
  BY <1>1 DEF Moved, write_pending
<1>7. Stream' = Stream
  BY WriteStream DEF IOInv
<1> HIDE DEF a, z
<1>8. channel' \in Seq(Byte)
  BY <1>3, <1>5, <1>6, ConcatProperties
<1>9. InOrder'
  BY <1>2, <1>7 DEF IOInv, InOrder, readerVars, read_offset, Swallowing, PacketIn, Short
<1>10. Len(write_buffer') <= MAX_ALLOWED_WRITE_QUEUE
  BY <1>1, <1>3, <1>5, <1>6, IOAssumption
<1>11. wpc' \in {"idle", "write_data", "freed"} /\ link' \in {"open", "closed", "reset"}
  BY <1>1, <1>2
<1>12. Len(channel') <= ChannelSize
  <2>1. Len(SubSeq(write_buffer, 1, n)) = n
    BY <1>3, <1>4, SubSeqLength
  <2>2. Len(channel \o SubSeq(write_buffer, 1, n)) = Len(channel) + n
    BY <1>3, <1>4, <2>1, SeqFacts, ConcatProperties
  <2> QED
    BY <1>1, <2>2
<1> QED
  BY <1>2, <1>5, <1>6, <1>8, <1>9, <1>10, <1>11, <1>12, ReaderKept

\* The stream loses its end with the link.
LEMMA CutStream ==
  ASSUME TypeOK, link = "open", link' # "open", UNCHANGED read_buffer,
         NEW n \in 0 .. Len(channel), channel' = SubSeq(channel, 1, n)
  PROVE  \E t \in Seq(Byte) : Stream' \in Seq(Byte) /\ Stream = Stream' \o t
<1> DEFINE a == SubSeq(channel, 1, n)
           z == SubSeq(channel, n + 1, Len(channel))
<1>1. /\ read_buffer \in Seq(Byte) /\ channel \in Seq(Byte)
      /\ write_buffer \in Seq(Byte)
  BY DEF TypeOK
<1>2. a \in Seq(Byte) /\ z \in Seq(Byte)
  BY <1>1, SeqFacts
<1>3. (read_buffer \o a) \o z = read_buffer \o channel
  BY <1>1, Moving
<1>4. channel' = a
  OBVIOUS
<1> HIDE DEF a, z
<1> DEFINE u == read_buffer \o a
<1>5. u \in Seq(Byte) /\ z \o write_buffer \in Seq(Byte)
  BY <1>1, <1>2, ConcatProperties
<1>6. Stream = u \o (z \o write_buffer)
  <2>1. Stream = (u \o z) \o write_buffer
    BY <1>3 DEF Stream
  <2> HIDE DEF u
  <2>2. u \in Seq(Byte) /\ z \in Seq(Byte) /\ write_buffer \in Seq(Byte)
    BY <1>1, <1>2, <1>5
  <2>3. (u \o z) \o write_buffer = u \o (z \o write_buffer)
    BY <2>2, Regroup, SMTT(40)
  <2> QED
    BY <2>1, <2>3
<1>7. Stream' = u
  <2>1. Stream' = u \o <<>>
    BY <1>4 DEF Stream
  <2> HIDE DEF u
  <2> QED
    BY <1>5, <2>1, ConcatEmptySeq
<1> HIDE DEF u
<1> QED
  BY <1>5, <1>6, <1>7

LEMMA CutPreserves ==
  ASSUME IOInv, link = "open", link' \in {"closed", "reset"}, UNCHANGED readerVars,
         NEW n \in 0 .. Len(channel), channel' = SubSeq(channel, 1, n),
         write_buffer' \in Seq(Byte), Len(write_buffer') <= MAX_ALLOWED_WRITE_QUEUE,
         wpc' \in {"idle", "write_data", "freed"}
  PROVE  IOInv'
<1>1. channel' \in Seq(Byte) /\ Len(channel') <= ChannelSize
  <2>1. channel \in Seq(Byte) /\ Len(channel) \in Nat /\ Len(channel) <= ChannelSize
    BY LenProperties DEF IOInv, TypeOK, ReaderPlace
  <2>2. channel' \in Seq(Byte) /\ Len(channel') = n
    BY <2>1, SeqFacts, SubSeqLength
  <2> QED
    BY <2>1, <2>2, IOAssumption
<1>2. PICK t \in Seq(Byte) : Stream' \in Seq(Byte) /\ Stream = Stream' \o t
  BY CutStream DEF IOInv, readerVars
<1>3. Placed(Stream')
  BY <1>2, PacketFacts, FrontAndRest DEF IOInv, InOrder
<1>4. InOrder'
  BY <1>3 DEF IOInv, InOrder, readerVars, read_offset, Swallowing, PacketIn, Short
<1> QED
  BY <1>1, <1>4, ReaderKept

LEMMA CutsPreserve == ASSUME IOInv, Close \/ Reset PROVE IOInv'
<1>1. /\ channel \in Seq(Byte) /\ write_buffer \in Seq(Byte)
      /\ Len(write_buffer) <= MAX_ALLOWED_WRITE_QUEUE
      /\ wpc \in {"idle", "write_data", "freed"}
      /\ Len(channel) \in 0 .. Len(channel) /\ SubSeq(channel, 1, Len(channel)) = channel
  BY LenProperties, SubSeqFull, SMTT(40) DEF IOInv, TypeOK, ReaderPlace, write_pending
<1>2. CASE Close
  <2>1. <<>> \in Seq(Byte) /\ Len(<<>>) <= MAX_ALLOWED_WRITE_QUEUE
    BY EmptySeq, IOAssumption
  <2>2. /\ link = "open" /\ link' = "closed" /\ wpc' = "freed" /\ write_buffer' = <<>>
        /\ UNCHANGED channel /\ UNCHANGED readerVars
    BY <1>2 DEF Close
  <2> QED
    BY <1>1, <2>1, <2>2, CutPreserves
<1>3. CASE Reset
  <2>1. PICK n \in 0 .. Len(channel) : channel' = SubSeq(channel, 1, n)
    BY <1>3 DEF Reset
  <2>2. /\ link = "open" /\ link' = "reset"
        /\ UNCHANGED <<write_buffer, wpc>> /\ UNCHANGED readerVars
    BY <1>3 DEF Reset, writerVars
  <2> QED
    BY <1>1, <2>1, <2>2, CutPreserves
<1> QED
  BY <1>2, <1>3

\* A write that blocks or fails moves no bytes.
LEMMA NoWritePreserves == ASSUME IOInv, WriteBlocks \/ WriteFails PROVE IOInv'
<1>1. /\ UNCHANGED <<channel, link>> /\ UNCHANGED readerVars
      /\ wpc' \in {"idle", "freed"}
      /\ write_buffer' \in {write_buffer, <<>>}
      /\ link = "open" => write_buffer' = write_buffer
  BY DEF WriteBlocks, WriteFails
<1>2. /\ write_buffer \in Seq(Byte) /\ Len(write_buffer) <= MAX_ALLOWED_WRITE_QUEUE
      /\ <<>> \in Seq(Byte) /\ Len(<<>>) <= MAX_ALLOWED_WRITE_QUEUE
  BY EmptySeq, IOAssumption DEF IOInv, TypeOK, ReaderPlace, write_pending
<1>3. InOrder'
  BY <1>1 DEF IOInv, InOrder, Stream, readerVars, read_offset, Swallowing, PacketIn, Short
<1> QED
  BY <1>1, <1>2, <1>3, ReaderKept DEF IOInv, TypeOK, ReaderPlace

-----------------------------------------------------------------------------
(* The theorems. *)

LEMMA InitInOrder == Init => IOInv
<1> SUFFICES ASSUME Init PROVE IOInv
  OBVIOUS
<1>1. <<>> \in Seq(Byte) /\ Len(<<>>) = 0
  BY EmptySeq
<1>2. TypeOK
  BY <1>1 DEF Init, TypeOK, Codes
<1>3. ReaderPlace
  BY <1>1, IOAssumption DEF Init, ReaderPlace, write_pending, read_offset
<1>4. Stream = <<>>
  <2>1. Stream = (<<>> \o <<>>) \o <<>>
    BY DEF Init, Stream
  <2> QED
    BY <1>1, <2>1, ConcatEmptySeq
<1>5. InOrder
  BY <1>1, <1>4 DEF Init, InOrder, Placed, Finished
<1> QED
  BY <1>2, <1>3, <1>5 DEF IOInv

LEMMA IOStep == IOInv /\ [Next]_vars => IOInv'
<1> SUFFICES ASSUME IOInv, [Next]_vars PROVE IOInv'
  OBVIOUS
<1>1. CASE read_packet
  BY <1>1, ReadPartPreserves, ReadHeaderPreserves, ReadBodyPreserves,
     EmptyBodyPreserves, ReadNothingPreserves DEF read_packet
<1>2. CASE write_data
  BY <1>2, WriteSomePreserves, NoWritePreserves DEF write_data
<1>3. ASSUME NEW p \in Packets, queue_packet(p) PROVE IOInv'
  BY <1>3, QueuePreserves
<1>4. CASE UNCHANGED vars
  BY <1>4 DEF vars, IOInv, TypeOK, ReaderPlace, InOrder, Stream, read_offset,
              write_pending, GET_PACKET_LENGTH, Swallowing, PacketIn, Short
<1> QED
  BY <1>1, <1>2, <1>3, <1>4, CutsPreserve DEF Next

\* The bytes of the stream are in their places in every reachable state.
THEOREM StreamInOrder == Spec => []IOInv
<1> QED
  BY InitInOrder, IOStep, PTL DEF Spec

\* The buffers are well typed; the assertions of read_packet (client.cpp:57, 70,
\* 75, 78) hold whatever the headers say; write_buffer is not overrun, and
\* read() is not asked for more than read_buffer has room for, unless a header
\* says less than its own length.
THEOREM ReaderAsserts == Spec => []Inv
<1>1. ASSUME IOInv PROVE AssertionsHold
  <2>1. /\ write_pending <= MAX_ALLOWED_WRITE_QUEUE
        /\ rpc = "read_body" => read_offset >= PACKET_HDR_LENGTH
    BY <1>1, PacketFacts DEF IOInv, ReaderPlace
  <2>2. ASSUME Reading, read_offset >= PACKET_HDR_LENGTH
        PROVE  /\ GET_PACKET_LENGTH(read_buffer) <= MAX_PACKET_LENGTH
               /\ HasBody => Missing > 0
    <3>1. GET_PACKET_LENGTH(read_buffer) <= MAX_PACKET_LENGTH
      BY <1>1, <2>2 DEF IOInv, ReaderPlace, Reading
    <3>2. Len(channel) \in Nat
      BY <1>1, LenProperties DEF IOInv, TypeOK
    <3>3. Missing \in Nat /\ (Swallowing => Missing > Len(channel))
          /\ (~Swallowing => (HasBody <=> Missing # 0))
      BY <1>1, <2>2, MissingFacts
    <3> QED
      BY <3>1, <3>2, <3>3
  <2>3. ASSUME rpc # "stopped", ~Swallowing
        PROVE  read_offset + Missing <= MAX_PACKET_LENGTH
    <3>1. read_offset \in Nat
      BY <1>1, ReadBufferPlaced
    <3>2. Reading
      <4>1. CASE read_offset < PACKET_HDR_LENGTH
        BY <2>3, <3>1, <4>1, PacketFacts DEF Reading, Overrun
      <4>2. CASE ~(read_offset < PACKET_HDR_LENGTH)
        <5> DEFINE g == GET_PACKET_LENGTH(read_buffer)
        <5>1. read_offset >= PACKET_HDR_LENGTH /\ read_buffer # <<>>
          BY <1>1, <3>1, <4>2, PacketFacts, ReadBufferPlaced
        <5>2. g \in Nat /\ g <= MAX_PACKET_LENGTH /\ read_offset <= g
          BY <1>1, <2>3, <5>1, ReadBufferFacts DEF IOInv, ReaderPlace
        <5> HIDE DEF g
        <5> QED
          BY <2>3, <3>1, <5>2, PacketFacts DEF Reading, Overrun
      <4> QED
        BY <4>1, <4>2
    <3>3. CASE read_offset < PACKET_HDR_LENGTH
      BY <1>1, <3>2, <3>3, MissingFacts, PacketFacts
    <3>4. CASE ~(read_offset < PACKET_HDR_LENGTH)
      <4>1. read_offset >= PACKET_HDR_LENGTH
        BY <3>1, <3>4, PacketFacts
      <4> QED
        BY <1>1, <2>3, <3>2, <4>1, MissingFacts
    <3> QED
      BY <3>3, <3>4
  <2> QED
    BY <2>1, <2>2, <2>3 DEF AssertionsHold
<1>2. IOInv => Inv
  BY <1>1 DEF IOInv, Inv
<1> QED
  BY <1>2, StreamInOrder, PTL

\* read_buffer holds the beginning of one packet (unless that is Short), and
\* whole packets follow it up to the place where the connection was cut.
THEOREM ReaderFramed == Spec => []Framed
<1>1. ASSUME IOInv PROVE Framed
  <2> DEFINE S == Stream
  <2>1. S \in Seq(Byte) /\ Placed(S) /\ (link = "open" => Finished(S))
    <3>1. /\ read_buffer \in Seq(Byte) /\ channel \in Seq(Byte)
          /\ Unsent \in Seq(Byte)
      BY <1>1, UnsentTyped DEF IOInv, TypeOK
    <3>2. S = (read_buffer \o channel) \o Unsent
      BY DEF Stream, Unsent
    <3> QED
      BY <1>1, <3>1, <3>2, ConcatProperties DEF IOInv, InOrder
  <2> HIDE DEF S
  <2>2. ASSUME ~Swallowing
        PROVE  \A k \in 1 .. read_offset :
                 read_buffer[k] = [of |-> read_buffer[1].of, at |-> k]
    <3>1. CASE read_buffer = <<>>
      BY <1>1, <3>1, ReadBufferPlaced
    <3>2. CASE read_buffer # <<>>
      <4>1. /\ read_buffer \in Seq(Byte) /\ Placed(read_buffer)
            /\ Len(read_buffer) <= read_buffer[1].of.length
        BY <1>1, <2>2, <3>2, ReadBufferPlaced DEF IOInv, InOrder, read_offset
      <4> QED
        BY <3>2, <4>1, OnePacketRead DEF read_offset, PacketIn
    <3> QED
      BY <3>1, <3>2
  <2>3. Len(S) \in Nat /\ (S # <<>> => Len(S) \in Nat \ {0})
    BY <2>1, EmptySeq, LenProperties
  <2>4. Packed(S)
    <3>1. S # <<>> => S[1].at = 1
      <4>1. S # <<>> => 1 \in 1 .. Len(S)
        BY <2>3
      <4> QED
        BY <2>1, <4>1, PacketFacts, NextByte
    <3>2. ASSUME NEW k \in 1 .. Len(S) - 1 PROVE Follows(S[k], S[k + 1])
      <4>1. k \in 1 .. Len(S) /\ k < Len(S)
        BY <2>3
      <4> QED
        BY <2>1, <4>1, PacketFacts, NextByte DEF Follows
    <3> QED
      BY <3>1, <3>2 DEF Packed
  <2>5. link = "open" /\ S # <<>> => S[Len(S)].at = S[Len(S)].of.length
    <3>1. S # <<>> => 1 \in 1 .. Len(S)
      BY <2>3
    <3> QED
      BY <2>1, <3>1, PacketFacts, NextByte
  <2> QED
    BY <2>2, <2>4, <2>5 DEF Framed, S
<1> QED
  BY <1>1, StreamInOrder, PTL

-----------------------------------------------------------------------------
(* The pipe of packets that the bytes implement: what each step does to the *)
(* packets on their way.                                                    *)

\* A step that does nothing to the pipe.
Unseen == UNCHANGED <<InTransit, link = "open", rpc # "stopped", got, err>>

LEMMA StreamTyped == ASSUME TypeOK PROVE Stream \in Seq(Byte)
<1>1. Stream = (read_buffer \o channel) \o Unsent
  BY DEF Stream, Unsent
<1> QED
  BY <1>1, UnsentTyped, ConcatProperties DEF TypeOK

\* A packet is sent, or it finds no room or no connection.
LEMMA QueueSends ==
  ASSUME IOInv, NEW p \in Packets, queue_packet(p)
  PROVE  P!Send(p) \/ Unseen
<1> DEFINE t == serialize(p)
<1>1. t = [k \in 1 .. p.length |-> [of |-> p, at |-> k]] /\ t \in Seq(Byte)
  BY PacketFacts, OnePacket DEF serialize
<1>2. IF link = "open" /\ RoomFor(p) THEN Stream' = Stream \o t /\ Stream \in Seq(Byte)
                                      ELSE UNCHANGED Stream
  BY <1>1, QueueStream DEF IOInv
<1> HIDE DEF t
<1>3. UNCHANGED <<link, rpc, got, err>>
  BY DEF queue_packet, readerVars
<1>4. CASE link = "open" /\ RoomFor(p)
  <2>1. p.length # 0
    BY PacketFacts
  <2>2. PacketsIn(Stream \o t) = Append(PacketsIn(Stream), p)
    BY <1>1, <1>2, <1>4, <2>1, PacketFacts, PacketJoins
  <2>3. InTransit' = Append(InTransit, p)
    BY <1>2, <1>4, <2>2 DEF InTransit
  <2> QED
    BY <1>3, <1>4, <2>3 DEF P!Send
<1>5. CASE ~(link = "open" /\ RoomFor(p))
  BY <1>2, <1>3, <1>5 DEF Unseen, InTransit
<1> QED
  BY <1>4, <1>5

\* Writing is not seen.
LEMMA WritesUnseen == ASSUME IOInv, write_data PROVE Unseen
<1>1. UNCHANGED <<link, rpc, got, err>>
  BY DEF write_data, WriteSome, WriteBlocks, WriteFails, readerVars
<1>2. UNCHANGED Stream
  <2>1. CASE WriteSome
    BY <2>1, WriteStream DEF IOInv
  <2>2. CASE WriteBlocks \/ WriteFails
    BY <2>2 DEF WriteBlocks, WriteFails, Stream, readerVars
  <2> QED
    BY <2>1, <2>2 DEF write_data
<1> QED
  BY <1>1, <1>2 DEF Unseen, InTransit

\* With the link the packets are lost whose last byte was.
LEMMA CutLoses == ASSUME IOInv, Close \/ Reset PROVE P!Cut
<1>1. /\ link = "open" /\ link' # "open" /\ UNCHANGED <<read_buffer, rpc, got, err>>
      /\ \E n \in 0 .. Len(channel) : channel' = SubSeq(channel, 1, n)
  <2>1. /\ channel \in Seq(Byte)
        /\ Len(channel) \in 0 .. Len(channel) /\ SubSeq(channel, 1, Len(channel)) = channel
    BY LenProperties, SubSeqFull, SMTT(40) DEF IOInv, TypeOK
  <2> QED
    BY <2>1 DEF Close, Reset, readerVars
<1>2. PICK n \in 0 .. Len(channel) : channel' = SubSeq(channel, 1, n)
  BY <1>1
<1>3. PICK t \in Seq(Byte) : Stream' \in Seq(Byte) /\ Stream = Stream' \o t
  BY <1>1, <1>2, CutStream DEF IOInv
<1>4. \E k \in 0 .. Len(PacketsIn(Stream' \o t)) :
        PacketsIn(Stream') = SubSeq(PacketsIn(Stream' \o t), 1, k)
  BY <1>3, PacketFacts, PacketsLost
<1>5. \E k \in 0 .. Len(InTransit) : InTransit' = SubSeq(InTransit, 1, k)
  BY <1>3, <1>4 DEF InTransit
<1> QED
  BY <1>1, <1>5 DEF P!Cut

\* A packet is taken out, whatever is made of it.
LEMMA CompleteTakes ==
  ASSUME IOInv, Reading,
         NEW b \in Seq(Byte), b # <<>>, Placed(b), Len(b) = PacketIn(b).length,
         PacketIn(b).length <= MAX_PACKET_LENGTH, ~Short(PacketIn(b)),
         NEW r \in Seq(Byte), Stream = b \o (r \o Unsent),
         Complete(b), channel' = r,
         UNCHANGED <<write_buffer, link>>
  PROVE  P!Take
<1> DEFINE p == PacketIn(b)
<1>1. /\ read_buffer' = <<>>
      /\ \/ p.kind # "HELLO" /\ got' = p /\ err' = "0" /\ rpc' = "idle"
         \/ p.kind = "HELLO" /\ got' = NULL /\ err' = "0" /\ rpc' = "idle"
         \/ got' = NULL /\ err' = "EINVAL" /\ rpc' = "stopped"
  BY DEF Complete, validate_packet, Return
<1>2. Stream' = r \o Unsent /\ r \o Unsent \in Seq(Byte)
  BY <1>1, CompleteStream DEF IOInv
<1>3. /\ PacketsIn(Stream) # <<>> /\ Head(PacketsIn(Stream)) = p
      /\ Tail(PacketsIn(Stream)) = PacketsIn(Stream')
  <2> DEFINE s == r \o Unsent
  <2>1. s \in Seq(Byte) /\ Stream = b \o s /\ Stream' = s /\ Len(b) = b[1].of.length
    BY <1>2 DEF PacketIn
  <2> HIDE DEF s
  <2>2. /\ PacketsIn(b \o s) # <<>> /\ Head(PacketsIn(b \o s)) = b[1].of
        /\ Tail(PacketsIn(b \o s)) = PacketsIn(s)
    BY <2>1, PacketFacts, PacketLeaves
  <2> QED
    BY <2>1, <2>2 DEF PacketIn
<1>4. p \in Packets /\ ~(p.says > MAX_PACKET_LENGTH) /\ ~Short(p)
  <2>1. p \in Packets
    BY PacketFacts, FirstPacket DEF PacketIn
  <2> HIDE DEF p
  <2>2. p.length <= MAX_PACKET_LENGTH /\ ~Short(p)
    BY DEF p
  <2> QED
    BY <2>1, <2>2, PacketFacts, SaysFacts
<1> HIDE DEF p
<1>5. /\ InTransit # <<>> /\ Head(InTransit) = p /\ InTransit' = Tail(InTransit)
  BY <1>3 DEF InTransit
<1> QED
  BY <1>1, <1>4, <1>5 DEF P!Take, P!Returns, Reading

LEMMA ReadPartWaits == ASSUME IOInv, ReadPart PROVE P!Wait
<1>1. PICK n \in 1 .. Missing - 1 :
        LET b == read_buffer \o SubSeq(channel, 1, n)
        IN  /\ ReadBytes(n, b)
            /\ read_buffer' = b
            /\ Return(NULL, "EAGAIN")
            /\ UNCHANGED <<writerVars, link, mode, id>>
  BY DEF ReadPart
<1>2. /\ Reading /\ n <= Len(channel)
      /\ read_buffer' = read_buffer \o SubSeq(channel, 1, n)
      /\ channel' = SubSeq(channel, n + 1, Len(channel))
      /\ got' = NULL /\ err' = "EAGAIN" /\ rpc' = "idle"
      /\ UNCHANGED <<write_buffer, link>>
  BY <1>1 DEF ReadBytes, Return, writerVars
<1>3. n \in 0 .. Len(channel)
  BY <1>2, MissingFacts, LenProperties DEF IOInv, TypeOK
<1>4. UNCHANGED Stream
  BY <1>2, <1>3, ReadingStream DEF IOInv
<1> QED
  BY <1>2, <1>4 DEF P!Wait, P!Returns, InTransit, Reading

\* A header may name a length that is too much: of the oldest packet, or of one
\* whose end was lost with the link.
LEMMA ReadHeaderOverruns == ASSUME IOInv, ReadHeader PROVE P!Overrun \/ Unseen
<1> DEFINE n == Missing
           b == read_buffer \o SubSeq(channel, 1, n)
           r == SubSeq(channel, n + 1, Len(channel))
<1>1. /\ Reading /\ rpc # "stopped" /\ n <= Len(channel)
      /\ read_offset < PACKET_HDR_LENGTH
      /\ read_buffer' = b /\ channel' = r
      /\ UNCHANGED <<write_buffer, link>>
      /\ \/ /\ GET_PACKET_LENGTH(b) > MAX_PACKET_LENGTH
            /\ got' = NULL /\ err' = "EMSGSIZE" /\ rpc' = "stopped"
         \/ rpc' = "read_body" /\ UNCHANGED <<got, err>>
  BY DEF ReadHeader, ReadBytes, Return, writerVars, Reading
<1>2. n \in Nat /\ read_offset + n = PACKET_HDR_LENGTH /\ read_offset \in Nat
  BY <1>1, MissingFacts, ReadBufferPlaced
<1>3. n # 0 /\ n <= Missing /\ n \in 0 .. Len(channel)
  BY <1>1, <1>2, PacketFacts, LenProperties DEF IOInv, TypeOK
<1> HIDE DEF n
<1>4. UNCHANGED Stream
  BY <1>1, <1>3, ReadingStream DEF IOInv
<1>5. CASE rpc' = "read_body"
  BY <1>1, <1>4, <1>5 DEF Unseen, InTransit
<1>6. CASE rpc' = "stopped"
  <2>1. /\ b \in Seq(Byte) /\ b # <<>> /\ Placed(b)
        /\ Len(b) = PACKET_HDR_LENGTH
    BY <1>1, <1>2, <1>3, ReadingKeeps
  <2>2. Stream = b \o (r \o Unsent) /\ r \o Unsent \in Seq(Byte)
    BY <1>3, ReadingMoves DEF IOInv
  <2>3. GET_PACKET_LENGTH(b) > MAX_PACKET_LENGTH
    BY <1>1, <1>6
  <2> HIDE DEF b, r
  <2>4. GET_PACKET_LENGTH(b) = b[1].of.says
    <3>1. Len(b) >= PACKET_HDR_LENGTH
      BY <2>1, PacketFacts
    <3> QED
      BY <2>1, <3>1, OnePacketRead DEF PacketIn
  <2> DEFINE s == r \o Unsent
             u == b \o s
  <2>5. u \in Seq(Byte) /\ u # <<>> /\ u[1] = b[1]
    <3>1. s \in Seq(Byte)
      BY <2>2
    <3> HIDE DEF s
    <3>2. u \in Seq(Byte) /\ u # <<>>
      BY <2>1, <3>1, ConcatProperties, ConcatEqualIffEmpty
    <3>3. 1 \in 1 .. Len(b) + Len(s) /\ 1 <= Len(b)
      BY <2>1, <3>1, PacketFacts, LenProperties
    <3> QED
      BY <2>1, <3>1, <3>2, <3>3, ConcatProperties
  <2>6. u = Stream
    BY <2>2
  <2> HIDE DEF s, u
  <2> DEFINE p == u[1].of
  <2>7. p.says > MAX_PACKET_LENGTH /\ p \in Packets
    <3>1. p \in Packets
      BY <2>5, <2>6, PacketFacts, FirstPacket DEF IOInv, InOrder
    <3> QED
      BY <2>3, <2>4, <2>5, <3>1
  <2>8. IF p.length <= Len(u)
          THEN PacketsIn(u) # <<>> /\ Head(PacketsIn(u)) = p
          ELSE PacketsIn(u) = <<>> /\ ~Finished(u)
    BY <2>5, <2>6, PacketFacts, PacketInFront DEF IOInv, InOrder
  <2> HIDE DEF p
  <2>9. IF InTransit # <<>> THEN Head(InTransit) = p ELSE link # "open"
    BY <2>6, <2>8 DEF InTransit, IOInv, InOrder
  <2> QED
    BY <1>1, <1>4, <1>6, <2>7, <2>9 DEF P!Overrun, P!Returns, InTransit
<1> QED
  BY <1>1, <1>5, <1>6

LEMMA ReadBodyTakes == ASSUME IOInv, ReadBody PROVE P!Take
<1> DEFINE n == Missing
           b == read_buffer \o SubSeq(channel, 1, n)
           r == SubSeq(channel, n + 1, Len(channel))
<1>1. /\ Reading /\ HasBody /\ n <= Len(channel)
      /\ read_offset >= PACKET_HDR_LENGTH
      /\ Complete(b) /\ channel' = r
      /\ UNCHANGED <<write_buffer, link>>
  BY DEF ReadBody, ReadBytes, writerVars
<1>2. /\ n \in Nat /\ n # 0 /\ n <= Missing
      /\ read_offset + n = PacketIn(read_buffer).length
      /\ PacketIn(read_buffer).length <= MAX_PACKET_LENGTH
      /\ read_buffer # <<>> /\ ~Short(PacketIn(read_buffer))
  <2>1. Len(channel) \in Nat
    BY LenProperties DEF IOInv, TypeOK
  <2>2. ~Swallowing
    BY <1>1, <2>1, MissingFacts
  <2> QED
    BY <1>1, <2>2, MissingFacts DEF Swallowing
<1> HIDE DEF n
<1>3. n \in 0 .. Len(channel)
  BY <1>1, <1>2, LenProperties DEF IOInv, TypeOK
<1>4. /\ b \in Seq(Byte) /\ b # <<>> /\ Placed(b)
      /\ Len(b) = read_offset + n /\ PacketIn(b) = PacketIn(read_buffer)
  BY <1>1, <1>2, ReadingKeeps
<1>5. r \in Seq(Byte) /\ Stream = b \o (r \o Unsent)
  BY <1>3, ReadingMoves DEF IOInv
<1> HIDE DEF b, r
<1>6. /\ Len(b) = PacketIn(b).length /\ PacketIn(b).length <= MAX_PACKET_LENGTH
      /\ ~Short(PacketIn(b))
  BY <1>2, <1>4
<1> QED
  BY <1>1, <1>4, <1>5, <1>6, CompleteTakes

LEMMA EmptyBodyTakes == ASSUME IOInv, EmptyBody PROVE P!Take
<1>1. ~Swallowing /\ read_offset >= PACKET_HDR_LENGTH
  <2>1. rpc = "read_body" /\ ~HasBody
    BY DEF EmptyBody
  <2>2. read_offset >= PACKET_HDR_LENGTH
    BY <2>1, PacketFacts DEF IOInv, ReaderPlace
  <2>3. Reading
    BY EmptyBodyRead
  <2> QED
    BY <2>1, <2>2, <2>3, MissingFacts
<1> QED
  BY <1>1, EmptyBodyRead, CompleteTakes DEF Swallowing

\* The stream ends in the middle of a packet, behind the last one, or behind one
\* that has no end.
LEMMA ReadNothingEnds == ASSUME IOInv, ReadNothing PROVE P!Wait \/ P!End
<1>1. /\ Reading /\ rpc # "stopped" /\ HasBody /\ channel = <<>> /\ got' = NULL
      /\ \/ link = "open" /\ err' = "EAGAIN" /\ rpc' = "idle"
         \/ link # "open" /\ err' \in {"ESHUTDOWN", "ECONNRESET"} /\ rpc' = "stopped"
      /\ UNCHANGED <<write_buffer, channel, link, read_buffer>>
  BY DEF ReadNothing, Return, writerVars, Reading
<1>2. UNCHANGED InTransit
  BY <1>1 DEF InTransit, Stream
<1>3. CASE link = "open"
  BY <1>1, <1>2, <1>3 DEF P!Wait, P!Returns
<1>4. CASE link # "open"
  <2>1. read_buffer \in Seq(Byte) /\ Placed(read_buffer) /\ read_offset \in Nat
    BY ReadBufferPlaced
  <2>2. Stream = read_buffer
    <3>1. Stream = (read_buffer \o <<>>) \o <<>>
      BY <1>1, <1>4 DEF Stream
    <3> QED
      BY <2>1, <3>1, ConcatEmptySeq
  <2>3. ASSUME read_buffer # <<>>, ~Swallowing
        PROVE  Len(read_buffer) < read_buffer[1].of.length
    <3> DEFINE l == PacketIn(read_buffer).length
               g == GET_PACKET_LENGTH(read_buffer)
    <3>1. /\ l \in Nat /\ PACKET_HDR_LENGTH <= l /\ read_offset <= l
          /\ read_offset >= PACKET_HDR_LENGTH => g = l
      BY <2>3, ReadBufferFacts
    <3>2. read_offset >= PACKET_HDR_LENGTH /\ rpc = "idle" => read_offset < g
      BY <1>1, <2>3 DEF IOInv, ReaderPlace
    <3>3. rpc = "read_body" => read_offset = PACKET_HDR_LENGTH
      BY DEF IOInv, ReaderPlace
    <3>4. read_offset >= PACKET_HDR_LENGTH => g # PACKET_HDR_LENGTH
      BY <1>1 DEF HasBody
    <3>5. rpc = "idle" \/ rpc = "read_body"
      BY <1>1 DEF IOInv, TypeOK
    <3> HIDE DEF l, g
    <3>6. read_offset < l
      BY <2>1, <3>1, <3>2, <3>3, <3>4, <3>5, PacketFacts
    <3> QED
      BY <3>6 DEF read_offset, l, PacketIn
  <2>4. CASE ~Swallowing
    <3>1. PacketsIn(read_buffer) = <<>>
      BY <2>1, <2>3, <2>4, PacketFacts, NoPacketYet
    <3>2. InTransit = <<>>
      BY <2>2, <3>1 DEF InTransit
    <3> QED
      BY <1>1, <1>2, <1>4, <3>2 DEF P!End, P!Returns
  <2>5. CASE Swallowing
    <3> DEFINE p == read_buffer[1].of
    <3>1. read_buffer # <<>> /\ read_offset >= PACKET_HDR_LENGTH
      BY <1>1, <2>5, MissingFacts DEF Swallowing
    <3>2. p \in Packets /\ Short(p)
      BY <2>5, <3>1, ReadBufferFacts DEF Swallowing, PacketIn
    <3>3. IF p.length <= Len(read_buffer)
            THEN PacketsIn(read_buffer) # <<>> /\ Head(PacketsIn(read_buffer)) = p
            ELSE PacketsIn(read_buffer) = <<>> /\ ~Finished(read_buffer)
      BY <2>1, <3>1, PacketFacts, PacketInFront
    <3> HIDE DEF p
    <3>4. InTransit # <<>> => Head(InTransit) = p
      BY <2>2, <3>3 DEF InTransit
    <3> QED
      BY <1>1, <1>2, <1>4, <3>2, <3>4 DEF P!End, P!Returns
  <2> QED
    BY <2>4, <2>5
<1> QED
  BY <1>3, <1>4

LEMMA PipeStep == ASSUME IOInv, [Next]_vars PROVE P!Next \/ Unseen
<1>1. CASE read_packet
  BY <1>1, ReadPartWaits, ReadHeaderOverruns, ReadBodyTakes, EmptyBodyTakes,
     ReadNothingEnds DEF read_packet, P!Next
<1>2. CASE write_data
  BY <1>2, WritesUnseen
<1>3. ASSUME NEW p \in Packets, queue_packet(p) PROVE P!Next \/ Unseen
  BY <1>3, QueueSends DEF P!Next
<1>4. CASE Close \/ Reset
  BY <1>4, CutLoses DEF P!Next
<1>5. CASE UNCHANGED vars
  BY <1>5 DEF vars, Unseen, InTransit, Stream
<1> QED
  BY <1>1, <1>2, <1>3, <1>4, <1>5 DEF Next

\* The bytes implement the pipe: whatever the kernel makes of the stream,
\* read_packet hands out the packets that were queued, in order, each of them
\* whole and once; a HELLO is kept back; one that is too long or not valid ends
\* the reading; and when the connection ends only the last packets are lost.
THEOREM PipeImplemented == Spec => PipeSpec
<1>1. Init => P!Init
  <2> SUFFICES ASSUME Init PROVE P!Init
    OBVIOUS
  <2>1. Stream = (<<>> \o <<>>) \o <<>>
    BY DEF Init, Stream
  <2>2. Stream = <<>>
    BY <2>1, EmptySeq, ConcatEmptySeq
  <2>3. InTransit = <<>>
    BY <2>2, PacketsInNothing DEF InTransit
  <2> QED
    BY <2>3 DEF Init, P!Init
<1>2. IOInv /\ [Next]_vars => [P!Next]_(P!pipeVars)
  BY PipeStep DEF Unseen, P!pipeVars
<1> QED
  BY <1>1, <1>2, StreamInOrder, PTL DEF Spec, PipeSpec, P!Spec
=============================================================================
