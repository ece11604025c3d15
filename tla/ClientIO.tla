------------------------------ MODULE ClientIO ------------------------------
(***************************************************************************)
(* The I/O of v6/client.cpp byte by byte: one Client queues packets and    *)
(* writes them to a socket, another one at the other end reads them.       *)
(* Server and client program use the same class, in different modes.       *)
(*                                                                         *)
(* One action is one system call of one of the two, with the code up to    *)
(* the next one; the two run in different processes and interleave.  The   *)
(* kernel moves any number of bytes in any call.                           *)
(*                                                                         *)
(* A byte is the packet it belongs to and its place in it: what the buffer *)
(* operations do to the order of bytes is kept, their values are not.      *)
(*                                                                         *)
(* What a header says of the length need not be true: a peer that is not   *)
(* built on this class may say that the packet is shorter than its header. *)
(***************************************************************************)
EXTENDS ByteStream, FiniteSets

CONSTANTS Packets,                  \* records [kind, src, length, says]
          PACKET_HDR_LENGTH,
          MAX_PACKET_LENGTH,        \* the size of read_buffer
          MAX_ALLOWED_WRITE_QUEUE,  \* the size of write_buffer
          ChannelSize,              \* bytes the kernel holds between the two
          UINT32,                   \* how many values a uint32_t has
          Ids,
          UNIDENTIFIED_CLIENT,
          NULL                      \* no packet

Kinds == {"HELLO", "DATA", "OTHER"}

\* The header says that the packet ends before the header does.
Short(p) == p.says < PACKET_HDR_LENGTH

\* A packet has `length` bytes: as many as its header says, but no less than
\* the header.  A uint32_t has room for whatever a queue and a packet add up to.
ASSUME IOAssumption ==
  /\ PACKET_HDR_LENGTH \in Nat \ {0}
  /\ MAX_PACKET_LENGTH \in Nat
  /\ PACKET_HDR_LENGTH <= MAX_PACKET_LENGTH
  /\ MAX_ALLOWED_WRITE_QUEUE \in Nat
  /\ MAX_PACKET_LENGTH <= MAX_ALLOWED_WRITE_QUEUE
  /\ ChannelSize \in Nat \ {0}
  /\ UNIDENTIFIED_CLIENT \notin Ids
  /\ Packets \subseteq [kind   : Kinds,
                        src    : Ids \cup {UNIDENTIFIED_CLIENT},
                        length : Nat,
                        says   : Nat]
  /\ \A p \in Packets :
       /\ p.length = IF Short(p) THEN PACKET_HDR_LENGTH ELSE p.says
       /\ p.length + MAX_ALLOWED_WRITE_QUEUE < UINT32
  /\ UINT32 \in Nat
  /\ MAX_PACKET_LENGTH + ChannelSize < UINT32
  /\ NULL \notin Packets

VARIABLES write_buffer,  \* its first write_pending bytes
          wpc,           \* the writer: "idle", "write_data", "freed"
          channel,       \* bytes written and not yet read
          link,          \* "open", "closed" (by the writer) or "reset"
          read_buffer,   \* its first read_offset bytes
          rpc,           \* the reader: "idle", "read_body", "stopped"
          mode,          \* Client::mode of the reader
          id,            \* Client::id of the reader
          got,           \* what the last read_packet returned
          err            \* and the error code it set

writerVars == <<write_buffer, wpc>>
readerVars == <<read_buffer, rpc, mode, id, got, err>>
vars == <<write_buffer, wpc, channel, link, read_buffer, rpc, mode, id, got, err>>

Byte == Bytes(Packets)
Codes == {"none", "0", "EAGAIN", "EMSGSIZE", "EINVAL", "ESHUTDOWN", "ECONNRESET"}

TypeOK ==
  /\ write_buffer \in Seq(Byte)
  /\ wpc \in {"idle", "write_data", "freed"}
  /\ channel \in Seq(Byte)
  /\ link \in {"open", "closed", "reset"}
  /\ read_buffer \in Seq(Byte)
  /\ rpc \in {"idle", "read_body", "stopped"}
  /\ mode \in {"MODE_SERVER", "MODE_CLIENT"}
  /\ id \in Ids \cup {UNIDENTIFIED_CLIENT}
  /\ got \in Packets \cup {NULL}
  /\ err \in Codes

\* A client program's Client gets its id when it is connected, a server's
\* Client has none yet.
Init ==
  /\ write_buffer = <<>>
  /\ wpc = "idle"
  /\ channel = <<>>
  /\ link = "open"
  /\ read_buffer = <<>>
  /\ rpc = "idle"
  /\ \/ mode = "MODE_SERVER" /\ id = UNIDENTIFIED_CLIENT
     \/ mode = "MODE_CLIENT" /\ id \in Ids
  /\ got = NULL
  /\ err = "none"

-----------------------------------------------------------------------------
(* The writer.  An operator whose name starts with Faulty is the operation  *)
(* that follows it with a bug put in.                                       *)

\* Packet::serialize.
serialize(p) == [k \in 1 .. p.length |-> [of |-> p, at |-> k]]

write_pending == Len(write_buffer)

RoomFor(p) == p.length + write_pending <= MAX_ALLOWED_WRITE_QUEUE

\* Somebody queues a packet for this connection.  Packet::serialize writes the
\* length as it is; a packet that is Short, of no known kind or of nobody comes
\* from a peer of another make.
queue_packet(p) ==
  /\ wpc = "idle"
  /\ write_buffer' = IF RoomFor(p) THEN write_buffer \o serialize(p)
                                   ELSE write_buffer
  /\ UNCHANGED <<wpc, channel, link, readerVars>>

\* write_data runs: it was called for a writable socket, with data pending.
Writing == wpc = "write_data" \/ (wpc = "idle" /\ write_pending > 0)

\* Fault: the memmove is forgotten.
FaultyMoved(n) == SubSeq(write_buffer, 1, write_pending - n)

\* What the memmove leaves after n bytes were written.
Moved(n) == SubSeq(write_buffer, n + 1, write_pending)

\* write() takes some bytes; the loop ends when none are left.
WriteSome ==
  /\ Writing
  /\ link = "open"
  /\ \E n \in 1 .. write_pending :
       /\ Len(channel) + n <= ChannelSize
       /\ channel' = channel \o SubSeq(write_buffer, 1, n)
       /\ write_buffer' = Moved(n)
       /\ wpc' = IF n = write_pending THEN "idle" ELSE "write_data"
  /\ UNCHANGED <<link, readerVars>>

\* write() would block: epoll will call us back.
WriteBlocks ==
  /\ wpc = "write_data"
  /\ Len(channel) = ChannelSize
  /\ wpc' = "idle"
  /\ UNCHANGED <<write_buffer, channel, link, readerVars>>

\* write() fails; the Client is freed, with what was queued.
WriteFails ==
  /\ Writing
  /\ link = "reset"
  /\ wpc' = "freed"
  /\ write_buffer' = <<>>
  /\ UNCHANGED <<channel, link, readerVars>>

\* The Client is freed for a reason of its own (a takeover, a disconnect):
\* the socket is closed, what was queued is never sent.
Close ==
  /\ wpc = "idle"
  /\ link = "open"
  /\ wpc' = "freed"
  /\ link' = "closed"
  /\ write_buffer' = <<>>
  /\ UNCHANGED <<channel, readerVars>>

\* The network, or a reader that closes its end, resets the connection;
\* what has not arrived is lost.
Reset ==
  /\ link = "open"
  /\ link' = "reset"
  /\ \E n \in 0 .. Len(channel) : channel' = SubSeq(channel, 1, n)
  /\ UNCHANGED <<writerVars, readerVars>>

-----------------------------------------------------------------------------
(* The reader. *)

read_offset == Len(read_buffer)

\* The length field ends the header; nothing else is said of its place.
GET_PACKET_LENGTH(b) == b[PACKET_HDR_LENGTH].of.says

\* read() has put bytes behind the end of read_buffer: what the reader does from
\* here on is undefined.
Overrun == read_offset > MAX_PACKET_LENGTH

Reading == rpc # "stopped" /\ ~Overrun

\* a - b in a uint32_t.
Minus(a, b) == IF b <= a THEN a - b ELSE (a + UINT32) - b

\* Fault: a header that came in pieces is asked for from its start.
FaultyMissing ==
  IF read_offset < PACKET_HDR_LENGTH
    THEN PACKET_HDR_LENGTH
    ELSE Minus(GET_PACKET_LENGTH(read_buffer), read_offset)

\* The bytes that read_header or read_body asks for: `remaining`, a uint32_t,
\* which wraps if the packet is Short.
Missing ==
  IF read_offset < PACKET_HDR_LENGTH
    THEN PACKET_HDR_LENGTH - read_offset
    ELSE Minus(GET_PACKET_LENGTH(read_buffer), read_offset)

\* read_body has something to read.
HasBody ==
  read_offset >= PACKET_HDR_LENGTH => GET_PACKET_LENGTH(read_buffer) # PACKET_HDR_LENGTH

\* read_packet returns p with error code e.  After any other code than 0 and
\* EAGAIN its callers give the Client up.
Return(p, e) ==
  /\ got' = p
  /\ err' = e
  /\ rpc' = IF e \in {"0", "EAGAIN"} THEN "idle" ELSE "stopped"

\* read() delivers n of the bytes asked for: read_buffer is then b.
ReadBytes(n, b) ==
  /\ Reading
  /\ HasBody
  /\ n <= Len(channel)
  /\ b = read_buffer \o SubSeq(channel, 1, n)
  /\ channel' = SubSeq(channel, n + 1, Len(channel))

\* Fewer bytes than were asked for, of the header or the body.  Behind a Short
\* header these are all there are, whatever they belong to.
ReadPart ==
  \E n \in 1 .. Missing - 1 :
    LET b == read_buffer \o SubSeq(channel, 1, n)
    IN  /\ ReadBytes(n, b)
        /\ read_buffer' = b
        /\ Return(NULL, "EAGAIN")
        /\ UNCHANGED <<writerVars, link, mode, id>>

\* The rest of the header; read_body follows in the same call of read_packet.
ReadHeader ==
  LET b == read_buffer \o SubSeq(channel, 1, Missing)
  IN  /\ read_offset < PACKET_HDR_LENGTH
      /\ ReadBytes(Missing, b)
      /\ read_buffer' = b
      /\ IF GET_PACKET_LENGTH(b) > MAX_PACKET_LENGTH
           THEN Return(NULL, "EMSGSIZE")
           ELSE rpc' = "read_body" /\ UNCHANGED <<got, err>>
      /\ UNCHANGED <<writerVars, link, mode, id>>

\* The packet whose bytes are in b.
PacketIn(b) == b[1].of

SourceOk(p) ==
  mode = "MODE_SERVER" =>
    /\ p.src # UNIDENTIFIED_CLIENT
    /\ id \in {UNIDENTIFIED_CLIENT, p.src}

validate_packet(p) ==
  IF ~SourceOk(p)             THEN Return(NULL, "EINVAL")
  ELSE IF p.kind = "HELLO" THEN Return(NULL, "0")
  ELSE IF p.kind = "DATA"  THEN Return(p, "0")
  ELSE Return(NULL, "EINVAL")

\* Client::id after validate_packet.
Identity(p) ==
  IF mode = "MODE_SERVER"
    THEN IF id = UNIDENTIFIED_CLIENT THEN p.src ELSE id
    ELSE IF p.kind = "HELLO" THEN p.src ELSE id

\* Fault: read_offset keeps its value for a HELLO.
FaultyComplete(b) ==
  /\ validate_packet(PacketIn(b))
  /\ id' = Identity(PacketIn(b))
  /\ read_buffer' = IF PacketIn(b).kind = "HELLO" THEN b ELSE <<>>

\* b is a full packet: whatever is made of it, the buffer is reset.
Complete(b) ==
  /\ validate_packet(PacketIn(b))
  /\ id' = Identity(PacketIn(b))
  /\ read_buffer' = <<>>

\* The rest of the body.
ReadBody ==
  LET b == read_buffer \o SubSeq(channel, 1, Missing)
  IN  /\ read_offset >= PACKET_HDR_LENGTH
      /\ ReadBytes(Missing, b)
      /\ Complete(b)
      /\ UNCHANGED <<writerVars, link, mode>>

\* Fault: an empty body is waited for.
FaultyEmptyBody == FALSE /\ UNCHANGED vars

\* A packet without a body needs no read().
EmptyBody ==
  /\ rpc = "read_body"
  /\ ~HasBody
  /\ Complete(read_buffer)
  /\ UNCHANGED <<writerVars, channel, link, mode>>

\* read() has nothing: it would block, which happens only in the middle of a
\* call; or the stream has ended; or the connection was reset.
ReadNothing ==
  /\ Reading
  /\ HasBody
  /\ channel = <<>>
  /\ \/ link = "open" /\ rpc = "read_body" /\ Return(NULL, "EAGAIN")
     \/ link = "closed" /\ Return(NULL, "ESHUTDOWN")
     \/ link = "reset" /\ Return(NULL, "ECONNRESET")
  /\ UNCHANGED <<writerVars, channel, link, read_buffer, mode, id>>

write_data  == WriteSome \/ WriteBlocks \/ WriteFails
read_packet == ReadPart \/ ReadHeader \/ ReadBody \/ EmptyBody \/ ReadNothing

Next ==
  \/ \E p \in Packets : queue_packet(p)
  \/ write_data
  \/ Close
  \/ Reset
  \/ read_packet

Spec == Init /\ [][Next]_vars

\* epoll reports the two sockets as long as there is something to do.
LiveSpec == Spec /\ WF_vars(write_data) /\ WF_vars(read_packet)

-----------------------------------------------------------------------------
(* Properties. *)

\* The bytes on their way, oldest first.  What is queued for a connection that
\* was reset is not.
Stream ==
  read_buffer \o channel \o (IF link = "open" THEN write_buffer ELSE <<>>)

\* b is followed by c in a stream of whole packets.
Follows(b, c) ==
  IF b.at = b.of.length THEN c.at = 1 ELSE c = [of |-> b.of, at |-> b.at + 1]

\* s consists of whole packets, the last of which may be cut off.
Packed(s) ==
  /\ s # <<>> => s[1].at = 1
  /\ \A k \in 1 .. Len(s) - 1 : Follows(s[k], s[k + 1])

\* read_buffer begins with the header of a Short packet.
Swallowing == read_offset >= PACKET_HDR_LENGTH /\ Short(PacketIn(read_buffer))

\* What is in read_buffer is the beginning of one packet (but for a Short one,
\* which has no end), and the bytes behind it, in the channel and in
\* write_buffer, go on with it and with whole packets to the end, unless the
\* connection is cut: no split of a read or a write, no full buffer and no
\* refused packet ever lets the reader lose its place.
Framed ==
  /\ ~Swallowing =>
       \A k \in 1 .. read_offset : read_buffer[k] = [of |-> read_buffer[1].of, at |-> k]
  /\ rpc # "stopped" => Packed(Stream)
  /\ link = "open" /\ Stream # <<>> =>
       Stream[Len(Stream)].at = Stream[Len(Stream)].of.length

\* The assertions of read_header and read_body (client.cpp:57, 70, 75 and 78)
\* hold for every header, a Short one as well, where the subtraction wraps; and
\* neither buffer is overrun: what read() is asked for ends within read_buffer,
\* as it does for all packets that are not Short.
AssertionsHold ==
  /\ write_pending <= MAX_ALLOWED_WRITE_QUEUE
  /\ rpc = "read_body" => read_offset >= PACKET_HDR_LENGTH
  /\ Reading /\ read_offset >= PACKET_HDR_LENGTH =>
       /\ GET_PACKET_LENGTH(read_buffer) <= MAX_PACKET_LENGTH
       /\ HasBody => Missing > 0
  /\ rpc # "stopped" /\ ~Swallowing => read_offset + Missing <= MAX_PACKET_LENGTH

Inv == TypeOK /\ AssertionsHold

\* The packets on their way: those whose last byte is.
InTransit == PacketsIn(Stream)

P == INSTANCE PacketPipe WITH
       Control <- {p \in Packets : p.kind = "HELLO"},
       TooLong <- {p \in Packets : p.says > MAX_PACKET_LENGTH},
       Endless <- {p \in Packets : Short(p)},
       None <- NULL, transit <- InTransit, open <- link = "open",
       reading <- rpc # "stopped"

\* The bytes implement a pipe of packets: read_packet returns what was queued,
\* in order, once and whole, however the stream is cut into pieces; a HELLO is
\* never returned, its error code is 0 (not EAGAIN, as client.cpp:151 says);
\* when the connection ends only the last packets are lost.  A Short packet is
\* never returned, nor is one behind it.
PipeSpec == P!Spec

\* As long as packets are on their way, the first of them not Short, and the
\* reader has not stopped, it goes on taking them: no header, body or empty body
\* leaves it waiting for bytes that will not come.
KeepsReading ==
  <>[](InTransit # <<>> /\ rpc # "stopped" /\ ~Short(Head(InTransit)))
    => []<><<Len(InTransit') < Len(InTransit)>>_vars
=============================================================================
