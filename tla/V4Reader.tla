------------------------------ MODULE V4Reader ------------------------------
(***************************************************************************)
(* How v4/event.c reads packets from one connection.  v4 takes as many     *)
(* bytes as its buffer has room for, so one read may end several packets   *)
(* and begin another; v5 and v6 (ClientIO) ask for one packet at a time.   *)
(*                                                                         *)
(* One action is one call of read_packets, or one turn of the loop of      *)
(* process_packets.  The peer sends in between; its process is not         *)
(* modelled.  A byte is the packet it belongs to and its place in it.      *)
(***************************************************************************)
EXTENDS ByteStream

CONSTANTS Packets,            \* records [src, length]
          PACKET_HDR_LENGTH,
          MIN_BUFFER_SIZE,    \* the first size of read_buffer
          MAX_PACKET_LENGTH,
          ChannelSize,        \* bytes the kernel holds for the server
          Ids,
          UNIDENTIFIED_CLIENT,
          NULL                \* no packet

ASSUME V4Assumption ==
  /\ PACKET_HDR_LENGTH \in Nat \ {0}
  /\ MIN_BUFFER_SIZE \in Nat /\ MAX_PACKET_LENGTH \in Nat
  /\ PACKET_HDR_LENGTH < MIN_BUFFER_SIZE
  /\ MIN_BUFFER_SIZE <= MAX_PACKET_LENGTH
  /\ ChannelSize \in Nat \ {0}
  /\ UNIDENTIFIED_CLIENT \notin Ids
  /\ Packets \subseteq [src : Ids \cup {UNIDENTIFIED_CLIENT}, length : Nat]
  /\ \A p \in Packets : PACKET_HDR_LENGTH <= p.length
  /\ NULL \notin Packets

VARIABLES outbox,       \* what the peer has still to write
          channel,      \* bytes written by the peer and not yet read
          link,         \* "open", "closed" or "reset" by the peer
          read_buffer,  \* its first read_offset bytes
          total_size,   \* bytes allocated for it
          rpc,          \* "idle", "processing" or "invalid" (the client is)
          id,           \* the client's id
          got,          \* the packet last given to onDataReceived
          err           \* the last return code of the two functions

senderVars == <<outbox, link>>
connVars   == <<outbox, channel, link, read_buffer, total_size, rpc, id, got, err>>

Byte == Bytes(Packets)

ReaderTypeOK ==
  /\ outbox \in Seq(Byte)
  /\ channel \in Seq(Byte)
  /\ link \in {"open", "closed", "reset"}
  /\ read_buffer \in Seq(Byte)
  /\ total_size \in {0} \cup MIN_BUFFER_SIZE .. MAX_PACKET_LENGTH
  /\ rpc \in {"idle", "processing", "invalid"}
  /\ id \in Ids \cup {UNIDENTIFIED_CLIENT}
  /\ got \in Packets \cup {NULL}
  /\ err \in {"none", "0", "EAGAIN", "EMSGSIZE", "EINVAL", "ESHUTDOWN", "ECONNRESET"}

ReaderInit ==
  /\ outbox = <<>>
  /\ channel = <<>>
  /\ link = "open"
  /\ read_buffer = <<>>
  /\ total_size = 0
  /\ rpc = "idle"
  /\ id = UNIDENTIFIED_CLIENT
  /\ got = NULL
  /\ err = "none"

-----------------------------------------------------------------------------
(* The peer. *)

readerVars == <<read_buffer, total_size, rpc, id, got, err>>

serialize(p) == [k \in 1 .. p.length |-> [of |-> p, at |-> k]]

PeerSend(p) ==
  /\ link = "open"
  /\ outbox = <<>>
  /\ outbox' = serialize(p)
  /\ UNCHANGED <<channel, link, readerVars>>

\* The peer's packets arrive in pieces of any size.
PeerWrite ==
  /\ link = "open"
  /\ \E n \in 1 .. Len(outbox) :
       /\ Len(channel) + n <= ChannelSize
       /\ channel' = channel \o SubSeq(outbox, 1, n)
       /\ outbox' = SubSeq(outbox, n + 1, Len(outbox))
  /\ UNCHANGED <<link, readerVars>>

\* The peer goes, perhaps in the middle of a packet; a reset also loses what
\* has not arrived.
PeerGoes ==
  /\ link = "open"
  /\ outbox' = <<>>
  /\ \/ link' = "closed" /\ UNCHANGED channel
     \/ /\ link' = "reset"
        /\ \E n \in 0 .. Len(channel) : channel' = SubSeq(channel, 1, n)
  /\ UNCHANGED readerVars

-----------------------------------------------------------------------------
(* read_packets.  An operator whose name starts with Faulty is the          *)
(* operation that follows it with a bug put in.                             *)

read_offset == Len(read_buffer)

GET_PACKET_LENGTH(b) == b[PACKET_HDR_LENGTH].of.length

\* The header of the first packet in read_buffer has arrived.
HasHeader == read_offset >= PACKET_HDR_LENGTH

\* Fault: the buffer is only allocated, never made larger.
FaultyFixed == IF total_size = 0 THEN MIN_BUFFER_SIZE ELSE total_size

\* total_size after malloc or realloc, before the read.
Grown ==
  IF total_size = 0 THEN MIN_BUFFER_SIZE
  ELSE IF HasHeader /\ total_size < GET_PACKET_LENGTH(read_buffer)
    THEN GET_PACKET_LENGTH(read_buffer)
    ELSE total_size

\* What read_packets asserts of the packet it left unfinished (event.c:288).
PreviousConsumed ==
  rpc = "idle" /\ HasHeader => read_offset < GET_PACKET_LENGTH(read_buffer)

\* ... and of its length (event.c:291).
LengthWasChecked ==
  rpc = "idle" /\ HasHeader => GET_PACKET_LENGTH(read_buffer) <= MAX_PACKET_LENGTH

\* A failed assertion ends the process.
Called == rpc = "idle" /\ PreviousConsumed /\ LengthWasChecked

\* The code that read_packets returns when read_buffer is b.
Outcome(b) ==
  IF Len(b) < PACKET_HDR_LENGTH                   THEN "EAGAIN"
  ELSE IF GET_PACKET_LENGTH(b) > MAX_PACKET_LENGTH THEN "EMSGSIZE"
  ELSE IF Len(b) >= GET_PACKET_LENGTH(b)           THEN "0"
  ELSE "EAGAIN"

\* What becomes of the client for it.
After(code) ==
  IF code = "0" THEN "processing" ELSE IF code = "EAGAIN" THEN "idle" ELSE "invalid"

\* read() takes what there is, as far as there is room.
ReadSome ==
  LET room == Grown - read_offset
      n    == IF Len(channel) <= room THEN Len(channel) ELSE room
      b    == read_buffer \o SubSeq(channel, 1, n)
  IN  /\ Called
      /\ n > 0
      /\ channel' = SubSeq(channel, n + 1, Len(channel))
      /\ read_buffer' = b
      /\ rpc' = After(Outcome(b))
      /\ IF Outcome(b) = "0"
           THEN UNCHANGED <<got, err>>
           ELSE got' = NULL /\ err' = Outcome(b)
      /\ total_size' = Grown
      /\ UNCHANGED <<senderVars, id>>

\* read() returns 0, also when it was asked for 0 bytes, or fails.
ReadNothing ==
  /\ Called
  /\ got' = NULL
  /\ err' = IF channel = <<>> /\ link = "reset" THEN "ECONNRESET" ELSE "ESHUTDOWN"
  /\ IF channel = <<>> THEN link # "open" ELSE Grown = read_offset
  /\ rpc' = "invalid"
  /\ total_size' = Grown
  /\ UNCHANGED <<senderVars, channel, read_buffer, id>>

-----------------------------------------------------------------------------
(* process_packets. *)

HasPacket == HasHeader /\ read_offset >= GET_PACKET_LENGTH(read_buffer)

packet == read_buffer[1].of

validate_packet(p) == p.src # UNIDENTIFIED_CLIENT

\* Fault: the memmove is forgotten.
FaultyRest(n) == SubSeq(read_buffer, 1, read_offset - n)

\* What the memmove leaves behind a packet of n bytes.
Rest(n) == SubSeq(read_buffer, n + 1, read_offset)

\* Fault: one packet is handled per read.
FaultyGoesOn(b) == "idle"

\* The loop ends when the buffer is empty.
GoesOn(b) == IF b = <<>> THEN "idle" ELSE "processing"

\* A good packet.  The first one names the client.
ProcessGood ==
  /\ rpc = "processing"
  /\ HasPacket
  /\ validate_packet(packet)
  /\ id' = IF id = UNIDENTIFIED_CLIENT THEN packet.src ELSE id
  /\ got' = packet
  /\ err' = "0"
  /\ LET b == Rest(GET_PACKET_LENGTH(read_buffer))
     IN  read_buffer' = b /\ rpc' = GoesOn(b)
  /\ UNCHANGED <<senderVars, channel, total_size>>

\* The rest of the buffer is not a packet yet, or it is one that is not valid.
\* Either stays in the buffer; the caller does not look at the code.
ProcessRest ==
  /\ rpc = "processing"
  /\ HasPacket => ~validate_packet(packet)
  /\ rpc' = "idle"
  /\ got' = NULL
  /\ err' = IF HasPacket THEN "EINVAL" ELSE "EAGAIN"
  /\ UNCHANGED <<senderVars, channel, read_buffer, total_size, id>>

handle_read_event == ReadSome \/ ReadNothing \/ ProcessGood \/ ProcessRest

ReaderNext ==
  \/ \E p \in Packets : PeerSend(p)
  \/ PeerWrite
  \/ PeerGoes
  \/ handle_read_event

ReaderSpec == ReaderInit /\ [][ReaderNext]_connVars

\* epoll reports the socket as long as there is something to read, and a peer
\* finishes the packet it has begun.
ReaderLiveSpec == ReaderSpec /\ WF_connVars(handle_read_event) /\ WF_connVars(PeerWrite)

-----------------------------------------------------------------------------
(* Properties. *)

\* Both assertions of read_packets hold, and what it would read into has room:
\* read() with no room returns 0, which would be taken for the end of the
\* connection, so a client that sends a large packet would be thrown out.
ReadsSensibly ==
  rpc = "idle" => PreviousConsumed /\ LengthWasChecked /\ Grown > read_offset

ReaderInv == ReaderTypeOK /\ ReadsSensibly

\* The bytes on their way, oldest first.
Stream == read_buffer \o channel \o outbox

\* The packets on their way: those whose last byte is.
InTransit == PacketsIn(Stream)

P == INSTANCE PacketPipe WITH
       Control <- {},
       TooLong <- {p \in Packets : p.length > MAX_PACKET_LENGTH}, Endless <- {},
       None <- NULL, transit <- InTransit, open <- link = "open",
       reading <- rpc # "invalid"

\* onDataReceived is given the packets that were sent, in order, once and whole;
\* only what comes last is lost when the connection ends (PacketPipe, which
\* ClientIO implements too).
PipeSpec == P!Spec

\* A packet that has arrived is handed over without waiting for the next one to
\* arrive: no complete packet is ever left behind in the buffer.
KeepsReading ==
  <>[](InTransit # <<>> /\ rpc # "invalid")
    => []<><<Len(InTransit') < Len(InTransit)>>_connVars
=============================================================================
