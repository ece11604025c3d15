------------------------------ MODULE V5Server ------------------------------
(***************************************************************************)
(* The fifth generation, v5/tcp_server.cpp, v5/client.cpp and the callbacks *)
(* of v5/server.cpp, byte by byte and with several connections at once:    *)
(* TCPServer has whole packets, ClientIO a single connection.  Here the    *)
(* packets of different senders, each cut anywhere, are put together again *)
(* in the buffers of one receiver, which is written to in pieces and may   *)
(* lose its id in the middle of one.                                       *)
(*                                                                         *)
(* One action is epoll_wait, the handling of one event, or the end of a    *)
(* batch; peers write a byte or read a packet between any two of them.     *)
(* A byte is the packet it belongs to and its place in it.  What a header    *)
(* says of the length need not be true, as in ClientIO.                    *)
(***************************************************************************)
EXTENDS ClientMgr, ByteStream

CONSTANTS Packets,                  \* records [kind, src, dst, length, says]
          PACKET_HDR_LENGTH,
          MAX_PACKET_LENGTH,        \* the size of read_buffer
          MAX_ALLOWED_WRITE_QUEUE,  \* the size of write_buffer
          MAX_EVENTS,
          RcvBuf,                   \* bytes the kernel holds for the server
          SndBuf,                   \* bytes the kernel holds for a peer
          UINT32,                   \* how many values a uint32_t has
          CallsMayFail              \* whether accept and EPOLL_CTL_ADD may fail

\* The header says that the packet ends before the header does.
Short(p) == p.says < PACKET_HDR_LENGTH

\* A packet has as many bytes as its header says, but no less than the header.
\* A uint32_t has room for read_buffer and what the kernel holds behind it.
ASSUME V5Assumption ==
  /\ {PACKET_HDR_LENGTH, MAX_EVENTS, RcvBuf} \subseteq Nat \ {0}
  /\ {MAX_PACKET_LENGTH, MAX_ALLOWED_WRITE_QUEUE, SndBuf, UINT32} \subseteq Nat
  /\ PACKET_HDR_LENGTH <= MAX_PACKET_LENGTH
  /\ MAX_PACKET_LENGTH <= MAX_ALLOWED_WRITE_QUEUE
  /\ MAX_PACKET_LENGTH <= SndBuf
  /\ MAX_PACKET_LENGTH + RcvBuf < UINT32
  /\ Packets \subseteq [kind : {"HELLO", "DATA", "BAD"}, src : AllIds, dst : AllIds,
                        length : Nat, says : Nat]
  /\ \A p \in Packets : p.length = IF Short(p) THEN PACKET_HDR_LENGTH ELSE p.says
  /\ CallsMayFail \in BOOLEAN

VARIABLES read_buffer,       \* of each Client: the first read_offset bytes
          write_buffer,      \* of each Client: the first write_pending bytes
          write_registered,  \* the Clients whose flag of that name is set
          cev,               \* the events of the batch not yet handled
          pc,                \* "wait" or "dispatch"
          epoll,             \* the events the kernel watches, per connection
          peer,              \* the other end of each connection
          sent,              \* what its peer has yet to write of a packet
          inbox,             \* bytes written by the peer and not yet read
          wire               \* bytes written by the server and not yet read

writeVars  == <<write_buffer, write_registered, epoll>>
serverVars == <<cmgr, read_buffer, writeVars, cev, pc>>
peerVars   == <<peer, sent, inbox, wire>>
vars       == <<serverVars, peerVars>>

Event  == [ptr : Clients \cup {NULL}, events : SUBSET {"IN", "OUT"}]
Byte   == Bytes(Packets)
Stream == [Clients -> Seq(Byte)]

TypeOK ==
  /\ CMTypeOK
  /\ {read_buffer, write_buffer, sent, inbox, wire} \subseteq Stream
  /\ write_registered \subseteq Clients
  /\ cev \subseteq Event
  /\ pc \in {"wait", "dispatch"}
  /\ epoll \in [Clients -> SUBSET {"IN", "OUT"}]
  /\ peer \in [Clients -> {"none", "open", "closed", "reset"}]

Nothing == [c \in Clients |-> <<>>]

Init ==
  /\ CMInit
  /\ read_buffer = Nothing /\ write_buffer = Nothing
  /\ write_registered = {}
  /\ cev = {} /\ pc = "wait"
  /\ epoll = [c \in Clients |-> {}]
  /\ peer = [c \in Clients |-> "none"]
  /\ sent = Nothing /\ inbox = Nothing /\ wire = Nothing

-----------------------------------------------------------------------------
(* The kernel, as in TCPServer. *)

Backlog == {c \in Clients : peer[c] # "none" /\ c \notin cmgr.live}
Readable(c) == inbox[c] # <<>> \/ peer[c] \in {"closed", "reset"}
Writable(c) == Len(wire[c]) < SndBuf \/ peer[c] = "reset"
EventsOf(c) ==
  {ev \in epoll[c] : IF ev = "IN" THEN Readable(c) ELSE Writable(c)}

Ready ==
  {[ptr |-> c, events |-> EventsOf(c)] : c \in {d \in Clients : EventsOf(d) # {}}}
    \cup (IF Backlog # {} THEN {[ptr |-> NULL, events |-> {"IN"}]} ELSE {})

PollWait ==
  /\ pc = "wait"
  /\ \E B \in SUBSET Ready :
       /\ B # {}
       /\ IF Cardinality(Ready) <= MAX_EVENTS THEN B = Ready
                                              ELSE Cardinality(B) = MAX_EVENTS
       /\ cev' = B
  /\ pc' = "dispatch"
  /\ UNCHANGED <<cmgr, read_buffer, writeVars, peerVars>>

-----------------------------------------------------------------------------
(* v5/client.cpp.  An operator whose name starts with Faulty is the         *)
(* operation that follows it with a bug put in.                             *)

serialize(p) == [k \in 1 .. p.length |-> [of |-> p, at |-> k]]

\* The first n bytes of s, or all of it.
Upto(s, n) == SubSeq(s, 1, IF n <= Len(s) THEN n ELSE Len(s))
Beyond(s, n) == SubSeq(s, n + 1, Len(s))

\* What the Client c would have in its buffer if it read all there is.
Arrived(c) == read_buffer[c] \o inbox[c]

GET_PACKET_LENGTH(b) == b[PACKET_HDR_LENGTH].of.says

\* Where read_body, which asks for `remaining` bytes behind read_offset, has p:
\* the subtraction, in a uint32_t, wraps if p is Short.
BodyEnd(p) == IF Short(p) THEN p.says + UINT32 ELSE p.says

\* read_packet wants the header, then, if the length in it is acceptable, the
\* body.
Wanted(c) ==
  IF \/ Len(Arrived(c)) < PACKET_HDR_LENGTH
     \/ GET_PACKET_LENGTH(Arrived(c)) > MAX_PACKET_LENGTH
    THEN PACKET_HDR_LENGTH
    ELSE BodyEnd(Arrived(c)[PACKET_HDR_LENGTH].of)

\* The contents of read_buffer after read_n_bytes was called for the header,
\* for the body, or for both.
Filled(c) == Upto(Arrived(c), Wanted(c))

\* The last of these calls got nothing, not even a part of what it wanted.
GotNothing(c) ==
  Len(Filled(c)) \in {Len(read_buffer[c]), PACKET_HDR_LENGTH}

validate_packet(c, p) ==
  IF \/ p.src = UNIDENTIFIED_CLIENT
     \/ cmgr.id[c] \notin {UNIDENTIFIED_CLIENT, p.src}
     \/ p.kind = "BAD"
    THEN "EINVAL"
    ELSE p.kind

\* What read_packet returns: DATA is a Packet, HELLO a NULL with the code 0.
read_packet(c) ==
  IF Len(Filled(c)) < Wanted(c)
    THEN IF peer[c] = "open" \/ ~GotNothing(c) THEN "EAGAIN"
         ELSE IF peer[c] = "closed" THEN "ESHUTDOWN" ELSE "ECONNRESET"
    ELSE IF GET_PACKET_LENGTH(Filled(c)) > MAX_PACKET_LENGTH THEN "EMSGSIZE"
         ELSE validate_packet(c, Filled(c)[1].of)

\* The first packet that arrives complete names the Client, even if its type
\* is then rejected.
Identified(c) ==
  IF /\ Len(Filled(c)) = Wanted(c)
     /\ GET_PACKET_LENGTH(Filled(c)) <= MAX_PACKET_LENGTH
     /\ cmgr.id[c] = UNIDENTIFIED_CLIENT
    THEN SetId(cmgr, c, Filled(c)[1].of.src)
    ELSE cmgr

\* Fault: what there is room for is queued.
FaultyQueued(b, p) == Upto(b \o serialize(p), MAX_ALLOWED_WRITE_QUEUE)

\* write_buffer b after queue_packet(p): a packet that does not fit is dropped.
Queued(b, p) ==
  IF Len(b) + p.length > MAX_ALLOWED_WRITE_QUEUE THEN b ELSE b \o serialize(p)

-----------------------------------------------------------------------------
(* The registration of write interest. *)

modify(c, evs) ==
  epoll' = [epoll EXCEPT ![c] = IF @ = {} THEN {} ELSE evs]

register_write(c) ==
  IF c \in write_registered
    THEN UNCHANGED <<write_registered, epoll>>
    ELSE write_registered' = write_registered \cup {c} /\ modify(c, {"IN", "OUT"})

unregister_write(c) ==
  IF c \in write_registered
    THEN write_registered' = write_registered \ {c} /\ modify(c, {"IN"})
    ELSE UNCHANGED <<write_registered, epoll>>

-----------------------------------------------------------------------------
(* v5/tcp_server.cpp. *)

Dispatch(e) == e \in cev /\ cev' = cev \ {e} /\ UNCHANGED pc

\* A Client is allocated and added to epoll; if that fails nobody looks.
accept_connection(e) ==
  /\ Dispatch(e)
  /\ e.ptr = NULL
  /\ \/ \E c \in Backlog :
          /\ cmgr' = NewClient(cmgr, c)
          /\ \/ epoll' = [epoll EXCEPT ![c] = {"IN"}]
             \/ CallsMayFail /\ UNCHANGED epoll
     \/ CallsMayFail /\ UNCHANGED <<cmgr, epoll>>
  /\ UNCHANGED <<read_buffer, write_buffer, write_registered, peerVars>>

ReadEvent(e)  == Dispatch(e) /\ e.ptr # NULL /\ "IN" \in e.events
WriteEvent(e) == Dispatch(e) /\ e.ptr # NULL /\ "IN" \notin e.events

\* An earlier event of the batch invalidated the Client.
StaleEvent(e) ==
  /\ ReadEvent(e) \/ WriteEvent(e)
  /\ e.ptr \in cmgr.invalid
  /\ UNCHANGED <<cmgr, read_buffer, writeVars, peerVars>>

\* Fault: the test for a stale Client is missing.
FaultyReads(e, outcomes) ==
  /\ ReadEvent(e)
  /\ read_packet(e.ptr) \in outcomes
  /\ inbox' = [inbox EXCEPT ![e.ptr] = Beyond(Arrived(e.ptr), Wanted(e.ptr))]
  /\ UNCHANGED <<peer, sent, wire>>

\* handle_read_event: a valid Client is read from, with one of these outcomes.
Reads(e, outcomes) ==
  /\ ReadEvent(e)
  /\ e.ptr \notin cmgr.invalid
  /\ read_packet(e.ptr) \in outcomes
  /\ inbox' = [inbox EXCEPT ![e.ptr] = Beyond(Arrived(e.ptr), Wanted(e.ptr))]
  /\ UNCHANGED <<peer, sent, wire>>

\* epoll will bring us back.
ReadPartial(e) ==
  /\ Reads(e, {"EAGAIN"})
  /\ read_buffer' = [read_buffer EXCEPT ![e.ptr] = Filled(e.ptr)]
  /\ UNCHANGED <<cmgr, writeVars>>

\* reset_read_buffer, which follows every full packet.
Emptied(c) == read_buffer' = [read_buffer EXCEPT ![c] = <<>>]

ReadHello(e) ==
  /\ Reads(e, {"HELLO"})
  /\ Emptied(e.ptr)
  /\ cmgr' = manage(Identified(e.ptr), e.ptr)
  /\ UNCHANGED writeVars

\* Fault: the receiver is looked up before its sender took its id.
FaultySend(p) ==
  LET d == find_client_by_id(cmgr, p.dst)
  IN  IF d = NULL
        THEN UNCHANGED writeVars
        ELSE /\ write_buffer' = [write_buffer EXCEPT ![d] = Queued(@, p)]
             /\ register_write(d)

\* send_data_to_client: whoever has that id gets p queued behind what is there.
send_data_to_client(p) ==
  LET d == find_client_by_id(cmgr', p.dst)
  IN  IF d = NULL
        THEN UNCHANGED writeVars
        ELSE /\ write_buffer' = [write_buffer EXCEPT ![d] = Queued(@, p)]
             /\ register_write(d)

ReadData(e) ==
  /\ Reads(e, {"DATA"})
  /\ Emptied(e.ptr)
  /\ cmgr' = manage(Identified(e.ptr), e.ptr)
  /\ send_data_to_client(Filled(e.ptr)[1].of)

\* The stream ended or failed, or the packet is too long or not acceptable.
ReadFails(e) ==
  /\ Reads(e, {"EMSGSIZE", "EINVAL", "ESHUTDOWN", "ECONNRESET"})
  /\ read_buffer' = [read_buffer EXCEPT ![e.ptr] =
                       IF read_packet(e.ptr) = "EINVAL" THEN <<>> ELSE Filled(e.ptr)]
  /\ cmgr' = mark_client_as_invalid(Identified(e.ptr), e.ptr)
  /\ UNCHANGED writeVars

Writes(e) ==
  /\ WriteEvent(e)
  /\ e.ptr \notin cmgr.invalid
  /\ UNCHANGED <<read_buffer, peer, sent, inbox>>

WriteNothing(e) ==
  /\ Writes(e)
  /\ write_buffer[e.ptr] = <<>>
  /\ unregister_write(e.ptr)
  /\ UNCHANGED <<cmgr, write_buffer, wire>>

\* write_data: write() takes what there is room for, the rest is moved to the
\* front, and the next write() blocks.
WriteSome(e) ==
  LET c    == e.ptr
      room == SndBuf - Len(wire[c])
  IN  /\ Writes(e)
      /\ write_buffer[c] # <<>>
      /\ peer[c] # "reset"
      /\ wire' = [wire EXCEPT ![c] = @ \o Upto(write_buffer[c], room)]
      /\ write_buffer' = [write_buffer EXCEPT ![c] = Beyond(@, room)]
      /\ UNCHANGED <<cmgr, write_registered, epoll>>

WriteFails(e) ==
  /\ Writes(e)
  /\ write_buffer[e.ptr] # <<>>
  /\ peer[e.ptr] = "reset"
  /\ cmgr' = mark_client_as_invalid(cmgr, e.ptr)
  /\ UNCHANGED <<writeVars, wire>>

Cleared(f, S, v) == [c \in Clients |-> IF c \in S THEN v ELSE f[c]]

\* Fault: the next Client at that address finds the bytes of the last one.
FaultyReset(S) ==
  /\ read_buffer'  = read_buffer
  /\ write_buffer' = Cleared(write_buffer, S, <<>>)
  /\ write_registered' = write_registered \ S

\* What the constructor gives the next Client at each of these addresses.
Reset(S) ==
  /\ read_buffer'  = Cleared(read_buffer, S, <<>>)
  /\ write_buffer' = Cleared(write_buffer, S, <<>>)
  /\ write_registered' = write_registered \ S

\* free_invalid_clients; each destructor closes its socket.
EndOfBatch ==
  /\ pc = "dispatch"
  /\ cev = {}
  /\ pc' = "wait"
  /\ cmgr' = free_invalid_clients(cmgr)
  /\ Reset(Listed(cmgr))
  /\ epoll' = Cleared(epoll, Listed(cmgr), {})
  /\ peer'  = Cleared(peer, Listed(cmgr), "none")
  /\ sent'  = Cleared(sent, Listed(cmgr), <<>>)
  /\ inbox' = Cleared(inbox, Listed(cmgr), <<>>)
  /\ wire'  = Cleared(wire, Listed(cmgr), <<>>)
  /\ UNCHANGED cev

handle_read_event(e) == ReadPartial(e) \/ ReadHello(e) \/ ReadData(e) \/ ReadFails(e)
handle_write_event(e) == WriteNothing(e) \/ WriteSome(e) \/ WriteFails(e)

handle_event(e) ==
  accept_connection(e) \/ StaleEvent(e) \/ handle_read_event(e) \/ handle_write_event(e)

do_poll == PollWait \/ (\E e \in cev : handle_event(e)) \/ EndOfBatch

-----------------------------------------------------------------------------
(* The peers. *)

PeerConnect(c) ==
  /\ peer[c] = "none"
  /\ peer' = [peer EXCEPT ![c] = "open"]
  /\ UNCHANGED <<serverVars, sent, inbox, wire>>

\* A byte of a packet arrives, the first one or the next.
PeerSend(c) ==
  /\ peer[c] = "open"
  /\ Len(inbox[c]) < RcvBuf
  /\ \E s \in IF sent[c] = <<>> THEN {serialize(p) : p \in Packets} ELSE {sent[c]} :
       /\ inbox' = [inbox EXCEPT ![c] = Append(@, Head(s))]
       /\ sent' = [sent EXCEPT ![c] = Tail(s)]
  /\ UNCHANGED <<serverVars, peer, wire>>

\* A whole packet is taken, once it is there.
PeerRead(c) ==
  /\ peer[c] = "open"
  /\ wire[c] # <<>>
  /\ wire[c][1].of.length <= Len(wire[c])
  /\ wire' = [wire EXCEPT ![c] = Beyond(@, @[1].of.length)]
  /\ UNCHANGED <<serverVars, peer, sent, inbox>>

\* It closes, or the connection is reset, perhaps after that.
PeerGoes(c) ==
  /\ \/ peer[c] = "open" /\ peer' = [peer EXCEPT ![c] = "closed"]
     \/ peer[c] \in {"open", "closed"} /\ peer' = [peer EXCEPT ![c] = "reset"]
  /\ UNCHANGED <<serverVars, sent, inbox, wire>>

Peer(c) == PeerConnect(c) \/ PeerSend(c) \/ PeerRead(c) \/ PeerGoes(c)

\* read() has put bytes behind the end of a read_buffer: what the server does
\* from here on is undefined.
Overrun == \E c \in Clients : Len(read_buffer[c]) > MAX_PACKET_LENGTH

Next == ~Overrun /\ (do_poll \/ \E c \in Clients : Peer(c))

Spec == Init /\ [][Next]_vars

-----------------------------------------------------------------------------
(* Properties. *)

\* The pointers in a batch are those of allocated, registered Clients; and the
\* assertions at client.cpp:54, 67, 72 and 75 hold whatever was read before,
\* the header of a Short packet as well: what is in the read_buffer of a valid
\* Client is the beginning of one packet of an acceptable length, and not all it
\* wants of it.  Only behind a Short header is it more than the packet, and only
\* there does it overrun read_buffer.
AssertionsHold ==
  /\ \A e \in cev : e.ptr # NULL => e.ptr \in cmgr.live /\ epoll[e.ptr] # {}
  /\ \A c \in cmgr.live \ cmgr.invalid :
       LET b == read_buffer[c]
       IN  /\ \A k \in 1 .. Len(b) :
                k <= b[1].of.length => b[k] = [of |-> b[1].of, at |-> k]
           /\ b # <<>> => Len(b) < BodyEnd(b[1].of)
           /\ Len(b) >= PACKET_HDR_LENGTH => b[1].of.says <= MAX_PACKET_LENGTH
           /\ Len(b) > MAX_PACKET_LENGTH => Short(b[1].of)

Inv == TypeOK /\ AssertionsHold

\* The bytes on their way to c's peer.
Outgoing(c) == wire[c] \o write_buffer[c]

\* What a peer finds on its connection is whole packets, each addressed to the
\* id of that connection, however the senders' packets and the writes were cut,
\* whatever was dropped for want of room, and although the address, the
\* descriptor and the id may have been another connection's a moment ago.
\* (A packet is never addressed to the id that nobody has, tcp_server.cpp:238.)
WholePackets ==
  \A c \in Clients : \A k \in DOMAIN Outgoing(c) :
    LET b == Outgoing(c)[k]
    IN  /\ b.of.dst = cmgr.id[c] /\ c \in cmgr.managed
        /\ k = 1 => b.at = 1
        /\ IF b.at = b.of.length
             THEN k < Len(Outgoing(c)) => Outgoing(c)[k + 1].at = 1
             ELSE /\ k < Len(Outgoing(c))
                  /\ Outgoing(c)[k + 1] = [of |-> b.of, at |-> b.at + 1]

\* The messages in transit to c: those whose last byte is.
mailbox == [c \in Clients |-> PacketsIn(Outgoing(c))]

session ==
  [c \in Clients |-> IF c \notin cmgr.live        THEN "absent"
                     ELSE IF c \in cmgr.invalid THEN "gone"
                     ELSE IF c \in cmgr.managed THEN "bound"
                     ELSE "fresh"]

R == INSTANCE Relay WITH
       Conns <- Clients, Names <- Ids, NoConn <- NULL, Verified <- TRUE,
       Messages <- {p \in Packets : p.kind = "DATA" /\ ~Short(p)},
       Limit <- MAX_ALLOWED_WRITE_QUEUE \div MAX_PACKET_LENGTH,
       session <- session, owner <- [i \in Ids |-> cmgr.client_array[i]],
       mailbox <- mailbox

\* Byte by byte, the server implements the relay of packets: a packet moves
\* when its last byte does, and a queue of bytes that is too full for one
\* never refuses it while fewer packets wait than the buffer holds at least.  A
\* Short packet is relayed to nobody, nor is anything behind it.
RelaySpec == R!Spec
=============================================================================
