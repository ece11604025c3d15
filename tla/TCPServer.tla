----------------------------- MODULE TCPServer -----------------------------
(***************************************************************************)
(* The event loop of the server, v6/tcp_server.cpp, with the callbacks of  *)
(* v6/my_server.cpp, the parts of v6/client.cpp it calls, and around it    *)
(* what the kernel and the peers do.  (v5/tcp_server.cpp and v5/server.cpp *)
(* are the same code before it was split into classes.)                    *)
(*                                                                         *)
(* One action is one iteration of the inner loop of do_poll (one event) or *)
(* one of its two ends: epoll_wait, and the freeing of invalid Clients.    *)
(* Peers act between any two of them.                                      *)
(*                                                                         *)
(* Data is abstracted to packets.  A chunk a peer sends is a whole packet, *)
(* a PART: bytes that do not complete one, or SHORT: a header that says of *)
(* its packet that it is shorter than a header.  c names both a connection *)
(* and the Client object that will be allocated for it.                    *)
(***************************************************************************)
EXTENDS ClientMgr, Sequences

CONSTANTS Chunks,       \* what peers may send: records [kind, src, dst]
          MAX_EVENTS,   \* the length of the array given to epoll_wait
          RcvBuf,       \* chunks the kernel holds for the server to read
          SndBuf,       \* packets the kernel holds for the peer to read
          WriteQueue,   \* packets write_buffer can hold
          CallsMayFail, \* whether accept() and EPOLL_CTL_ADD may fail
          UrgentData    \* whether peers may send TCP urgent data

Kinds  == {"PART", "SHORT", "LARGE", "HELLO", "DATA", "BAD"}
Packet == [kind : Kinds, src : AllIds, dst : AllIds]

ASSUME TCPAssumption ==
  /\ Chunks \subseteq Packet
  /\ MAX_EVENTS \in Nat \ {0}
  /\ RcvBuf \in Nat \ {0}
  /\ SndBuf \in Nat \ {0}
  /\ WriteQueue \in Nat \ {0}
  /\ CallsMayFail \in BOOLEAN
  /\ UrgentData \in BOOLEAN

VARIABLES write_registered,  \* the Clients whose flag of that name is set
          queue,             \* the packets in each Client's write_buffer
          cev,               \* the events of the batch not yet handled
          pc,                \* "wait": before epoll_wait; "dispatch": after;
                             \* "aborted": an assertion failed; "undefined":
                             \* a read() went past the end of a read_buffer
          epoll,             \* the events the kernel watches, per connection
          swallows,          \* the Clients with a SHORT header in read_buffer
          peer,              \* the other end of each connection
          inbox,             \* chunks sent and not yet read by the server
          wire,              \* packets written and not yet read by the peer
          urgent             \* the connections with urgent data not passed yet

serverVars == <<cmgr, write_registered, queue, cev, pc, epoll, swallows>>
peerVars   == <<peer, inbox, wire, urgent>>
vars       == <<cmgr, write_registered, queue, cev, pc, epoll, swallows,
                peer, inbox, wire, urgent>>

\* What is asked for besides (EPOLLPRI, EPOLLERR, EPOLLHUP and EPOLLRDHUP) is
\* the same in every registration.
EpollEvents == {"IN", "OUT"}
Event == [ptr : Clients \cup {NULL}, events : SUBSET (EpollEvents \cup {"PRI"})]

\* The packets that can be relayed: DATA packets of peers with an id.
Relayed == {p \in Chunks : p.kind = "DATA" /\ p.src \in Ids}

TypeOK ==
  /\ CMTypeOK
  /\ write_registered \subseteq Clients
  /\ queue \in [Clients -> Seq(Relayed)]
  /\ cev \subseteq Event
  /\ pc \in {"wait", "dispatch", "aborted", "undefined"}
  /\ epoll \in [Clients -> SUBSET EpollEvents]
  /\ swallows \subseteq Clients
  /\ peer \in [Clients -> {"none", "open", "closed", "reset"}]
  /\ inbox \in [Clients -> Seq(Chunks)]
  /\ wire \in [Clients -> Seq(Relayed)]
  /\ urgent \subseteq Clients

Init ==
  /\ CMInit
  /\ write_registered = {}
  /\ queue = [c \in Clients |-> <<>>]
  /\ cev   = {}
  /\ pc    = "wait"
  /\ epoll = [c \in Clients |-> {}]
  /\ swallows = {}
  /\ peer  = [c \in Clients |-> "none"]
  /\ inbox = [c \in Clients |-> <<>>]
  /\ wire  = [c \in Clients |-> <<>>]
  /\ urgent = {}

-----------------------------------------------------------------------------
(* The kernel: connections waiting for accept(), and level-triggered       *)
(* readiness.  A reset is reported as EPOLLERR and EPOLLHUP, the end of the *)
(* peer's stream as EPOLLRDHUP: handle_event treats all of them as IN.      *)
(* Urgent data is not part of the stream (SO_OOBINLINE is not set), so it   *)
(* makes a socket EPOLLPRI and not EPOLLIN, until a read goes past its mark.*)

Backlog == {c \in Clients : peer[c] # "none" /\ c \notin cmgr.live}

Readable(c) == inbox[c] # <<>> \/ peer[c] \in {"closed", "reset"}
Writable(c) == Len(wire[c]) < SndBuf \/ peer[c] = "reset"

EventsOf(c) ==
  (IF epoll[c] # {} /\ Readable(c) THEN {"IN"} ELSE {})
    \cup (IF "OUT" \in epoll[c] /\ Writable(c) THEN {"OUT"} ELSE {})
    \cup (IF epoll[c] # {} /\ c \in urgent THEN {"PRI"} ELSE {})

Ready ==
  {[ptr |-> c, events |-> EventsOf(c)] : c \in {d \in Clients : EventsOf(d) # {}}}
    \cup (IF Backlog # {} THEN {[ptr |-> NULL, events |-> {"IN"}]} ELSE {})

\* epoll_wait returns: every ready descriptor, or as many as the array holds.
PollWait ==
  /\ pc = "wait"
  /\ \E B \in SUBSET Ready :
       /\ B # {}
       /\ B = Ready \/ Cardinality(B) = MAX_EVENTS
       /\ Cardinality(B) <= MAX_EVENTS
       /\ cev' = B
  /\ pc' = "dispatch"
  /\ UNCHANGED <<cmgr, write_registered, queue, epoll, swallows, peerVars>>

-----------------------------------------------------------------------------
(* Client::read_packet and Client::queue_packet. *)

\* The source of p is acceptable: it is given, and it is c's id if c has one.
SourceOk(m, c, p) ==
  p.src # UNIDENTIFIED_CLIENT /\ m.id[c] \in {UNIDENTIFIED_CLIENT, p.src}

\* What read_packet makes of chunk p when it completes with it: a Packet, a
\* HELLO consumed inside (a NULL with error 0), or an error.
verdict(m, c, p) ==
  CASE p.kind = "PART"  -> "EAGAIN"
    [] p.kind = "LARGE" -> "EMSGSIZE"
    [] p.kind = "HELLO" /\ SourceOk(m, c, p) -> "HELLO"
    [] p.kind = "DATA" /\ SourceOk(m, c, p)  -> "PACKET"
    [] OTHER            -> "EINVAL"

\* The first complete packet with a source names the Client, even when
\* validate_packet goes on to reject its type.
identify(m, c, p) ==
  IF p.kind \notin {"PART", "LARGE"} /\ m.id[c] = UNIDENTIFIED_CLIENT
    THEN SetId(m, c, p.src)
    ELSE m

\* Fault: the reader starts with a header again after a read that fell short.
FaultyHasChunk(c) == inbox[c] # <<>> /\ Head(inbox[c]).kind # "SHORT"

\* c is about to read a chunk that read_packet makes something of.
HasChunk(c) ==
  inbox[c] # <<>> /\ c \notin swallows /\ Head(inbox[c]).kind # "SHORT"

\* What c reads for the body of a SHORT packet: read_body computes an unsigned
\* length that wraps around, and asks for everything there is, for ever.
Swallowed(c) ==
  IF c \in swallows                      THEN inbox[c]
  ELSE IF HasChunk(c) \/ inbox[c] = <<>> THEN <<>>
  ELSE Tail(inbox[c])

\* The outcome of reading from c now.
read_packet(c) ==
  IF HasChunk(c)               THEN verdict(cmgr, c, Head(inbox[c]))
  ELSE IF Swallowed(c) # <<>> THEN "EAGAIN"
  ELSE CASE peer[c] = "closed" -> "ESHUTDOWN"
         [] peer[c] = "reset"  -> "ECONNRESET"
         [] OTHER              -> "EAGAIN"

\* cmgr with the effect of that read on Client::id.
identified(c) ==
  IF HasChunk(c) THEN identify(cmgr, c, Head(inbox[c])) ELSE cmgr

\* What the read takes from the kernel; it may go past the urgent mark.
consume(c) ==
  /\ inbox' = [inbox EXCEPT ![c] = IF HasChunk(c) THEN Tail(@) ELSE <<>>]
  /\ swallows' = IF HasChunk(c) \/ inbox[c] = <<>> THEN swallows ELSE swallows \cup {c}
  /\ \/ UNCHANGED urgent
     \/ inbox[c] # <<>> /\ urgent' = urgent \ {c}

\* A packet that does not fit in write_buffer is dropped.
queue_packet(d, p) ==
  queue' = [queue EXCEPT ![d] = IF Len(@) < WriteQueue THEN Append(@, p) ELSE @]

-----------------------------------------------------------------------------
(* The registration of write interest: the flag in the Client guards the    *)
(* call to epoll_ctl, and is set before it.  EPOLL_CTL_MOD of a descriptor  *)
(* that was never added fails, and nobody looks.                            *)

\* Fault: giving up the write interest removes the descriptor (EPOLL_CTL_DEL).
FaultyModify(c, evs) ==
  epoll' = [epoll EXCEPT ![c] = IF "OUT" \in evs THEN evs ELSE {}]

modify(c, evs) ==
  epoll' = [epoll EXCEPT ![c] = IF @ = {} THEN {} ELSE evs]

register_write(c) ==
  IF c \in write_registered
    THEN UNCHANGED <<write_registered, epoll>>
    ELSE /\ write_registered' = write_registered \cup {c}
         /\ modify(c, {"IN", "OUT"})

\* Fault: the flag is left set.
FaultyUnregisterWrite(c) ==
  IF c \notin write_registered
    THEN UNCHANGED <<write_registered, epoll>>
    ELSE /\ UNCHANGED write_registered
         /\ modify(c, {"IN"})

unregister_write(c) ==
  IF c \notin write_registered
    THEN UNCHANGED <<write_registered, epoll>>
    ELSE /\ write_registered' = write_registered \ {c}
         /\ modify(c, {"IN"})

-----------------------------------------------------------------------------
(* The handlers. *)

\* An event leaves the batch to be handled.
Take(e) == pc = "dispatch" /\ e \in cev /\ cev' = cev \ {e}

Dispatch(e) == Take(e) /\ UNCHANGED pc

\* Fault: the event of the listening socket is dropped.
FaultyAccept(e) ==
  /\ Dispatch(e)
  /\ e.ptr = NULL
  /\ UNCHANGED <<cmgr, write_registered, queue, epoll, swallows, peerVars>>

\* The listening socket is readable.  accept() may fail; if the new socket
\* cannot be added to epoll the Client is left without events.
accept_connection(e) ==
  /\ Dispatch(e)
  /\ e.ptr = NULL
  /\ \/ \E c \in Backlog :
          /\ cmgr' = NewClient(cmgr, c)
          /\ write_registered' = write_registered \ {c}
          /\ swallows' = swallows \ {c}
          /\ queue' = [queue EXCEPT ![c] = <<>>]
          /\ \/ epoll' = [epoll EXCEPT ![c] = {"IN"}]
             \/ CallsMayFail /\ UNCHANGED epoll
     \/ CallsMayFail /\ UNCHANGED <<cmgr, write_registered, queue, epoll, swallows>>
  /\ UNCHANGED peerVars

\* handle_event: an event with IN goes to handle_read_event, whatever else
\* it says; otherwise OUT goes to handle_write_event.
ForReading(e) == e.ptr # NULL /\ "IN" \in e.events
ForWriting(e) == e.ptr # NULL /\ "IN" \notin e.events /\ "OUT" \in e.events

\* An event with neither: assert(NULL && "we should never reach here").
NeitherEvent(e) ==
  /\ Take(e)
  /\ e.ptr # NULL
  /\ ~ForReading(e) /\ ~ForWriting(e)
  /\ pc' = "aborted"
  /\ UNCHANGED <<cmgr, write_registered, queue, epoll, swallows, peerVars>>

ReadEvent(e)  == Dispatch(e) /\ ForReading(e)
WriteEvent(e) == Dispatch(e) /\ ForWriting(e)

\* The Client was invalidated by an earlier event of the batch.
StaleEvent(e) ==
  /\ ReadEvent(e) \/ WriteEvent(e)
  /\ e.ptr \in cmgr.invalid
  /\ UNCHANGED <<cmgr, write_registered, queue, epoll, swallows, peerVars>>

\* What is swallowed is more than read_buffer has room for: read() writes past
\* its end, and what the process does then is not said.
ReadOverruns(e) ==
  /\ Take(e)
  /\ ForReading(e)
  /\ e.ptr \notin cmgr.invalid
  /\ Swallowed(e.ptr) # <<>>
  /\ pc' = "undefined"
  /\ consume(e.ptr)
  /\ UNCHANGED <<cmgr, write_registered, queue, epoll, peer, wire>>

\* Fault: a Client that an earlier event invalidated is handled as any other.
FaultyReads(e, outcomes) ==
  /\ ReadEvent(e)
  /\ read_packet(e.ptr) \in outcomes
  /\ consume(e.ptr)
  /\ UNCHANGED <<peer, wire>>

\* handle_read_event reads from a valid Client, with one of these outcomes.
Reads(e, outcomes) ==
  /\ ReadEvent(e)
  /\ e.ptr \notin cmgr.invalid
  /\ read_packet(e.ptr) \in outcomes
  /\ consume(e.ptr)
  /\ UNCHANGED <<peer, wire>>

\* Too little arrived for a packet, or nothing, or what was swallowed fits in
\* read_buffer: back to epoll.
ReadPartial(e) ==
  /\ Reads(e, {"EAGAIN"})
  /\ UNCHANGED <<cmgr, write_registered, queue, epoll>>

\* Fault: a closed connection is reported and otherwise ignored.
FaultyReadFails(e) ==
  /\ Reads(e, {"EMSGSIZE", "EINVAL", "ESHUTDOWN", "ECONNRESET"})
  /\ cmgr' = IF read_packet(e.ptr) = "ESHUTDOWN"
               THEN cmgr
               ELSE mark_client_as_invalid(identified(e.ptr), e.ptr)
  /\ UNCHANGED <<write_registered, queue, epoll>>

\* A protocol violation, the end of the stream or an error of the socket.
ReadFails(e) ==
  /\ Reads(e, {"EMSGSIZE", "EINVAL", "ESHUTDOWN", "ECONNRESET"})
  /\ cmgr' = mark_client_as_invalid(identified(e.ptr), e.ptr)
  /\ UNCHANGED <<write_registered, queue, epoll>>

\* A HELLO: the Client is authenticated and managed.
ReadHello(e) ==
  /\ Reads(e, {"HELLO"})
  /\ cmgr' = manage(identified(e.ptr), e.ptr)
  /\ UNCHANGED <<write_registered, queue, epoll>>

\* Fault: the packet goes back to its sender.
FaultyDestination(p) == find_client_by_id(cmgr', p.src)

destination(p) == find_client_by_id(cmgr', p.dst)

\* A packet that finds no Client under its destination is dropped; the
\* result of queue_packet is not looked at.
send_data_to_client(p) ==
  IF destination(p) = NULL
    THEN UNCHANGED <<write_registered, queue, epoll>>
    ELSE queue_packet(destination(p), p) /\ register_write(destination(p))

\* A DATA packet: the Client is managed if this is its first, then
\* on_data_received relays the packet.
ReadData(e) ==
  /\ Reads(e, {"PACKET"})
  /\ cmgr' = manage(identified(e.ptr), e.ptr)
  /\ send_data_to_client(Head(inbox[e.ptr]))

\* handle_write_event is called for a valid Client.
Writes(e) ==
  /\ WriteEvent(e)
  /\ e.ptr \notin cmgr.invalid
  /\ UNCHANGED <<swallows, peer, inbox, urgent>>

\* Nothing is pending any more: give up the write interest.
WriteNothing(e) ==
  /\ Writes(e)
  /\ queue[e.ptr] = <<>>
  /\ unregister_write(e.ptr)
  /\ UNCHANGED <<cmgr, queue, wire>>

\* Fault: the write interest is given up with packets still pending.
FaultyWriteSome(e) ==
  LET c == e.ptr
      room == SndBuf - Len(wire[c])
      n    == IF Len(queue[c]) <= room THEN Len(queue[c]) ELSE room
  IN  /\ Writes(e)
      /\ queue[c] # <<>>
      /\ peer[c] # "reset"
      /\ wire'  = [wire EXCEPT ![c] = @ \o SubSeq(queue[c], 1, n)]
      /\ queue' = [queue EXCEPT ![c] = SubSeq(@, n + 1, Len(@))]
      /\ unregister_write(c)
      /\ UNCHANGED cmgr

\* write_data moves what the kernel takes and stops when it blocks; the
\* write interest stays, even when everything was written.
WriteSome(e) ==
  LET c == e.ptr
      room == SndBuf - Len(wire[c])
      n    == IF Len(queue[c]) <= room THEN Len(queue[c]) ELSE room
  IN  /\ Writes(e)
      /\ queue[c] # <<>>
      /\ peer[c] # "reset"
      /\ wire'  = [wire EXCEPT ![c] = @ \o SubSeq(queue[c], 1, n)]
      /\ queue' = [queue EXCEPT ![c] = SubSeq(@, n + 1, Len(@))]
      /\ UNCHANGED <<cmgr, write_registered, epoll>>

\* The connection was reset after epoll_wait reported it writable.
WriteFails(e) ==
  /\ Writes(e)
  /\ queue[e.ptr] # <<>>
  /\ peer[e.ptr] = "reset"
  /\ cmgr' = mark_client_as_invalid(cmgr, e.ptr)
  /\ UNCHANGED <<write_registered, queue, epoll, wire>>

\* The batch is done: the invalid Clients are deleted, which closes their
\* sockets and so removes them from epoll.
EndOfBatch ==
  /\ pc = "dispatch"
  /\ cev = {}
  /\ pc' = "wait"
  /\ LET freed == Listed(cmgr)
         Cleared(f, v) == [c \in Clients |-> IF c \in freed THEN v ELSE f[c]]
     IN  /\ cmgr' = free_invalid_clients(cmgr)
         /\ write_registered' = write_registered \ freed
         /\ swallows' = swallows \ freed
         /\ urgent' = urgent \ freed
         /\ queue' = Cleared(queue, <<>>)
         /\ epoll' = Cleared(epoll, {})
         /\ peer'  = Cleared(peer, "none")
         /\ inbox' = Cleared(inbox, <<>>)
         /\ wire'  = Cleared(wire, <<>>)
  /\ UNCHANGED cev

HandleEvent(e) ==
  \/ accept_connection(e)
  \/ NeitherEvent(e)
  \/ StaleEvent(e)
  \/ ReadOverruns(e)
  \/ ReadPartial(e)
  \/ ReadFails(e)
  \/ ReadHello(e)
  \/ ReadData(e)
  \/ WriteNothing(e)
  \/ WriteSome(e)
  \/ WriteFails(e)

do_poll == PollWait \/ (\E e \in cev : HandleEvent(e)) \/ EndOfBatch

-----------------------------------------------------------------------------
(* The peers. *)

PeerConnect(c) ==
  /\ peer[c] = "none"
  /\ peer' = [peer EXCEPT ![c] = "open"]
  /\ UNCHANGED <<serverVars, inbox, wire, urgent>>

PeerSend(c, p) ==
  /\ peer[c] = "open"
  /\ Len(inbox[c]) < RcvBuf
  /\ inbox' = [inbox EXCEPT ![c] = Append(@, p)]
  /\ UNCHANGED <<serverVars, peer, wire, urgent>>

\* A byte of urgent data (MSG_OOB).
PeerUrges(c) ==
  /\ UrgentData
  /\ peer[c] = "open"
  /\ c \notin urgent
  /\ urgent' = urgent \cup {c}
  /\ UNCHANGED <<serverVars, peer, inbox, wire>>

PeerRead(c) ==
  /\ peer[c] = "open"
  /\ wire[c] # <<>>
  /\ wire' = [wire EXCEPT ![c] = Tail(@)]
  /\ UNCHANGED <<serverVars, peer, inbox, urgent>>

\* The peer closes its socket.
PeerClose(c) ==
  /\ peer[c] = "open"
  /\ peer' = [peer EXCEPT ![c] = "closed"]
  /\ UNCHANGED <<serverVars, inbox, wire, urgent>>

\* The connection breaks, or a closed socket answers a write with a reset.
PeerReset(c) ==
  /\ peer[c] \in {"open", "closed"}
  /\ peer' = [peer EXCEPT ![c] = "reset"]
  /\ UNCHANGED <<serverVars, inbox, wire, urgent>>

Peer(c) ==
  \/ PeerConnect(c)
  \/ \E p \in Chunks : PeerSend(c, p)
  \/ PeerUrges(c)
  \/ PeerRead(c)
  \/ PeerClose(c)
  \/ PeerReset(c)

\* Nothing is said of a process that aborted or whose memory is damaged.
Next ==
  /\ pc \in {"wait", "dispatch"}
  /\ do_poll \/ \E c \in Clients : Peer(c)

Spec == Init /\ [][Next]_vars

\* The scheduling assumptions.  The server's thread runs whenever epoll_wait
\* has something to return or a batch is not finished.
ServerRuns == WF_vars(do_poll)

\* The peers read what they are sent.  (Nothing else is asked of them.)
PeersRead == \A c \in Clients : WF_vars(PeerRead(c))

LiveSpec == Spec /\ ServerRuns /\ PeersRead

-----------------------------------------------------------------------------
(* Safety. *)

Valid == cmgr.live \ cmgr.invalid

\* The reason for the list of invalid Clients (cmgr.hpp:12): an event that is
\* still in the batch never points to a Client that was freed, nor to one
\* allocated at the address of a freed one, although the handling of any
\* event may invalidate the Client of any other.  Between batches no invalid
\* Client is left.
NoDanglingEvent ==
  /\ \A e \in cev : e.ptr # NULL => e.ptr \in cmgr.live /\ epoll[e.ptr] # {}
  /\ pc = "wait" => cev = {} /\ cmgr.invalid = {}

\* Whatever is in the write_buffer of a valid Client will cause an EPOLLOUT:
\* the flag that suppresses epoll_ctl calls never says "registered" when the
\* kernel disagrees, and no packet is queued behind a missing registration.
NoLostWakeup ==
  \A c \in Valid :
    /\ c \in write_registered <=> "OUT" \in epoll[c]
    /\ queue[c] # <<>> => "OUT" \in epoll[c]

\* A Client whose registration with epoll failed stays outside: it is never
\* managed, so nothing is ever queued for it and register_write never has to
\* modify a registration that does not exist.
OrphanIsInert ==
  \A c \in cmgr.live :
    epoll[c] = {} => /\ c \notin cmgr.managed \cup cmgr.invalid
                     /\ queue[c] = <<>> /\ wire[c] = <<>>

\* Every packet on its way to a peer is addressed to the id of that peer's
\* Client: after a kick nothing sent to the new owner of an id lies in the
\* buffers of the old one's next connection, and the reverse.
RoutedToOwner ==
  \A c \in Clients :
    LET mail == wire[c] \o queue[c]
    IN  \A k \in 1 .. Len(mail) :
          /\ c \in cmgr.managed
          /\ mail[k].dst = cmgr.id[c]

\* A peer whose header gave a short length is mute from then on: whatever the
\* bytes behind it look like, they do not name its Client, and nothing is
\* relayed under the name it has, for as long as it owns that name.
MuteBehindShort ==
  [][\A c \in swallows \ (cmgr.invalid \cup cmgr'.invalid) :
       /\ c \notin cmgr.managed => c \notin cmgr'.managed
       /\ c \in cmgr.managed =>
            \A d \in Clients : \A p \in Relayed :
              queue'[d] = Append(queue[d], p) => p.src # cmgr.id[c]]_vars

-----------------------------------------------------------------------------
(* The server implements the relay. *)

\* The life of c as its peer could observe it.
session ==
  [c \in Clients |-> IF c \notin cmgr.live        THEN "absent"
                     ELSE IF c \in cmgr.invalid THEN "gone"
                     ELSE IF c \in cmgr.managed THEN "bound"
                     ELSE "fresh"]

\* The messages in transit to c, oldest first.
mailbox == [c \in Clients |-> wire[c] \o queue[c]]

R == INSTANCE Relay WITH
       Conns <- Clients, Names <- Ids, NoConn <- NULL, Verified <- TRUE, Messages <- Relayed,
       Limit <- WriteQueue, session <- session,
       owner <- [i \in Ids |-> cmgr.client_array[i]], mailbox <- mailbox

\* Every step of the server is a step of the relay or changes nothing there:
\* packets reach whoever owns the destination id at that moment, in order,
\* once, and under the sender's own id; they are dropped only if there is no
\* owner or its buffer is full.
RelaySpec == R!Spec

-----------------------------------------------------------------------------
(* Liveness. *)

\* A connection that waits in the backlog is accepted (if it can be).
EveryoneAccepted == \A c \in Clients : c \in Backlog ~> c \in cmgr.live

\* A connection that ended, or that the server gave up, is freed, however
\* much was sent on it before it ended.
EveryoneReclaimed ==
  \A c \in Clients :
    c \in cmgr.live /\ (c \in cmgr.invalid \/ peer[c] \in {"closed", "reset"})
      ~> c \notin cmgr.live

\* From some time on c's peer is silent and connected.
FallsSilent(c) == <>[](inbox[c] = <<>> /\ peer[c] = "open")

\* The packets queued for a peer that reads are all written in the end, if
\* the peer itself stops sending.
FlushedOnceSilent ==
  \A c \in Clients :
    FallsSilent(c) => []<>(queue[c] = <<>> \/ c \notin cmgr.live)

\* client.cpp:232 says of a write that blocked: "epoll will call us back".
\* What is queued for a connected peer that reads is written in the end.
CalledBackToWrite ==
  \A c \in Clients :
    <>[](peer[c] = "open") => []<>(queue[c] = <<>> \/ c \notin cmgr.live)
=============================================================================
