------------------------------ MODULE V4Server ------------------------------
(***************************************************************************)
(* The server of the fourth generation, in C: the table of clients and the *)
(* list of invalid ones (v4/client.c), the event loop and its handlers     *)
(* (v4/event.c), and the callbacks (v4/main.c).  It differs from TCPServer *)
(* in that one read may bring several packets, which are then relayed one  *)
(* by one, and in what it checks: the first packet names the client, and a *)
(* later one may claim any source.  How the bytes become packets is        *)
(* V4Reader's subject; here a read brings whole packets or none.           *)
(*                                                                         *)
(* One action is epoll_wait, the handling of one event, one turn of the    *)
(* loop of process_packets, or the end of a batch.                         *)
(***************************************************************************)
EXTENDS Naturals, Sequences, FiniteSets

CONSTANTS Clients,      \* addresses of struct _client
          Ids,
          UNIDENTIFIED_CLIENT,
          NULL,
          Packets,      \* what peers may send: records [kind, src, dst]; one that
                        \* is too long is LARGE, of an unknown type a HELLO
          MAX_EVENTS,
          RcvBuf,       \* packets the kernel holds for the server to read
          SndBuf,       \* packets the kernel holds for the peer to read
          WriteQueue,   \* packets write_buffer can hold
          CallsMayFail  \* whether accept() and EPOLL_CTL_ADD may fail

AllIds == Ids \cup {UNIDENTIFIED_CLIENT}

ASSUME V4ServerAssumption ==
  /\ UNIDENTIFIED_CLIENT \notin Ids
  /\ NULL \notin Clients
  /\ Packets \subseteq [kind : {"HELLO", "DATA", "LARGE"}, src : AllIds, dst : AllIds]
  /\ {MAX_EVENTS, RcvBuf, SndBuf, WriteQueue} \subseteq Nat \ {0}
  /\ CallsMayFail \in BOOLEAN

VARIABLES live,                 \* the clients allocated and not yet freed
          id, invalid, write_registered, queue,  \* fields of struct _client
          client_array,
          invalid_client_list,
          cev,                  \* the events of the batch not yet handled
          pc,                   \* "wait", "dispatch", "process" or "aborted"
          current,              \* the client that process_packets works on
          read_buffer,          \* and its packets that are still to be handled
          stuck,                \* clients whose buffer begins with what the
                                \* assertions of read_packets exclude
          epoll,                \* the events the kernel watches, per client
          peer,                 \* the other end of each connection
          inbox, wire           \* the kernel's buffers of each connection

cmgrVars   == <<live, id, invalid, client_array, invalid_client_list>>
writeVars  == <<write_registered, queue, epoll>>
readVars   == <<current, read_buffer, stuck>>
peerVars   == <<peer, inbox, wire>>
serverVars == <<cmgrVars, writeVars, readVars, cev, pc>>
vars       == <<serverVars, peerVars>>

Event == [ptr : Clients \cup {NULL}, events : SUBSET {"IN", "OUT"}]

TypeOK ==
  /\ live \subseteq Clients
  /\ id \in [Clients -> AllIds]
  /\ invalid \subseteq Clients
  /\ write_registered \subseteq Clients
  /\ queue \in [Clients -> Seq(Packets)]
  /\ client_array \in [AllIds -> Clients \cup {NULL}]
  /\ invalid_client_list \in Seq(Clients)
  /\ cev \subseteq Event
  /\ pc \in {"wait", "dispatch", "process", "aborted"}
  /\ current \in Clients \cup {NULL}
  /\ read_buffer \in Seq(Packets)
  /\ stuck \subseteq Clients
  /\ epoll \in [Clients -> SUBSET {"IN", "OUT"}]
  /\ peer \in [Clients -> {"none", "open", "closed", "reset"}]
  /\ inbox \in [Clients -> Seq(Packets)]
  /\ wire \in [Clients -> Seq(Packets)]

Init ==
  /\ live = {}
  /\ id = [c \in Clients |-> UNIDENTIFIED_CLIENT]
  /\ invalid = {}
  /\ write_registered = {}
  /\ queue = [c \in Clients |-> <<>>]
  /\ client_array = [i \in AllIds |-> NULL]
  /\ invalid_client_list = <<>>
  /\ cev = {}
  /\ pc = "wait"
  /\ current = NULL
  /\ read_buffer = <<>>
  /\ stuck = {}
  /\ epoll = [c \in Clients |-> {}]
  /\ peer = [c \in Clients |-> "none"]
  /\ inbox = [c \in Clients |-> <<>>]
  /\ wire = [c \in Clients |-> <<>>]

-----------------------------------------------------------------------------
(* client.c.  An operator whose name starts with Faulty is the operation    *)
(* that follows it with a bug put in.                                       *)

\* Fault: the table keeps the entry, for whoever connects next.
FaultyUnlist(c) == client_array

\* The table without c.
Unlist(c) ==
  [i \in AllIds |-> IF i = id[c] /\ i # UNIDENTIFIED_CLIENT /\ client_array[i] = c
                      THEN NULL
                      ELSE client_array[i]]

mark_client_as_invalid(c) ==
  /\ invalid' = invalid \cup {c}
  /\ client_array' = Unlist(c)
  /\ invalid_client_list' = <<c>> \o invalid_client_list
  /\ UNCHANGED <<live, id>>

\* Fault: the client is entered before the previous one is looked up.
FaultyAdd(c, i) ==
  /\ client_array' = [client_array EXCEPT ![i] = c]
  /\ id' = [id EXCEPT ![c] = i]
  /\ UNCHANGED <<live, invalid, invalid_client_list>>

\* The previous client of that id is marked, its entry overwritten.
add_new_client_to_array(c, i) ==
  LET previous == client_array[i]
  IN  /\ IF previous = NULL
           THEN UNCHANGED <<invalid, invalid_client_list>>
           ELSE /\ invalid' = invalid \cup {previous}
                /\ invalid_client_list' = <<previous>> \o invalid_client_list
      /\ client_array' = [client_array EXCEPT ![i] = c]
      /\ id' = [id EXCEPT ![c] = i]
      /\ UNCHANGED live

find_client_by_id(i) == client_array[i]

InList == {invalid_client_list[k] : k \in 1 .. Len(invalid_client_list)}

Without(f, S, v) == [c \in Clients |-> IF c \in S THEN v ELSE f[c]]

\* Every client on the list is freed, which closes its socket.
free_invalid_clients ==
  /\ live' = live \ InList
  /\ id' = Without(id, InList, UNIDENTIFIED_CLIENT)
  /\ invalid' = invalid \ InList
  /\ invalid_client_list' = <<>>
  /\ UNCHANGED client_array
  /\ write_registered' = write_registered \ InList
  /\ queue' = Without(queue, InList, <<>>)
  /\ stuck' = stuck \ InList
  /\ epoll' = Without(epoll, InList, {})
  /\ peer' = Without(peer, InList, "none")
  /\ inbox' = Without(inbox, InList, <<>>)
  /\ wire' = Without(wire, InList, <<>>)

-----------------------------------------------------------------------------
(* The kernel, as in TCPServer. *)

Backlog == {c \in Clients : peer[c] # "none" /\ c \notin live}
Readable(c) == inbox[c] # <<>> \/ peer[c] \in {"closed", "reset"}
Writable(c) == Len(wire[c]) < SndBuf \/ peer[c] = "reset"

EventsOf(c) ==
  {ev \in epoll[c] : IF ev = "IN" THEN Readable(c) ELSE Writable(c)}

Ready ==
  {[ptr |-> c, events |-> EventsOf(c)] : c \in {d \in Clients : EventsOf(d) # {}}}
    \cup (IF Backlog # {} THEN {[ptr |-> NULL, events |-> {"IN"}]} ELSE {})

-----------------------------------------------------------------------------
(* event.c. *)

\* epoll_wait returns every ready descriptor, or as many as the array holds.
PollWait ==
  /\ pc = "wait"
  /\ \E B \in SUBSET Ready :
       /\ B # {}
       /\ IF Cardinality(Ready) <= MAX_EVENTS THEN B = Ready
                                              ELSE Cardinality(B) = MAX_EVENTS
       /\ cev' = B
  /\ pc' = "dispatch"
  /\ UNCHANGED <<cmgrVars, writeVars, readVars, peerVars>>

\* An event leaves the batch to be handled.
Dispatch(e) == pc = "dispatch" /\ e \in cev /\ cev' = cev \ {e}

\* A client is allocated and registered for reading; the result of that is
\* not looked at.
Accept(e) ==
  /\ Dispatch(e)
  /\ e.ptr = NULL
  /\ \E c \in Backlog :
       /\ live' = live \cup {c}
       /\ \/ epoll' = [epoll EXCEPT ![c] = {"IN"}]
          \/ CallsMayFail /\ UNCHANGED epoll
  /\ UNCHANGED <<id, invalid, client_array, invalid_client_list,
                 write_registered, queue, readVars, pc, peerVars>>

AcceptFails(e) ==
  /\ Dispatch(e)
  /\ e.ptr = NULL
  /\ CallsMayFail
  /\ UNCHANGED <<cmgrVars, writeVars, readVars, pc, peerVars>>

accept_connection(e) == Accept(e) \/ AcceptFails(e)

\* handle_event: an event that says IN is never looked at for OUT.
ReadEvent(e)  == Dispatch(e) /\ e.ptr # NULL /\ "IN" \in e.events
WriteEvent(e) == Dispatch(e) /\ e.ptr # NULL /\ "IN" \notin e.events

\* Fault: stale clients are not told from others.
FaultyStale(c) == FALSE

Stale(c) == c \in invalid

StaleEvent(e) ==
  /\ ReadEvent(e) \/ WriteEvent(e)
  /\ Stale(e.ptr)
  /\ UNCHANGED <<cmgrVars, writeVars, readVars, pc, peerVars>>

\* read_packets is called for a valid client.
Reads(e) == ReadEvent(e) /\ ~Stale(e.ptr) /\ e.ptr \notin stuck

\* One or more packets are complete, and processed next.
ReadPackets(e) ==
  /\ Reads(e)
  /\ \E n \in 1 .. Len(inbox[e.ptr]) :
       /\ inbox[e.ptr][1].kind # "LARGE"
       /\ read_buffer' = SubSeq(inbox[e.ptr], 1, n)
       /\ inbox' = [inbox EXCEPT ![e.ptr] = SubSeq(@, n + 1, Len(@))]
  /\ current' = e.ptr
  /\ pc' = "process"
  /\ UNCHANGED <<stuck, cmgrVars, writeVars, peer, wire>>

\* No packet is complete (EAGAIN).
ReadPartial(e) ==
  /\ Reads(e)
  /\ inbox[e.ptr] # <<>>
  /\ UNCHANGED <<cmgrVars, writeVars, readVars, pc, peerVars>>

\* The connection was closed or reset, or is in error, or the packet is too long.
ReadFails(e) ==
  /\ Reads(e)
  /\ inbox[e.ptr] # <<>> => inbox[e.ptr][1].kind = "LARGE"
  /\ mark_client_as_invalid(e.ptr)
  /\ UNCHANGED <<writeVars, readVars, pc, peerVars>>

\* What process_packets left in the buffer fails an assertion of read_packets
\* (event.c:288, 291), which ends the process.
ReadAborts(e) ==
  /\ pc = "dispatch"
  /\ e.ptr \in stuck
  /\ "IN" \in e.events
  /\ ~Stale(e.ptr)
  /\ pc' = "aborted"
  /\ UNCHANGED <<cmgrVars, writeVars, readVars, cev, peerVars>>

\* The write interest: the flag is set, or cleared, before epoll is told.
register_write(c) ==
  IF c \in write_registered
    THEN UNCHANGED <<write_registered, epoll>>
    ELSE /\ write_registered' = write_registered \cup {c}
         /\ epoll' = [epoll EXCEPT ![c] = IF @ = {} THEN {} ELSE {"IN", "OUT"}]

unregister_write(c) ==
  IF c \in write_registered
    THEN /\ write_registered' = write_registered \ {c}
         /\ epoll' = [epoll EXCEPT ![c] = IF @ = {} THEN {} ELSE {"IN"}]
    ELSE UNCHANGED <<write_registered, epoll>>

\* Appends to the write_buffer of whoever now has the id p is addressed to.
send_data_to_client(p) ==
  LET d == client_array'[p.dst]
  IN  IF d = NULL
        THEN UNCHANGED writeVars
        ELSE IF Len(queue[d]) >= WriteQueue
          THEN UNCHANGED writeVars
          ELSE queue' = [queue EXCEPT ![d] = Append(@, p)] /\ register_write(d)

\* The packet at the start of the buffer, which is complete unless it is LARGE.
NextPacket == Head(read_buffer)

validate_packet(p) == p.src # UNIDENTIFIED_CLIENT

\* One turn of process_packets: the first packet names the client, then
\* onDataReceived relays it if it is data.
ProcessPacket ==
  /\ pc = "process"
  /\ NextPacket.kind # "LARGE"
  /\ validate_packet(NextPacket)
  /\ IF id[current] = UNIDENTIFIED_CLIENT
       THEN add_new_client_to_array(current, NextPacket.src)
       ELSE UNCHANGED cmgrVars
  /\ IF NextPacket.kind = "DATA"
       THEN send_data_to_client(NextPacket)
       ELSE UNCHANGED writeVars
  /\ read_buffer' = Tail(read_buffer)
  /\ IF Tail(read_buffer) = <<>>
       THEN pc' = "dispatch" /\ current' = NULL
       ELSE UNCHANGED <<pc, current>>
  /\ UNCHANGED <<stuck, cev, peerVars>>

\* The next packet never gets complete, or is not valid: the loop ends, and
\* neither the packet nor what is behind it leaves the buffer.
ProcessStops ==
  /\ pc = "process"
  /\ NextPacket.kind = "LARGE" \/ ~validate_packet(NextPacket)
  /\ stuck' = stuck \cup {current}
  /\ read_buffer' = <<>> /\ current' = NULL
  /\ pc' = "dispatch"
  /\ UNCHANGED <<cmgrVars, writeVars, cev, peerVars>>

\* Nothing is pending any more.
WriteNothing(e) ==
  /\ WriteEvent(e)
  /\ ~Stale(e.ptr)
  /\ queue[e.ptr] = <<>>
  /\ unregister_write(e.ptr)
  /\ UNCHANGED <<cmgrVars, queue, readVars, pc, peerVars>>

\* write() is called until nothing is left or it blocks.
WriteSome(e) ==
  LET c == e.ptr
      room == SndBuf - Len(wire[c])
      n    == IF Len(queue[c]) <= room THEN Len(queue[c]) ELSE room
  IN  /\ WriteEvent(e)
      /\ ~Stale(c)
      /\ queue[c] # <<>>
      /\ peer[c] # "reset"
      /\ wire'  = [wire EXCEPT ![c] = @ \o SubSeq(queue[c], 1, n)]
      /\ queue' = [queue EXCEPT ![c] = SubSeq(@, n + 1, Len(@))]
      /\ UNCHANGED <<cmgrVars, write_registered, epoll, readVars, pc, peer, inbox>>

WriteFails(e) ==
  /\ WriteEvent(e)
  /\ ~Stale(e.ptr)
  /\ queue[e.ptr] # <<>>
  /\ peer[e.ptr] = "reset"
  /\ mark_client_as_invalid(e.ptr)
  /\ UNCHANGED <<writeVars, readVars, pc, peerVars>>

\* The batch is done.
EndOfBatch ==
  /\ pc = "dispatch"
  /\ cev = {}
  /\ pc' = "wait"
  /\ free_invalid_clients
  /\ UNCHANGED <<current, read_buffer, cev>>

handle_event(e) ==
  \/ accept_connection(e)
  \/ StaleEvent(e)
  \/ ReadPackets(e)
  \/ ReadPartial(e)
  \/ ReadFails(e)
  \/ ReadAborts(e)
  \/ WriteNothing(e)
  \/ WriteSome(e)
  \/ WriteFails(e)

do_poll ==
  \/ PollWait
  \/ \E e \in cev : handle_event(e)
  \/ ProcessPacket \/ ProcessStops
  \/ EndOfBatch

-----------------------------------------------------------------------------
(* The peers. *)

PeerConnect(c) ==
  /\ peer[c] = "none"
  /\ peer' = [peer EXCEPT ![c] = "open"]
  /\ UNCHANGED <<serverVars, inbox, wire>>

\* What is sent to an invalid client is never read.
PeerSend(c) ==
  /\ peer[c] = "open"
  /\ c \notin invalid
  /\ Len(inbox[c]) < RcvBuf
  /\ \E p \in Packets : inbox' = [inbox EXCEPT ![c] = Append(@, p)]
  /\ UNCHANGED <<serverVars, peer, wire>>

PeerRead(c) ==
  /\ peer[c] = "open"
  /\ wire[c] # <<>>
  /\ wire' = [wire EXCEPT ![c] = Tail(@)]
  /\ UNCHANGED <<serverVars, peer, inbox>>

\* It closes, or the connection is reset, perhaps after that.
PeerGoes(c) ==
  /\ \/ peer[c] = "open" /\ peer' = [peer EXCEPT ![c] = "closed"]
     \/ peer[c] \in {"open", "closed"} /\ peer' = [peer EXCEPT ![c] = "reset"]
  /\ UNCHANGED <<serverVars, inbox, wire>>

\* Once the process has ended nobody is left to talk to.
Peer(c) ==
  /\ pc # "aborted"
  /\ PeerConnect(c) \/ PeerSend(c) \/ PeerRead(c) \/ PeerGoes(c)

Next == do_poll \/ \E c \in Clients : Peer(c)

Spec == Init /\ [][Next]_vars

-----------------------------------------------------------------------------
(* Properties. *)

\* The reason for the list (client.c:18-23), and the assertion in free_client
\* (client.c:71): what an event or process_packets points to is not freed, and
\* no client is freed that is still in the table.
NoDanglingPointer ==
  /\ \A e \in cev : e.ptr # NULL => e.ptr \in live /\ epoll[e.ptr] # {}
  /\ pc = "process" => current \in live \ invalid /\ read_buffer # <<>>
  /\ \A c \in InList : c \in live /\ client_array[id[c]] # c

\* The type invariant, and the pointers it says nothing of.
Inv == TypeOK /\ NoDanglingPointer

\* ClientMgr's view of the table: a client is managed once it has an id.
C == INSTANCE ClientMgr WITH
       cmgr <- [live         |-> live,
                id           |-> id,
                invalid      |-> invalid,
                managed      |-> {c \in Clients : id[c] # UNIDENTIFIED_CLIENT},
                client_array |-> client_array,
                listed       |-> [c \in Clients |->
                  Cardinality({k \in 1 .. Len(invalid_client_list) :
                                 invalid_client_list[k] = c})]]

\* Without v6's class around it, v4 uses its table and list as ClientMgr would:
\* every promise that is proved of ClientMgr holds for v4, too.
CMSpec == C!CMSpec

session ==
  [c \in Clients |-> IF c \notin live       THEN "absent"
                     ELSE IF c \in invalid THEN "gone"
                     ELSE IF id[c] # UNIDENTIFIED_CLIENT THEN "bound"
                     ELSE "fresh"]

R == INSTANCE Relay WITH
       Conns <- Clients, Names <- Ids, NoConn <- NULL,
       Messages <- {p \in Packets : p.kind = "DATA"}, Verified <- FALSE,
       Limit <- WriteQueue, session <- session,
       owner <- [i \in Ids |-> client_array[i]],
       mailbox <- [c \in Clients |-> wire[c] \o queue[c]]

\* v4 implements the relay that v6 implements, although it relays several
\* packets within one event, but for one thing: a connection that has a name
\* may send under any other (event.c:250), which takes nothing from its owner.
RelaySpec == R!Spec
=============================================================================
