----------------------------- MODULE TCPClient -----------------------------
(***************************************************************************)
(* The client program's connection to the server, v6/tcp_client.cpp, with  *)
(* the callbacks of v6/my_client.cpp: connecting without blocking, the     *)
(* handshake, losing the connection and connecting again.                  *)
(*                                                                         *)
(* The client's epoll watches at most one descriptor, so a batch holds at  *)
(* most one event.  One action is epoll_wait, the handling of its event,   *)
(* or the end of the iteration; kernel and server act between any two.     *)
(*                                                                         *)
(* Packets are abstracted as in TCPServer.  What an application built on   *)
(* the class may do is one thing: answer a packet from on_data_received.   *)
(***************************************************************************)
EXTENDS Naturals, Sequences

CONSTANTS Chunks,        \* what the server may send: a subset of Kinds
          SndBuf,        \* packets the kernel holds for the server
          RcvBuf,        \* chunks the kernel holds for the client
          WriteQueue,    \* packets write_buffer can hold
          Answers,       \* whether on_data_received sends a packet
          Kicks,         \* whether the server may close a connection it likes
          Failing        \* the system calls that may fail at once

Kinds == {"PART", "DATA", "HELLO", "BAD", "LARGE"}
Packets == {"HELLO", "DATA"}

ASSUME TCPClientAssumption ==
  /\ Chunks \subseteq Kinds
  /\ SndBuf \in Nat \ {0}
  /\ RcvBuf \in Nat \ {0}
  /\ WriteQueue \in Nat \ {0}
  /\ {Answers, Kicks} \subseteq BOOLEAN
  /\ Failing \subseteq {"connect", "epoll_ctl"}

VARIABLES status,            \* of the process: "running", "exited", or
                             \* "crashed" (undefined behaviour)
          state,             \* TCPClient::state
          me,                \* what the pointer `me` points to: "NULL", the
                             \* "client" there is, a "dangling" one that was
                             \* deleted, or wherever "unset" memory points
          write_registered,  \* fields of *me
          queue,
          pc,                \* "start", "wait", "dispatch", "rework"
          cev,               \* the event of the batch, if any
          epoll,             \* the registration of server_fd
          conn,              \* the connection attempt or connection
          inbox,             \* chunks sent by the server and not yet read
          wire,              \* packets written and not yet read by the server
          heard,             \* the first packet the server read from conn
          up                 \* whether the server is up

meVars     == <<me, write_registered, queue>>
loopVars   == <<status, pc, cev>>
kernelVars == <<conn, inbox, wire, heard>>
vars == <<status, state, me, write_registered, queue, pc, cev, epoll,
          conn, inbox, wire, heard, up>>

EpollEvents == {"IN", "OUT"}
NotWatched == [ptr |-> "none", events |-> {}]

TypeOK ==
  /\ status \in {"running", "exited", "crashed"}
  /\ state \in {"DISCONNECTED", "CONNECTING", "CONNECTED"}
  /\ me \in {"NULL", "unset", "client", "dangling"}
  /\ write_registered \in BOOLEAN
  /\ queue \in Seq(Packets)
  /\ pc \in {"start", "wait", "dispatch", "rework"}
  /\ cev \subseteq [ptr : {"NULL", "me"}, events : SUBSET EpollEvents]
  /\ epoll \in [ptr : {"none", "NULL", "me"}, events : SUBSET EpollEvents]
  /\ conn \in {"none", "connecting", "established", "failed", "closed"}
  /\ inbox \in Seq(Chunks)
  /\ wire \in Seq(Packets)
  /\ heard \in Packets \cup {"nothing"}
  /\ up \in BOOLEAN

\* The constructor sets everything but `me`, which holds what its memory held.
Init ==
  /\ status = "running"
  /\ state = "DISCONNECTED"
  /\ me \in {"NULL", "unset"}
  /\ write_registered = FALSE
  /\ queue = <<>>
  /\ pc = "start"
  /\ cev = {}
  /\ epoll = NotWatched
  /\ conn = "none"
  /\ inbox = <<>>
  /\ wire = <<>>
  /\ heard = "nothing"
  /\ up \in BOOLEAN

-----------------------------------------------------------------------------
(* Connecting.  A name that starts with Faulty stands for the operation     *)
(* that follows it with a bug put in.                                       *)

\* connect() did not fail at once: the descriptor is watched, with a NULL
\* pointer.  If epoll refuses it, state has been set all the same.
ConnectStarts(watched) ==
  /\ state' = "CONNECTING"
  /\ conn' = "connecting"
  /\ watched \/ "epoll_ctl" \in Failing
  /\ epoll' = IF watched THEN [ptr |-> "NULL", events |-> {"IN", "OUT"}] ELSE epoll
  /\ UNCHANGED <<meVars, inbox, wire, heard, up>>

\* socket() or connect() fails at once.
ConnectFails ==
  /\ "connect" \in Failing
  /\ UNCHANGED <<state, meVars, epoll, kernelVars, up>>

\* initialize: the program gives up if the first attempt cannot be made.
initialize ==
  /\ pc = "start"
  /\ status = "running"
  /\ \/ ConnectStarts(TRUE) /\ pc' = "wait" /\ UNCHANGED status
     \/ /\ Failing # {}
        /\ status' = "exited"
        /\ UNCHANGED <<state, meVars, pc, epoll, kernelVars, up>>
  /\ UNCHANGED cev

-----------------------------------------------------------------------------
(* The loop. *)

\* Nothing is reported while the connection is being established.
Readable == inbox # <<>> \/ conn \in {"failed", "closed"}
Writable ==
  \/ conn = "failed"
  \/ conn \in {"established", "closed"} /\ Len(wire) < SndBuf

Reported ==
  epoll.events \cap ((IF Readable THEN {"IN"} ELSE {})
                       \cup (IF Writable THEN {"OUT"} ELSE {}))

\* epoll_wait returns the event of the only descriptor, or times out.
PollWait ==
  /\ pc = "wait"
  /\ status = "running"
  /\ cev' = IF Reported # {} THEN {[ptr |-> epoll.ptr, events |-> Reported]} ELSE {}
  /\ pc' = "dispatch"
  /\ UNCHANGED <<status, state, meVars, epoll, kernelVars, up>>

\* The handling of the event; the batch is then done.
Dispatch(e) ==
  /\ pc = "dispatch"
  /\ status = "running"
  /\ e \in cev
  /\ cev' = {}
  /\ pc' = "rework"

NoEvent ==
  /\ pc = "dispatch"
  /\ cev = {}
  /\ pc' = "rework"
  /\ UNCHANGED <<status, state, meVars, cev, epoll, kernelVars, up>>

\* Fault: `me` keeps pointing to the deleted Client.
FaultyDisconnect ==
  /\ state' = "DISCONNECTED"
  /\ epoll' = NotWatched
  /\ conn' = "none" /\ inbox' = <<>> /\ wire' = <<>> /\ heard' = "nothing"
  /\ write_registered' = FALSE /\ queue' = <<>>
  /\ IF me \in {"NULL", "client"}
       THEN me' = "dangling" /\ UNCHANGED status
       ELSE UNCHANGED me /\ status' = "crashed"

\* Closes the descriptor, which ends its registration, and deletes `me`.
\* Deleting what is neither NULL nor the Client there is, is undefined.
disconnect ==
  /\ state' = "DISCONNECTED"
  /\ epoll' = NotWatched
  /\ conn' = "none" /\ inbox' = <<>> /\ wire' = <<>> /\ heard' = "nothing"
  /\ write_registered' = FALSE /\ queue' = <<>>
  /\ IF me \in {"NULL", "client"}
       THEN me' = "NULL" /\ UNCHANGED status
       ELSE UNCHANGED me /\ status' = "crashed"

\* Fault: the HELLO is queued, but the registration is left as it was.
FaultyHandshake ==
  /\ me' = "client"
  /\ queue' = <<"HELLO">>
  /\ write_registered' = TRUE
  /\ epoll' = [epoll EXCEPT !.ptr = "me", !.events = {"IN"}]

\* Fault: the application sends from on_connect, before the HELLO.
FaultyOrder ==
  /\ me' = "client"
  /\ queue' = <<"DATA", "HELLO">>
  /\ write_registered' = TRUE
  /\ epoll' = [ptr |-> "me", events |-> {"IN", "OUT"}]

\* A new Client, and send_hello: the packet is queued, and register_write
\* replaces the NULL pointer in the registration by the new Client.
Handshake ==
  /\ me' = "client"
  /\ queue' = <<"HELLO">>
  /\ write_registered' = TRUE
  /\ epoll' = [ptr |-> "me", events |-> {"IN", "OUT"}]

\* An event with a NULL pointer: the outcome of connect().
handle_initial_state(e) ==
  /\ Dispatch(e)
  /\ e.ptr = "NULL"
  /\ state = "CONNECTING"
  /\ \/ conn = "failed" /\ disconnect
     \/ /\ conn # "failed"
        /\ state' = "CONNECTED"
        /\ Handshake
        /\ UNCHANGED <<status, kernelVars>>
  /\ UNCHANGED up

\* handle_event: IN, whatever else the event says, or else OUT.
ReadEvent(e)  == Dispatch(e) /\ e.ptr = "me" /\ "IN" \in e.events
WriteEvent(e) == Dispatch(e) /\ e.ptr = "me" /\ "IN" \notin e.events

\* The handlers dereference the pointer that came with the event, which had
\* better be the Client there is (NoFailure): their guards say so.

\* The outcome of read_packet, which in a client accepts any source.
read_packet ==
  IF inbox # <<>>
    THEN CASE Head(inbox) = "PART"  -> "EAGAIN"
           [] Head(inbox) = "DATA"  -> "PACKET"
           [] Head(inbox) = "HELLO" -> "0"
           [] Head(inbox) = "BAD"   -> "EINVAL"
           [] Head(inbox) = "LARGE" -> "EMSGSIZE"
    ELSE CASE conn = "closed" -> "ESHUTDOWN"
           [] conn = "failed" -> "ECONNRESET"
           [] OTHER           -> "EAGAIN"

Consumed == IF inbox # <<>> THEN Tail(inbox) ELSE inbox

\* Something was read that asks for nothing.
ReadQuietly(e) ==
  /\ ReadEvent(e)
  /\ me = "client"
  /\ read_packet \in {"EAGAIN", "0"}
  /\ inbox' = Consumed
  /\ UNCHANGED <<status, state, meVars, epoll, conn, wire, heard, up>>

\* send_data_to_server: queue_packet, which may drop it, and register_write.
send_data_to_server(p) ==
  /\ queue' = IF Len(queue) < WriteQueue THEN Append(queue, p) ELSE queue
  /\ write_registered' = TRUE
  /\ epoll' = IF write_registered
                THEN epoll
                ELSE [ptr |-> "me", events |-> {"IN", "OUT"}]
  /\ UNCHANGED me

\* on_data_received is called with a packet.
ReadData(e) ==
  /\ ReadEvent(e)
  /\ me = "client"
  /\ read_packet = "PACKET"
  /\ inbox' = Consumed
  /\ IF Answers THEN send_data_to_server("DATA") ELSE UNCHANGED <<meVars, epoll>>
  /\ UNCHANGED <<status, state, conn, wire, heard, up>>

\* The stream ended, failed or made no sense.
ReadFails(e) ==
  /\ ReadEvent(e)
  /\ me = "client"
  /\ read_packet \in {"EINVAL", "EMSGSIZE", "ESHUTDOWN", "ECONNRESET"}
  /\ disconnect
  /\ UNCHANGED up

\* write_data moves what the kernel takes.
WriteSome(e) ==
  LET room == SndBuf - Len(wire)
      n    == IF Len(queue) <= room THEN Len(queue) ELSE room
  IN  /\ WriteEvent(e)
      /\ me = "client"
      /\ queue # <<>>
      /\ conn # "failed"
      /\ wire' = wire \o SubSeq(queue, 1, n)
      /\ queue' = SubSeq(queue, n + 1, Len(queue))
      /\ UNCHANGED <<status, state, me, write_registered, epoll, conn, inbox, heard, up>>

\* Nothing is pending: unregister_write.
WriteNothing(e) ==
  /\ WriteEvent(e)
  /\ me = "client"
  /\ queue = <<>>
  /\ write_registered' = FALSE
  /\ epoll' = IF write_registered THEN [ptr |-> "me", events |-> {"IN"}] ELSE epoll
  /\ UNCHANGED <<status, state, me, queue, kernelVars, up>>

\* The connection was reset since epoll_wait reported it writable.
WriteFails(e) ==
  /\ WriteEvent(e)
  /\ me = "client"
  /\ queue # <<>>
  /\ conn = "failed"
  /\ disconnect
  /\ UNCHANGED up

\* The end of an iteration in which the timeout is not used up.
NotExpired ==
  /\ pc = "rework"
  /\ status = "running"
  /\ pc' = "wait"
  /\ UNCHANGED <<status, state, meVars, cev, epoll, kernelVars, up>>

\* Fault: the next attempt is made only if the last one got as far as a Client.
FaultyExpired ==
  /\ pc = "rework"
  /\ status = "running"
  /\ pc' = "wait"
  /\ IF state = "DISCONNECTED" /\ me = "client"
       THEN ConnectFails \/ \E watched \in BOOLEAN : ConnectStarts(watched)
       ELSE UNCHANGED <<state, meVars, epoll, kernelVars, up>>
  /\ UNCHANGED <<status, cev>>

\* The timeout is used up: without a connection the next attempt is made, and
\* its result ignored.
Expired ==
  /\ pc = "rework"
  /\ status = "running"
  /\ pc' = "wait"
  /\ IF state = "DISCONNECTED"
       THEN ConnectFails \/ \E watched \in BOOLEAN : ConnectStarts(watched)
       ELSE UNCHANGED <<state, meVars, epoll, kernelVars, up>>
  /\ UNCHANGED <<status, cev>>

HandleEvent(e) ==
  \/ handle_initial_state(e)
  \/ ReadQuietly(e)
  \/ ReadData(e)
  \/ ReadFails(e)
  \/ WriteSome(e)
  \/ WriteNothing(e)
  \/ WriteFails(e)

do_poll ==
  \/ PollWait
  \/ NoEvent
  \/ \E e \in cev : HandleEvent(e)
  \/ NotExpired
  \/ Expired

-----------------------------------------------------------------------------
(* The kernel and the server. *)

ClientVars == <<status, state, meVars, pc, cev, epoll>>

\* The attempt is answered according to whether the server is up.
Answer ==
  /\ conn = "connecting"
  /\ conn' = IF up THEN "established" ELSE "failed"
  /\ UNCHANGED <<ClientVars, inbox, wire, heard, up>>

\* The server reads; its first packet tells it who the client is.
ServerReads ==
  /\ conn = "established"
  /\ wire # <<>>
  /\ wire' = Tail(wire)
  /\ heard' = IF heard = "nothing" THEN Head(wire) ELSE heard
  /\ UNCHANGED <<ClientVars, conn, inbox, up>>

\* The server sends only to a client that has named itself.
ServerSends(k) ==
  /\ conn = "established"
  /\ heard # "nothing"
  /\ Len(inbox) < RcvBuf
  /\ inbox' = Append(inbox, k)
  /\ UNCHANGED <<ClientVars, conn, wire, heard, up>>

\* The server goes down, closing or resetting the connection.
ServerStops ==
  /\ up
  /\ up' = FALSE
  /\ conn' \in IF conn = "established" THEN {"closed", "failed"} ELSE {conn}
  /\ UNCHANGED <<ClientVars, inbox, wire, heard>>

\* The server is to blame for the end of a connection.
LosesClient ==
  \/ conn = "established" /\ conn' \notin {"established", "none"}
  \/ Len(inbox') > Len(inbox) /\ inbox'[Len(inbox')] \in {"BAD", "LARGE"}

ServerStarts == ~up /\ up' = TRUE /\ UNCHANGED <<ClientVars, kernelVars>>

\* Somebody else takes the client's id, or a closed socket is written to.
ConnectionEnds ==
  /\ \/ Kicks /\ conn = "established" /\ conn' = "closed"
     \/ conn = "closed" /\ conn' = "failed"
  /\ UNCHANGED <<ClientVars, inbox, wire, heard, up>>

World ==
  \/ Answer
  \/ ServerReads
  \/ \E k \in Chunks : ServerSends(k)
  \/ ServerStops
  \/ ServerStarts
  \/ ConnectionEnds

Next == initialize \/ do_poll \/ World

Spec == Init /\ [][Next]_vars

\* An attempt that did not fail at once.
Retries == Expired /\ state' = "CONNECTING"

\* The process runs; attempts are answered; the server reads; the loop's
\* timeout is used up again and again (PollLoop!HouseKeepingRecurs) and not
\* every attempt fails at once.
LiveSpec ==
  /\ Spec
  /\ WF_vars(initialize \/ do_poll)
  /\ WF_vars(Answer)
  /\ WF_vars(ServerReads)
  /\ SF_vars(Retries)

-----------------------------------------------------------------------------
(* Properties. *)

\* No Client is deleted twice, no assertion fails and no event is handled
\* through a pointer to anything but the Client it was registered for
\* (tcp_client.cpp:75, 185, 225), however often the connection is lost.  One
\* thing only makes the process crash: the first attempt ended before `me` was
\* ever set.
NoFailure ==
  /\ status = "crashed" => me = "unset"
  /\ \A e \in cev : IF e.ptr = "NULL" THEN state = "CONNECTING" ELSE me = "client"

\* State, pointer and registration tell the same story at every moment.
StoriesAgree ==
  status = "running" =>
    /\ state = "DISCONNECTED" => conn = "none" /\ epoll = NotWatched /\ cev = {}
    /\ state = "CONNECTING" =>
         /\ conn # "none" /\ me # "client"
         /\ epoll.ptr = "NULL" \/ "epoll_ctl" \in Failing
    /\ state = "CONNECTED" => conn # "none" /\ me = "client" /\ epoll.ptr = "me"
    /\ write_registered <=> state = "CONNECTED" /\ "OUT" \in epoll.events
    /\ queue # <<>> => write_registered

Inv == TypeOK /\ StoriesAgree

\* v4/README:40: "The first packet sent by a client after connection is called
\* a HELLO packet."  On every connection, the first as well as the tenth, the
\* server learns the client's name before anything else.
HelloFirst ==
  /\ heard # "DATA"
  /\ heard = "nothing" /\ wire \o queue # <<>> => Head(wire \o queue) = "HELLO"

\* Epoll refused the descriptor after the state had been set: nothing will ever
\* be reported, and nothing else ends this state (tcp_client.cpp:256-258).
Deaf == state = "CONNECTING" /\ epoll = NotWatched

\* tcp_client.cpp:308 says of what do_poll does without a connection: "retry
\* connection".  Once `me` is set, by chance or by a first connection, every
\* connection or attempt that fails is followed by another attempt, unless the
\* client has gone deaf; before that it may crash instead (NoFailure).
RetriesOnceSet == conn = "failed" /\ me # "unset" ~> conn = "connecting" \/ Deaf

\* If the server stays up and no longer has reasons to lose the connection, a
\* client that survived its first attempt and has not gone deaf ends up
\* connected and known to it.
EndsUpKnown ==
  <>[](up /\ status = "running" /\ ~Deaf) /\ <>[][~LosesClient]_vars
    => <>[](state = "CONNECTED" /\ heard = "HELLO")
=============================================================================
