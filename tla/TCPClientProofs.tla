-------------------------- MODULE TCPClientProofs --------------------------
(***************************************************************************)
(* Proofs about the client program: its state, its pointer and its         *)
(* registration agree at every moment, every event meets the Client it was *)
(* registered for, and HELLO goes first on every connection, for any       *)
(* traffic, any buffer sizes and any failures of server and system calls.  *)
(***************************************************************************)
EXTENDS TCPClient, QueueLemmas

\* The packets between the client and the server.
UnderWay == wire \o queue

\* StoriesAgree, whatever became of the process, and what the steps rely on
\* besides: an event in hand is about the connection there is, and until HELLO
\* has been read it is the first packet under way.
ClientInv ==
  /\ TypeOK
  /\ state = "DISCONNECTED" =>
       conn = "none" /\ epoll = NotWatched /\ cev = {} /\ me # "client"
  /\ state = "CONNECTING" =>
       /\ conn # "none" /\ me # "client"
       /\ \/ epoll.ptr = "NULL"
          \/ epoll = NotWatched /\ "epoll_ctl" \in Failing
  /\ state = "CONNECTED" => conn # "none" /\ me = "client" /\ epoll.ptr = "me"
  /\ state # "CONNECTED" => queue = <<>> /\ wire = <<>> /\ heard = "nothing"
  /\ state = "CONNECTED" =>
       \/ heard = "HELLO"
       \/ heard = "nothing" /\ UnderWay # <<>> /\ Head(UnderWay) = "HELLO"
  /\ write_registered <=> state = "CONNECTED" /\ "OUT" \in epoll.events
  /\ queue # <<>> => write_registered
  /\ Len(wire) <= SndBuf
  /\ \A e \in cev :
       IF e.ptr = "NULL" THEN state = "CONNECTING" ELSE state = "CONNECTED"
  /\ pc = "start" => state = "DISCONNECTED"
  /\ me # "dangling"
  /\ status = "crashed" => me = "unset"

-----------------------------------------------------------------------------
(* The steps. *)

LEMMA BufferSize == SndBuf \in Nat /\ Len(<<>>) <= SndBuf
BY TCPClientAssumption DEF TCPClientAssumption

LEMMA ClientInit == Init => ClientInv
<1> SUFFICES ASSUME Init PROVE ClientInv
  OBVIOUS
<1>1. TypeOK
  <2>1. queue \in Seq(Packets) /\ inbox \in Seq(Chunks) /\ wire \in Seq(Packets)
    BY EmptySeq DEF Init
  <2>2. write_registered \in BOOLEAN /\ up \in BOOLEAN
    BY DEF Init
  <2>3. me \in {"NULL", "unset", "client", "dangling"}
    BY DEF Init
  <2>4. epoll \in [ptr : {"none", "NULL", "me"}, events : SUBSET EpollEvents]
    BY DEF Init, NotWatched, EpollEvents
  <2> QED
    BY <2>1, <2>2, <2>3, <2>4 DEF Init, TypeOK
<1>2. Len(wire) <= SndBuf
  BY BufferSize DEF Init
<1> QED
  BY <1>1, <1>2, TCPClientAssumption DEF TCPClientAssumption, Init, ClientInv, NotWatched

\* disconnect leaves nothing of the connection behind.
LEMMA Disconnects ==
  ASSUME ClientInv, disconnect, cev' = {}, pc' = "rework", UNCHANGED up
  PROVE  ClientInv'
<1>1. NotWatched \in [ptr : {"none", "NULL", "me"}, events : SUBSET EpollEvents]
  BY DEF NotWatched, EpollEvents
<1>2. TypeOK'
  BY <1>1, EmptySeq DEF ClientInv, TypeOK, disconnect
<1>3. Len(wire') <= SndBuf
  BY BufferSize DEF disconnect
<1>4. me' \in {"NULL", "unset"} /\ (status' = "crashed" => me' = "unset")
  BY DEF ClientInv, TypeOK, disconnect
<1>5. ~write_registered' /\ queue' = <<>>
  BY DEF disconnect
<1> QED
  BY <1>2, <1>3, <1>4, <1>5 DEF ClientInv, disconnect

\* An attempt is made, or fails at once.
LEMMA Attempts ==
  ASSUME ClientInv, state = "DISCONNECTED", UNCHANGED cev,
         pc' = "wait",
         \/ ConnectFails /\ UNCHANGED status
         \/ \E watched \in BOOLEAN : ConnectStarts(watched) /\ UNCHANGED status
  PROVE  ClientInv'
<1>1. CASE ConnectFails /\ UNCHANGED status
  BY <1>1 DEF ConnectFails, ClientInv, TypeOK, meVars, kernelVars, UnderWay
<1>2. ASSUME NEW watched \in BOOLEAN, ConnectStarts(watched), UNCHANGED status
      PROVE  ClientInv'
  <2>1. [ptr |-> "NULL", events |-> {"IN", "OUT"}]
          \in [ptr : {"none", "NULL", "me"}, events : SUBSET EpollEvents]
    BY DEF EpollEvents
  <2>2. TypeOK'
    BY <1>2, <2>1 DEF ConnectStarts, ClientInv, TypeOK, meVars
  <2>3. \/ epoll'.ptr = "NULL"
        \/ epoll' = NotWatched /\ "epoll_ctl" \in Failing
    BY <1>2 DEF ConnectStarts, ClientInv
  <2> QED
    BY <1>2, <2>2, <2>3 DEF ConnectStarts, ClientInv, meVars, TypeOK
<1> QED
  BY <1>1, <1>2

LEMMA ClientStart == ClientInv /\ initialize => ClientInv'
<1> SUFFICES ASSUME ClientInv, initialize PROVE ClientInv'
  OBVIOUS
<1>1. CASE ConnectStarts(TRUE) /\ pc' = "wait" /\ UNCHANGED status
  BY <1>1, Attempts DEF initialize, ClientInv
<1>2. CASE status' = "exited" /\ UNCHANGED <<state, meVars, pc, epoll, kernelVars, up>>
  BY <1>2 DEF initialize, ClientInv, TypeOK, meVars, kernelVars, UnderWay
<1> QED
  BY <1>1, <1>2 DEF initialize

LEMMA ClientIteration ==
  ClientInv /\ (PollWait \/ NoEvent \/ NotExpired \/ Expired) => ClientInv'
<1> SUFFICES ASSUME ClientInv, PollWait \/ NoEvent \/ NotExpired \/ Expired
             PROVE  ClientInv'
  OBVIOUS
<1>1. CASE PollWait
  <2>1. /\ Reported \subseteq EpollEvents
        /\ Reported # {} => epoll.ptr \in {"NULL", "me"}
    BY DEF Reported, ClientInv, TypeOK, EpollEvents, NotWatched
  <2>2. cev' \subseteq [ptr : {"NULL", "me"}, events : SUBSET EpollEvents]
    BY <1>1, <2>1 DEF PollWait
  <2>3. \A e \in cev' :
          IF e.ptr = "NULL" THEN state = "CONNECTING" ELSE state = "CONNECTED"
    BY <1>1, <2>1 DEF PollWait, ClientInv, TypeOK, NotWatched
  <2>4. state = "DISCONNECTED" => cev' = {}
    BY <1>1 DEF PollWait, ClientInv, Reported, NotWatched
  <2> QED
    BY <1>1, <2>2, <2>3, <2>4 DEF PollWait, ClientInv, TypeOK, meVars, kernelVars, UnderWay
<1>2. CASE NoEvent
  BY <1>2 DEF NoEvent, ClientInv, TypeOK, meVars, kernelVars, UnderWay
<1>3. CASE NotExpired
  BY <1>3 DEF NotExpired, ClientInv, TypeOK, meVars, kernelVars, UnderWay
<1>4. CASE Expired
  <2>1. CASE state = "DISCONNECTED"
    BY <1>4, <2>1, Attempts DEF Expired
  <2>2. CASE state # "DISCONNECTED"
    BY <1>4, <2>2 DEF Expired, ClientInv, TypeOK, meVars, kernelVars, UnderWay
  <2> QED
    BY <2>1, <2>2
<1> QED
  BY <1>1, <1>2, <1>3, <1>4

\* The first event on a descriptor tells how connect() ended.
LEMMA ClientConnected ==
  ASSUME ClientInv, NEW e \in cev, handle_initial_state(e)
  PROVE  ClientInv'
<1>1. CASE conn = "failed" /\ disconnect
  BY <1>1, Disconnects DEF handle_initial_state, Dispatch
<1>2. CASE conn # "failed" /\ state' = "CONNECTED" /\ Handshake /\ UNCHANGED <<status, kernelVars>>
  <2>1. [ptr |-> "me", events |-> {"IN", "OUT"}]
          \in [ptr : {"none", "NULL", "me"}, events : SUBSET EpollEvents]
    BY DEF EpollEvents
  <2>2. <<"HELLO">> \in Seq(Packets) /\ <<"HELLO">> # <<>> /\ Head(<<"HELLO">>) = "HELLO"
    BY DEF Packets
  <2>3. wire' = <<>> /\ queue' = <<"HELLO">> /\ heard' = "nothing" /\ conn # "none"
    BY <1>2 DEF handle_initial_state, Handshake, kernelVars, ClientInv
  <2>4. UnderWay' = <<"HELLO">>
    BY <2>2, <2>3, ConcatEmptySeq DEF UnderWay
  <2>5. TypeOK'
    BY <1>2, <2>1, <2>2, <2>3 DEF handle_initial_state, Dispatch, Handshake, kernelVars,
                                  ClientInv, TypeOK
  <2> QED
    BY <1>2, <2>2, <2>3, <2>4, <2>5 DEF handle_initial_state, Dispatch, Handshake,
                                        kernelVars, ClientInv
<1> QED
  BY <1>1, <1>2 DEF handle_initial_state

\* What send_data_to_server queues goes behind the HELLO, if that is still there.
LEMMA ClientReads ==
  ASSUME ClientInv, NEW e \in cev, ReadQuietly(e) \/ ReadData(e) \/ ReadFails(e)
  PROVE  ClientInv'
<1>1. Consumed \in Seq(Chunks)
  BY SeqFacts DEF Consumed, ClientInv, TypeOK
<1>2. ReadQuietly(e) \/ ReadData(e) => state = "CONNECTED"
  BY DEF ClientInv, TypeOK, ReadQuietly, ReadData, ReadEvent
<1>3. CASE ReadQuietly(e)
  BY <1>1, <1>3 DEF ReadQuietly, ReadEvent, Dispatch, ClientInv, TypeOK, meVars, UnderWay
<1>4. CASE ReadData(e) /\ ~Answers
  BY <1>1, <1>4 DEF ReadData, ReadEvent, Dispatch, ClientInv, TypeOK, meVars, UnderWay
<1>5. CASE ReadData(e) /\ Answers
  <2>1. [ptr |-> "me", events |-> {"IN", "OUT"}]
          \in [ptr : {"none", "NULL", "me"}, events : SUBSET EpollEvents]
    BY DEF EpollEvents
  <2>2. send_data_to_server("DATA") /\ "DATA" \in Packets
    BY <1>5 DEF ReadData, Packets
  <2>3. queue \in Seq(Packets) /\ wire \in Seq(Packets) /\ wire' = wire
    BY <1>5 DEF ClientInv, TypeOK, ReadData
  <2>4. queue' \in Seq(Packets)
    BY <2>2, <2>3, SeqFacts DEF send_data_to_server
  <2>5. UnderWay # <<>> => UnderWay' # <<>> /\ Head(UnderWay') = Head(UnderWay)
    BY <2>2, <2>3, Adding DEF send_data_to_server, UnderWay
  <2>6. epoll' \in [ptr : {"none", "NULL", "me"}, events : SUBSET EpollEvents]
    BY <2>1, <2>2 DEF send_data_to_server, ClientInv, TypeOK
  <2>7. epoll'.ptr = "me" /\ "OUT" \in epoll'.events /\ write_registered'
    BY <1>2, <1>5, <2>2 DEF send_data_to_server, ClientInv
  <2>8. TypeOK'
    BY <1>1, <1>5, <2>2, <2>3, <2>4, <2>6
    DEF ReadData, ReadEvent, Dispatch, send_data_to_server, ClientInv, TypeOK
  <2> QED
    BY <1>2, <1>5, <2>2, <2>5, <2>7, <2>8
    DEF ReadData, ReadEvent, Dispatch, send_data_to_server, ClientInv
<1>6. CASE ReadFails(e)
  BY <1>6, Disconnects DEF ReadFails, ReadEvent, Dispatch
<1> QED
  BY <1>3, <1>4, <1>5, <1>6

\* Writing moves the packets under way and keeps them in order.
LEMMA ClientWrites ==
  ASSUME ClientInv, NEW e \in cev, WriteSome(e) \/ WriteNothing(e) \/ WriteFails(e)
  PROVE  ClientInv'
<1>1. WriteSome(e) \/ WriteNothing(e) => state = "CONNECTED"
  BY DEF ClientInv, TypeOK, WriteSome, WriteNothing, WriteEvent
<1>2. CASE WriteSome(e)
  <2> DEFINE n == IF Len(queue) <= SndBuf - Len(wire) THEN Len(queue) ELSE SndBuf - Len(wire)
  <2>1. queue \in Seq(Packets) /\ wire \in Seq(Packets)
    BY DEF ClientInv, TypeOK
  <2>2. n \in 0 .. Len(queue)
    <3>1. Len(queue) \in Nat /\ Len(wire) \in Nat /\ Len(wire) <= SndBuf
      BY <2>1, LenProperties DEF ClientInv
    <3> QED
      BY <3>1, BufferSize
  <2>3. wire' = wire \o SubSeq(queue, 1, n) /\ queue' = SubSeq(queue, n + 1, Len(queue))
    BY <1>2 DEF WriteSome
  <2>4. SubSeq(queue, 1, n) \in Seq(Packets) /\ queue' \in Seq(Packets)
    BY <2>1, <2>2, <2>3, SeqFacts
  <2>5. wire' \in Seq(Packets) /\ Len(wire') <= SndBuf
    <3>1. Len(SubSeq(queue, 1, n)) = n
      BY <2>1, <2>2, SubSeqLength
    <3>2. wire' \in Seq(Packets) /\ Len(wire') = Len(wire) + n
      BY <2>1, <2>3, <2>4, <3>1, ConcatProperties
    <3>3. Len(queue) \in Nat /\ Len(wire) \in Nat /\ Len(wire) <= SndBuf
      BY <2>1, LenProperties DEF ClientInv
    <3> QED
      BY <3>2, <3>3, BufferSize
  <2>6. UnderWay' = UnderWay
    BY <2>1, <2>2, <2>3, Moving DEF UnderWay
  <2> HIDE DEF n
  <2>7. TypeOK'
    BY <1>2, <2>4, <2>5 DEF WriteSome, WriteEvent, Dispatch, ClientInv, TypeOK
  <2> QED
    BY <1>1, <1>2, <2>5, <2>6, <2>7 DEF WriteSome, WriteEvent, Dispatch, ClientInv
<1>3. CASE WriteNothing(e)
  <2>1. [ptr |-> "me", events |-> {"IN"}]
          \in [ptr : {"none", "NULL", "me"}, events : SUBSET EpollEvents]
    BY DEF EpollEvents
  <2>2. TypeOK'
    BY <1>3, <2>1 DEF WriteNothing, WriteEvent, Dispatch, ClientInv, TypeOK, kernelVars
  <2> QED
    BY <1>1, <1>3, <2>2 DEF WriteNothing, WriteEvent, Dispatch, ClientInv, kernelVars, UnderWay
<1>4. CASE WriteFails(e)
  BY <1>4, Disconnects DEF WriteFails, WriteEvent, Dispatch
<1> QED
  BY <1>2, <1>3, <1>4

\* The server and the kernel change the connection under the client's feet, but
\* neither what the client knows of it nor the order of what it wrote.
LEMMA ClientWorld == ClientInv /\ World => ClientInv'
<1> SUFFICES ASSUME ClientInv, World PROVE ClientInv'
  OBVIOUS
<1> USE DEF ClientVars, meVars
<1>1. CASE Answer
  BY <1>1 DEF Answer, ClientInv, TypeOK, UnderWay
<1>2. CASE ServerReads
  <2>1. queue \in Seq(Packets) /\ wire \in Seq(Packets) /\ wire # <<>> /\ queue' = queue
    BY <1>2 DEF ServerReads, ClientInv, TypeOK
  <2>2. Head(wire) \in Packets /\ wire' = Tail(wire) /\ wire' \in Seq(Packets)
    BY <1>2, <2>1, SeqFacts DEF ServerReads
  <2>3. Len(wire') <= SndBuf
    BY <2>1, <2>2, HeadTailProperties, LenProperties, BufferSize DEF ClientInv
  <2>4. Head(UnderWay) = Head(wire)
    BY <2>1, Taking DEF UnderWay
  <2>5. state = "CONNECTED" /\ heard' = "HELLO"
    BY <1>2, <2>1, <2>4 DEF ServerReads, ClientInv
  <2>6. TypeOK'
    BY <1>2, <2>2, <2>5 DEF ServerReads, ClientInv, TypeOK, Packets
  <2> QED
    BY <1>2, <2>3, <2>5, <2>6 DEF ServerReads, ClientInv
<1>3. ASSUME NEW k \in Chunks, ServerSends(k) PROVE ClientInv'
  <2>1. inbox' \in Seq(Chunks)
    BY <1>3, SeqFacts DEF ServerSends, ClientInv, TypeOK
  <2> QED
    BY <1>3, <2>1 DEF ServerSends, ClientInv, TypeOK, UnderWay
<1>4. CASE ServerStops
  BY <1>4, ZenonT(60) DEF ServerStops, ClientInv, TypeOK, UnderWay
<1>5. CASE ServerStarts
  BY <1>5 DEF ServerStarts, ClientInv, TypeOK, kernelVars, UnderWay
<1>6. CASE ConnectionEnds
  BY <1>6 DEF ConnectionEnds, ClientInv, TypeOK, UnderWay
<1> QED
  BY <1>1, <1>2, <1>3, <1>4, <1>5, <1>6 DEF World

LEMMA ClientStep == ClientInv /\ [Next]_vars => ClientInv'
<1> SUFFICES ASSUME ClientInv, [Next]_vars PROVE ClientInv'
  OBVIOUS
<1>1. ASSUME NEW e \in cev, HandleEvent(e) PROVE ClientInv'
  BY <1>1, ClientConnected, ClientReads, ClientWrites DEF HandleEvent
<1>2. CASE UNCHANGED vars
  BY <1>2 DEF vars, ClientInv, TypeOK, UnderWay
<1> QED
  BY <1>1, <1>2, ClientStart, ClientIteration, ClientWorld DEF Next, do_poll

LEMMA ClientInvariance == Spec => []ClientInv
BY ClientInit, ClientStep, PTL DEF Spec

-----------------------------------------------------------------------------
(* The theorems. *)

\* At every moment, through any failures and reconnections, the client's state,
\* its pointer, its write flag and its registration tell the same story
\* (TCPClient!Inv), also when the pointer was never set.
THEOREM ClientStoriesAgree == Spec => []Inv
<1>1. ClientInv => Inv
  BY DEF ClientInv, Inv, StoriesAgree
<1> QED
  BY <1>1, ClientInvariance, PTL

\* No assertion fails, no Client is deleted twice and no event is handled
\* through a pointer that is not the Client it was registered for; the process
\* crashes in no other way than by losing its first attempt with `me` unset
\* (TCPClient!NoFailure).
THEOREM ClientNeverFails == Spec => []NoFailure
<1>1. ClientInv => NoFailure
  BY DEF ClientInv, NoFailure
<1> QED
  BY <1>1, ClientInvariance, PTL

\* On every connection HELLO is the first packet the server reads, whatever the
\* application answers and however the kernel cuts up the writes
\* (TCPClient!HelloFirst).
THEOREM ClientHelloFirst == Spec => []HelloFirst
<1>1. ASSUME ClientInv PROVE HelloFirst
  <2>1. CASE state = "CONNECTED"
    BY <1>1, <2>1 DEF ClientInv, HelloFirst, UnderWay
  <2>2. CASE state # "CONNECTED"
    <3>1. wire \o queue = <<>> /\ heard = "nothing"
      BY <1>1, <2>2, EmptySeq, ConcatEmptySeq DEF ClientInv
    <3> QED
      BY <3>1 DEF HelloFirst
  <2> QED
    BY <2>1, <2>2
<1> QED
  BY <1>1, ClientInvariance, PTL
=============================================================================
