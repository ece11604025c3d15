-------------------------- MODULE TCPServerProofs --------------------------
(***************************************************************************)
(* Proofs about the server: its safety invariants, for any number of       *)
(* connections, any traffic and any buffer sizes, that it drives ClientMgr *)
(* only as ClientMgr's contract allows, and that it implements the Relay.  *)
(***************************************************************************)
EXTENDS TCPServer, ClientMgrProofs, QueueLemmas

-----------------------------------------------------------------------------
(* The inductive invariant. *)

\* The packets that may be on their way to c.
Mail(c) == {p \in Relayed : p.dst = cmgr.id[c]}

\* What is true of each Client between any two events: the kernel's interest,
\* the flag, the buffers and the Client's standing in ClientMgr agree.
ClientInv(c) ==
  /\ epoll[c] \in {{}, {"IN"}, {"IN", "OUT"}}
  /\ c \in write_registered <=> "OUT" \in epoll[c]
  /\ c \notin cmgr.live => epoll[c] = {}
  /\ c \in cmgr.managed \cup cmgr.invalid => epoll[c] # {}
  /\ queue[c] # <<>> => "OUT" \in epoll[c]
  /\ queue[c] # <<>> \/ wire[c] # <<>> => c \in cmgr.managed
  /\ queue[c] \in Seq(Mail(c))
  /\ wire[c] \in Seq(Mail(c))
  /\ Len(wire[c]) <= SndBuf

ServerInv ==
  /\ CMInv(cmgr)
  /\ TypeOK
  /\ NoDanglingEvent
  /\ \A c \in Clients : ClientInv(c)

-----------------------------------------------------------------------------
(* The server meets the contract of ClientMgr. *)

\* Reading from a valid Client changes, in ClientMgr, at most its id, and that
\* only from UNIDENTIFIED_CLIENT; a HELLO or a DATA packet leaves it with the
\* id it was sent under.
LEMMA IdentifiedAs ==
  ASSUME CMInv(cmgr), TypeOK, NEW c \in Clients
  PROVE  LET i == identified(c).id[c]
         IN  /\ identified(c) = SetId(cmgr, c, i)
             /\ i \in AllIds
             /\ cmgr.id[c] \in {UNIDENTIFIED_CLIENT, i}
             /\ read_packet(c) \in {"HELLO", "PACKET"} =>
                  /\ HasChunk(c)
                  /\ inbox[c] # <<>>
                  /\ Head(inbox[c]) \in Chunks
                  /\ i = Head(inbox[c]).src
                  /\ i \in Ids
                  /\ read_packet(c) = "PACKET" => Head(inbox[c]) \in Relayed
<1> DEFINE p == Head(inbox[c])
<1>0. HasChunk(c) => inbox[c] # <<>>
  BY DEF HasChunk
<1>1. inbox[c] # <<>> => p \in Chunks /\ p \in Packet
  BY HeadTailProperties, TCPAssumption DEF TypeOK
<1>2. cmgr.id[c] \in AllIds
  BY DEF CMInv, CMState
<1>3. cmgr = SetId(cmgr, c, cmgr.id[c])
  BY DEF SetId, CMInv, CMState
<1>4. ASSUME read_packet(c) \in {"HELLO", "PACKET"}
      PROVE  /\ HasChunk(c)
             /\ p.kind \in {"HELLO", "DATA"}
             /\ p.src # UNIDENTIFIED_CLIENT
             /\ cmgr.id[c] \in {UNIDENTIFIED_CLIENT, p.src}
             /\ read_packet(c) = "PACKET" => p.kind = "DATA"
  <2>1. HasChunk(c)
    <3> SUFFICES ASSUME ~HasChunk(c)
                 PROVE  read_packet(c) \in {"EAGAIN", "ESHUTDOWN", "ECONNRESET"}
      BY <1>4
    <3> QED
      BY Zenon DEF read_packet
  <2>2. read_packet(c) = verdict(cmgr, c, p)
    BY <2>1 DEF read_packet
  <2>3. p.kind # "PART" /\ p.kind # "LARGE"
    BY <1>4, <2>2 DEF verdict
  <2>4. p.src # UNIDENTIFIED_CLIENT /\ cmgr.id[c] \in {UNIDENTIFIED_CLIENT, p.src}
    BY <1>4, <2>2, <2>3 DEF verdict, SourceOk
  <2>5. p.kind \in {"HELLO", "DATA"}
    BY <1>4, <2>2, <2>3, <2>4 DEF verdict
  <2>6. p.kind = "HELLO" => read_packet(c) = "HELLO"
    BY <2>2, <2>3, <2>4 DEF verdict, SourceOk
  <2> QED
    BY <2>1, <2>4, <2>5, <2>6
<1>5. p \in Packet => p.src \in AllIds
  BY DEF Packet
<1>6. CASE identified(c) = cmgr
  <2>1. ASSUME read_packet(c) \in {"HELLO", "PACKET"}
        PROVE  cmgr.id[c] = p.src
    <3> SUFFICES ASSUME cmgr.id[c] = UNIDENTIFIED_CLIENT PROVE FALSE
      BY <1>4, <2>1
    <3>1. identified(c) = SetId(cmgr, c, p.src)
      BY <1>4, <2>1 DEF identified, identify
    <3>2. identified(c).id[c] = p.src
      BY <3>1 DEF SetId, CMInv, CMState
    <3> QED
      BY <1>4, <1>6, <2>1, <3>2
  <2> QED
    BY <1>0, <1>1, <1>2, <1>3, <1>4, <1>5, <1>6, <2>1 DEF AllIds, Relayed
<1>7. CASE identified(c) # cmgr
  <2>1. /\ HasChunk(c)
        /\ cmgr.id[c] = UNIDENTIFIED_CLIENT
        /\ identified(c) = SetId(cmgr, c, p.src)
    BY <1>7 DEF identified, identify
  <2>2. identified(c).id[c] = p.src
    BY <2>1 DEF SetId, CMInv, CMState
  <2> QED
    BY <1>0, <1>1, <1>4, <1>5, <2>1, <2>2 DEF AllIds, Relayed
<1> QED
  BY <1>6, <1>7

\* The Client of an event in the batch is allocated, and a batch is being
\* dispatched.
LEMMA EventClient ==
  ASSUME ServerInv, NEW e \in cev, e.ptr # NULL
  PROVE  e.ptr \in Clients /\ e.ptr \in cmgr.live /\ epoll[e.ptr] # {}
  BY DEF ServerInv, NoDanglingEvent, TypeOK, CMInv, CMState

\* Each handler that changes ClientMgr takes a step of its contract.
LEMMA ReadMeetsContract ==
  ASSUME ServerInv, NEW e \in cev
  PROVE  LET c == e.ptr
             i == identified(c).id[c]
         IN  /\ ReadFails(e) => i \in AllIds /\ Reject(c, i)
             /\ ReadHello(e) \/ ReadData(e) =>
                  i \in Ids /\ i = Head(inbox[c]).src /\ Admit(c, i)
<1> DEFINE c == e.ptr
           i == identified(c).id[c]
<1> SUFFICES ASSUME e.ptr # NULL, c \notin cmgr.invalid
             PROVE  /\ ReadFails(e) => i \in AllIds /\ Reject(c, i)
                    /\ ReadHello(e) \/ ReadData(e) =>
                         i \in Ids /\ i = Head(inbox[c]).src /\ Admit(c, i)
  BY DEF ReadFails, ReadHello, ReadData, Reads, ReadEvent, ForReading
<1>1. c \in Clients /\ c \in cmgr.live
  BY EventClient
<1>2. /\ identified(c) = SetId(cmgr, c, i)
      /\ i \in AllIds
      /\ cmgr.id[c] \in {UNIDENTIFIED_CLIENT, i}
      /\ read_packet(c) \in {"HELLO", "PACKET"} => i \in Ids /\ i = Head(inbox[c]).src
  BY <1>1, IdentifiedAs DEF ServerInv
<1> HIDE DEF i
<1> QED
  BY <1>1, <1>2 DEF ReadFails, ReadHello, ReadData, Reads, Reject, Admit

\* Every step of the server is a step of the contract, or leaves ClientMgr
\* unchanged.
LEMMA StepMeetsContract ==
  ASSUME ServerInv, [Next]_vars
  PROVE  [CMNext]_cmgr
<1>1. ASSUME NEW e \in cev, accept_connection(e) PROVE [CMNext]_cmgr
  BY <1>1 DEF accept_connection, Backlog, Connect, CMNext
<1>2. ASSUME NEW e \in cev, ReadFails(e) PROVE [CMNext]_cmgr
  BY <1>2, ReadMeetsContract, EventClient DEF ReadFails, Reads, ReadEvent, ForReading, CMNext
<1>3. ASSUME NEW e \in cev, ReadHello(e) \/ ReadData(e) PROVE [CMNext]_cmgr
  BY <1>3, ReadMeetsContract, EventClient DEF ReadHello, ReadData, Reads, ReadEvent, ForReading, CMNext
<1>4. ASSUME NEW e \in cev, WriteFails(e) PROVE [CMNext]_cmgr
  <2> DEFINE c == e.ptr
             i == cmgr.id[c]
  <2>1. c \in Clients /\ c \in cmgr.live \ cmgr.invalid
    BY <1>4, EventClient DEF WriteFails, Writes, WriteEvent, ForWriting
  <2>2. i \in AllIds /\ cmgr = SetId(cmgr, c, i)
    BY <2>1 DEF SetId, ServerInv, CMInv, CMState
  <2>3. Reject(c, i)
    BY <1>4, <2>1, <2>2 DEF WriteFails, Reject
  <2> QED
    BY <2>1, <2>2, <2>3 DEF CMNext
<1>5. CASE EndOfBatch
  BY <1>5 DEF EndOfBatch, Reap, CMNext
<1>6. ASSUME NEW e \in cev,
             \/ NeitherEvent(e) \/ StaleEvent(e) \/ ReadOverruns(e)
             \/ ReadPartial(e) \/ WriteNothing(e) \/ WriteSome(e)
      PROVE  UNCHANGED cmgr
  BY <1>6 DEF NeitherEvent, StaleEvent, ReadOverruns, ReadPartial, WriteNothing, WriteSome
<1>7. CASE PollWait
  BY <1>7 DEF PollWait
<1>8. ASSUME NEW c \in Clients, Peer(c) PROVE UNCHANGED cmgr
  BY <1>8 DEF Peer, PeerConnect, PeerSend, PeerUrges, PeerRead, PeerClose, PeerReset, serverVars
<1>9. CASE UNCHANGED vars
  BY <1>9 DEF vars
<1> QED
  BY <1>1, <1>2, <1>3, <1>4, <1>5, <1>6, <1>7, <1>8, <1>9
  DEF Next, do_poll, HandleEvent

-----------------------------------------------------------------------------
(* Every step preserves the inductive invariant.  CMInv(cmgr)' is always    *)
(* there to use: StepMeetsContract and CMStep give it once for all actions. *)

\* The buffers of a Client whose id stays hold mail for it after the step.
LEMMA MailKept ==
  ASSUME NEW c, NEW q \in Seq(Mail(c)),
         q # <<>> => cmgr'.id[c] = cmgr.id[c]
  PROVE  q \in Seq(Mail(c)')
<1>1. CASE q = <<>>
  BY <1>1, EmptySeq
<1>2. CASE q # <<>>
  <2>1. Mail(c)' = Mail(c)
    BY <1>2 DEF Mail, Relayed
  <2> QED
    BY <2>1
<1> QED
  BY <1>1, <1>2

\* After a packet admitted its Client, and before it is routed.
LEMMA AdmitKeeps ==
  ASSUME ServerInv, NEW c \in Clients, NEW i \in Ids, Admit(c, i), epoll[c] # {},
         NEW d \in Clients
  PROVE  /\ d \notin cmgr'.live => epoll[d] = {}
         /\ d \in cmgr'.managed \cup cmgr'.invalid => epoll[d] # {}
         /\ queue[d] # <<>> \/ wire[d] # <<>> => d \in cmgr'.managed
         /\ queue[d] \in Seq(Mail(d)')
         /\ wire[d] \in Seq(Mail(d)')
<1>1. /\ cmgr'.live = cmgr.live
      /\ cmgr'.managed = cmgr.managed \cup {c}
      /\ cmgr'.id = [cmgr.id EXCEPT ![c] = i]
      /\ cmgr'.invalid \subseteq cmgr.invalid \cup cmgr.managed
      /\ c \in cmgr.managed => cmgr.id[c] = i
  BY AdmitEffect DEF ServerInv
<1>2. ClientInv(d)
  BY DEF ServerInv
<1>3. d \in cmgr.managed => cmgr'.id[d] = cmgr.id[d]
  BY <1>1 DEF ServerInv, CMInv, CMState
<1>4. queue[d] \in Seq(Mail(d)') /\ wire[d] \in Seq(Mail(d)')
  BY <1>2, <1>3, MailKept DEF ClientInv
<1> QED
  BY <1>1, <1>2, <1>4 DEF ClientInv

\* After a Client was rejected.
LEMMA RejectKeeps ==
  ASSUME ServerInv, NEW c \in Clients, NEW i \in AllIds, Reject(c, i), epoll[c] # {},
         UNCHANGED <<write_registered, queue, epoll, wire>>
  PROVE  \A d \in Clients : ClientInv(d)'
<1>1. /\ cmgr'.live = cmgr.live
      /\ cmgr'.managed = cmgr.managed
      /\ cmgr'.id = [cmgr.id EXCEPT ![c] = i]
      /\ cmgr'.invalid = cmgr.invalid \cup {c}
      /\ c \in cmgr.managed => cmgr.id[c] = i
  BY RejectEffect DEF ServerInv
<1> TAKE d \in Clients
<1>2. ClientInv(d)
  BY DEF ServerInv
<1>3. d \in cmgr.managed => cmgr'.id[d] = cmgr.id[d]
  BY <1>1 DEF ServerInv, CMInv, CMState
<1>4. queue[d] \in Seq(Mail(d)') /\ wire[d] \in Seq(Mail(d)')
  BY <1>2, <1>3, MailKept DEF ClientInv
<1> QED
  BY <1>1, <1>2, <1>4 DEF ClientInv

\* Handling an event leaves the rest of the batch as sound as it was, if it
\* frees nothing and takes nobody out of epoll.
LEMMA BatchTaken ==
  ASSUME ServerInv, NEW e \in cev, Take(e), pc' # "wait",
         cmgr.live \subseteq cmgr'.live,
         \A c \in Clients : epoll[c] # {} => epoll'[c] # {}
  PROVE  NoDanglingEvent'
<1>1. cev' \subseteq cev
  BY DEF Take
<1> QED
  BY <1>1 DEF ServerInv, NoDanglingEvent, TypeOK, CMInv, CMState, Event

LEMMA BatchShrinks ==
  ASSUME ServerInv, NEW e \in cev, Dispatch(e),
         cmgr.live \subseteq cmgr'.live,
         \A c \in Clients : epoll[c] # {} => epoll'[c] # {}
  PROVE  NoDanglingEvent'
  BY BatchTaken DEF Dispatch, Take

LEMMA AcceptPreserves ==
  ASSUME ServerInv, NEW e \in cev, accept_connection(e), CMInv(cmgr)'
  PROVE  ServerInv'
<1>1. CASE UNCHANGED <<cmgr, write_registered, queue, epoll, swallows>>
  <2>1. NoDanglingEvent'
    BY <1>1, BatchShrinks DEF accept_connection
  <2> QED
    BY <1>1, <2>1 DEF accept_connection, ServerInv, TypeOK, CMTypeOK, CMInv, Dispatch, Take,
                      peerVars, ClientInv, Mail
<1>2. ASSUME NEW c \in Backlog,
             cmgr' = NewClient(cmgr, c),
             write_registered' = write_registered \ {c},
             swallows' = swallows \ {c},
             queue' = [queue EXCEPT ![c] = <<>>],
             epoll' \in {[epoll EXCEPT ![c] = {"IN"}], epoll},
             UNCHANGED peerVars, Dispatch(e)
      PROVE  ServerInv'
  <2>1. c \in Clients /\ c \notin cmgr.live
    BY DEF Backlog
  <2>2. /\ cmgr'.live = cmgr.live \cup {c}
        /\ cmgr'.id = [cmgr.id EXCEPT ![c] = UNIDENTIFIED_CLIENT]
        /\ cmgr'.invalid = cmgr.invalid \ {c}
        /\ cmgr'.managed = cmgr.managed \ {c}
    BY <1>2 DEF NewClient, ServerInv, CMInv, CMState
  <2>3. c \notin cmgr.managed /\ c \notin cmgr.invalid
    BY <2>1 DEF ServerInv, CMInv, ListedOnce, Consistent
  <2>4. epoll[c] = {} /\ queue[c] = <<>> /\ wire[c] = <<>>
    BY <2>1, <2>3 DEF ServerInv, ClientInv
  <2>5. NoDanglingEvent'
    BY <1>2, <2>1, <2>2, <2>4, BatchShrinks DEF ServerInv, TypeOK
  <2>6. TypeOK'
    BY <1>2, <2>1, EmptySeq, ZenonT(60) DEF ServerInv, TypeOK, CMTypeOK, CMInv, Dispatch, Take, peerVars, EpollEvents
  <2>7. ASSUME NEW d \in Clients PROVE ClientInv(d)'
    <3>1. ClientInv(d)
      BY DEF ServerInv
    <3>2. queue'[d] \in Seq(Mail(d)') /\ wire'[d] \in Seq(Mail(d)')
      <4>1. CASE d = c
        BY <1>2, <2>1, <2>4, <4>1, EmptySeq DEF ServerInv, TypeOK, peerVars
      <4>2. CASE d # c
        <5>1. queue'[d] = queue[d] /\ wire'[d] = wire[d] /\ cmgr'.id[d] = cmgr.id[d]
          BY <1>2, <2>2, <4>2 DEF ServerInv, TypeOK, CMInv, CMState, peerVars
        <5> QED
          BY <3>1, <5>1, MailKept DEF ClientInv
      <4> QED
        BY <4>1, <4>2
    <3>3. CASE d = c
      BY <1>2, <2>1, <2>2, <2>3, <2>4, <3>1, <3>2, <3>3 DEF ClientInv, ServerInv, TypeOK, peerVars
    <3>4. CASE d # c
      BY <1>2, <2>1, <2>2, <3>1, <3>2, <3>4 DEF ClientInv, ServerInv, TypeOK, peerVars
    <3> QED
      BY <3>3, <3>4
  <2> QED
    BY <1>2, <2>5, <2>6, <2>7 DEF ServerInv
<1> QED
  BY <1>1, <1>2 DEF accept_connection

\* Steps that leave everything ClientInv speaks of alone.
LEMMA QuietPreserves ==
  ASSUME ServerInv, UNCHANGED <<cmgr, write_registered, queue, epoll, wire>>
  PROVE  \A c \in Clients : ClientInv(c)'
  BY DEF ServerInv, ClientInv, Mail

\* Reading takes a chunk from an inbox, or, behind a short length, all of it.
LEMMA ConsumeTyped ==
  ASSUME ServerInv, NEW c \in Clients, consume(c)
  PROVE  /\ inbox' \in [Clients -> Seq(Chunks)]
         /\ swallows' \subseteq Clients
         /\ urgent' \subseteq Clients
<1>1. inbox[c] \in Seq(Chunks)
  BY DEF ServerInv, TypeOK
<1>2. inbox[c] # <<>> => Tail(inbox[c]) \in Seq(Chunks)
  BY <1>1, HeadTailProperties
<1>3. inbox' \in [Clients -> Seq(Chunks)]
  BY <1>1, <1>2, EmptySeq DEF consume, HasChunk, ServerInv, TypeOK
<1>4. swallows' \subseteq Clients /\ urgent' \subseteq Clients
  BY DEF consume, ServerInv, TypeOK
<1> QED
  BY <1>3, <1>4

LEMMA StalePreserves ==
  ASSUME ServerInv, NEW e \in cev, StaleEvent(e), CMInv(cmgr)'
  PROVE  ServerInv'
<1>1. Dispatch(e) /\ UNCHANGED <<cmgr, write_registered, queue, epoll, swallows, peer, inbox, wire, urgent>>
  BY DEF StaleEvent, ReadEvent, ForReading, WriteEvent, ForWriting, peerVars
<1>2. NoDanglingEvent'
  BY <1>1, BatchShrinks
<1> QED
  BY <1>1, <1>2, QuietPreserves DEF ServerInv, TypeOK, CMTypeOK, Dispatch, Take

\* The assertion fails, whatever else the event says.
LEMMA NeitherPreserves ==
  ASSUME ServerInv, NEW e \in cev, NeitherEvent(e), CMInv(cmgr)'
  PROVE  ServerInv'
<1>1. /\ Take(e) /\ pc' = "aborted"
      /\ UNCHANGED <<cmgr, write_registered, queue, epoll, swallows, peer, inbox, wire, urgent>>
  BY DEF NeitherEvent, peerVars
<1>2. NoDanglingEvent'
  BY <1>1, BatchTaken
<1> QED
  BY <1>1, <1>2, QuietPreserves DEF ServerInv, TypeOK, CMTypeOK, Take

LEMMA OverrunPreserves ==
  ASSUME ServerInv, NEW e \in cev, ReadOverruns(e), CMInv(cmgr)'
  PROVE  ServerInv'
<1>1. /\ Take(e) /\ e.ptr # NULL /\ consume(e.ptr) /\ pc' = "undefined"
      /\ UNCHANGED <<cmgr, write_registered, queue, epoll, peer, wire>>
  BY DEF ReadOverruns, ForReading
<1>2. NoDanglingEvent'
  BY <1>1, BatchTaken
<1>3. inbox' \in [Clients -> Seq(Chunks)] /\ swallows' \subseteq Clients /\ urgent' \subseteq Clients
  BY <1>1, EventClient, ConsumeTyped
<1> QED
  BY <1>1, <1>2, <1>3, QuietPreserves DEF ServerInv, TypeOK, CMTypeOK, Take

LEMMA PartialPreserves ==
  ASSUME ServerInv, NEW e \in cev, ReadPartial(e), CMInv(cmgr)'
  PROVE  ServerInv'
<1>1. /\ Dispatch(e) /\ e.ptr # NULL /\ consume(e.ptr)
      /\ UNCHANGED <<cmgr, write_registered, queue, epoll, peer, wire>>
  BY DEF ReadPartial, Reads, ReadEvent, ForReading
<1>2. NoDanglingEvent'
  BY <1>1, BatchShrinks
<1>3. inbox' \in [Clients -> Seq(Chunks)] /\ swallows' \subseteq Clients /\ urgent' \subseteq Clients
  BY <1>1, EventClient, ConsumeTyped
<1> QED
  BY <1>1, <1>2, <1>3, QuietPreserves DEF ServerInv, TypeOK, CMTypeOK, Dispatch, Take

LEMMA FailPreserves ==
  ASSUME ServerInv, NEW e \in cev, ReadFails(e), CMInv(cmgr)'
  PROVE  ServerInv'
<1> DEFINE c == e.ptr
           i == identified(c).id[c]
<1>1. /\ Dispatch(e) /\ e.ptr # NULL /\ consume(c)
      /\ UNCHANGED <<write_registered, queue, epoll, peer, wire>>
  BY DEF ReadFails, Reads, ReadEvent, ForReading
<1>2. c \in Clients /\ epoll[c] # {} /\ i \in AllIds /\ Reject(c, i)
  BY <1>1, EventClient, ReadMeetsContract
<1> HIDE DEF i, c
<1>3. cmgr'.live = cmgr.live
  BY <1>2, RejectEffect DEF ServerInv
<1>4. NoDanglingEvent'
  BY <1>1, <1>3, BatchShrinks
<1>5. inbox' \in [Clients -> Seq(Chunks)] /\ swallows' \subseteq Clients /\ urgent' \subseteq Clients
  BY <1>1, <1>2, ConsumeTyped
<1>6. \A d \in Clients : ClientInv(d)'
  BY <1>1, <1>2, RejectKeeps
<1> QED
  BY <1>1, <1>4, <1>5, <1>6 DEF ServerInv, TypeOK, CMTypeOK, CMInv, Dispatch, Take

LEMMA HelloPreserves ==
  ASSUME ServerInv, NEW e \in cev, ReadHello(e), CMInv(cmgr)'
  PROVE  ServerInv'
<1> DEFINE c == e.ptr
           i == identified(c).id[c]
<1>1. /\ Dispatch(e) /\ e.ptr # NULL /\ consume(c)
      /\ UNCHANGED <<write_registered, queue, epoll, peer, wire>>
  BY DEF ReadHello, Reads, ReadEvent, ForReading
<1>2. c \in Clients /\ epoll[c] # {} /\ i \in Ids /\ Admit(c, i)
  BY <1>1, EventClient, ReadMeetsContract
<1> HIDE DEF i, c
<1>3. cmgr'.live = cmgr.live
  BY <1>2, AdmitEffect DEF ServerInv
<1>4. NoDanglingEvent'
  BY <1>1, <1>3, BatchShrinks
<1>5. inbox' \in [Clients -> Seq(Chunks)] /\ swallows' \subseteq Clients /\ urgent' \subseteq Clients
  BY <1>1, <1>2, ConsumeTyped
<1>6. \A d \in Clients : ClientInv(d)'
  BY <1>1, <1>2, AdmitKeeps DEF ServerInv, ClientInv
<1> QED
  BY <1>1, <1>4, <1>5, <1>6 DEF ServerInv, TypeOK, CMTypeOK, CMInv, Dispatch, Take

LEMMA DataPreserves ==
  ASSUME ServerInv, NEW e \in cev, ReadData(e), CMInv(cmgr)'
  PROVE  ServerInv'
<1> DEFINE c == e.ptr
           i == identified(c).id[c]
           p == Head(inbox[c])
<1>1. /\ Dispatch(e) /\ e.ptr # NULL /\ consume(c)
      /\ UNCHANGED <<peer, wire>>
      /\ send_data_to_client(p)
  BY DEF ReadData, Reads, ReadEvent, ForReading
<1>2. c \in Clients /\ epoll[c] # {} /\ i \in Ids /\ Admit(c, i)
  BY <1>1, EventClient, ReadMeetsContract DEF ReadData
<1>3. p \in Relayed
  BY <1>2, IdentifiedAs DEF ReadData, Reads, ServerInv
<1>4. p.dst \in AllIds
  BY <1>3, TCPAssumption DEF Relayed, Packet
<1> HIDE DEF i, c
<1>5. cmgr'.live = cmgr.live
  BY <1>2, AdmitEffect DEF ServerInv
<1>6. inbox' \in [Clients -> Seq(Chunks)] /\ swallows' \subseteq Clients /\ urgent' \subseteq Clients
  BY <1>1, <1>2, ConsumeTyped
<1>7. \A k \in Clients :
         /\ k \notin cmgr'.live => epoll[k] = {}
         /\ k \in cmgr'.managed \cup cmgr'.invalid => epoll[k] # {}
         /\ queue[k] # <<>> \/ wire[k] # <<>> => k \in cmgr'.managed
         /\ queue[k] \in Seq(Mail(k)')
         /\ wire[k] \in Seq(Mail(k)')
  BY <1>2, AdmitKeeps
<1> HIDE DEF p
<1>8. CASE destination(p) = NULL
  <2>1. UNCHANGED <<write_registered, queue, epoll>>
    BY <1>1, <1>8 DEF send_data_to_client
  <2>2. NoDanglingEvent'
    BY <1>1, <1>5, <2>1, BatchShrinks
  <2>3. \A k \in Clients : ClientInv(k)'
    BY <1>1, <1>7, <2>1 DEF ServerInv, ClientInv
  <2> QED
    BY <1>1, <1>6, <2>1, <2>2, <2>3 DEF ServerInv, TypeOK, CMTypeOK, CMInv, Dispatch, Take
<1>9. ASSUME NEW d, d = destination(p), d # NULL
      PROVE  ServerInv'
  <2>1. queue_packet(d, p) /\ register_write(d)
    BY <1>1, <1>9 DEF send_data_to_client
  <2>2. d \in Clients /\ d \in cmgr'.managed /\ cmgr'.id[d] = p.dst
    BY <1>4, <1>9 DEF destination, find_client_by_id, CMInv, CMState, Consistent
  <2>3. epoll[d] # {}
    BY <1>7, <2>2
  <2>4. epoll[d] \in {{"IN"}, {"IN", "OUT"}} /\ (d \in write_registered <=> "OUT" \in epoll[d])
    BY <2>2, <2>3 DEF ServerInv, ClientInv
  <2>5. /\ epoll' = [epoll EXCEPT ![d] = {"IN", "OUT"}]
        /\ write_registered' = write_registered \cup {d}
    <3>1. CASE d \in write_registered
      <4>1. epoll[d] = {"IN", "OUT"} /\ epoll \in [Clients -> SUBSET EpollEvents]
        BY <2>4, <3>1 DEF ServerInv, TypeOK
      <4> QED
        BY <2>1, <2>2, <3>1, <4>1 DEF register_write
    <3>2. CASE d \notin write_registered
      BY <2>1, <2>3, <3>2 DEF register_write, modify
    <3> QED
      BY <3>1, <3>2
  <2>6. p \in Mail(d)'
    BY <1>3, <2>2 DEF Mail, Relayed
  <2>7. queue' \in [Clients -> Seq(Relayed)] /\ queue'[d] \in Seq(Mail(d)')
    <3>1. queue[d] \in Seq(Relayed) /\ queue[d] \in Seq(Mail(d)')
      BY <1>7, <2>2 DEF ServerInv, TypeOK
    <3>2. Append(queue[d], p) \in Seq(Relayed) /\ Append(queue[d], p) \in Seq(Mail(d)')
      BY <1>3, <2>6, <3>1, SeqFacts
    <3> QED
      BY <2>1, <2>2, <3>1, <3>2 DEF queue_packet, ServerInv, TypeOK
  <2>8. \A k \in Clients \ {d} : queue'[k] = queue[k]
    BY <2>1, <2>2 DEF queue_packet, ServerInv, TypeOK
  <2>9. NoDanglingEvent'
    BY <1>1, <1>5, <2>2, <2>5, BatchShrinks DEF ServerInv, TypeOK
  <2>10. TypeOK'
    BY <1>1, <1>6, <2>2, <2>5, <2>7 DEF ServerInv, TypeOK, CMTypeOK, CMInv, Dispatch, Take, EpollEvents
  <2>11. ASSUME NEW k \in Clients PROVE ClientInv(k)'
    <3>1. ClientInv(k)
      BY DEF ServerInv
    <3>2. wire' = wire /\ epoll \in [Clients -> SUBSET EpollEvents]
      BY <1>1 DEF ServerInv, TypeOK
    <3>3. CASE k = d
      BY <1>5, <1>7, <2>2, <2>3, <2>5, <2>7, <3>1, <3>2, <3>3 DEF ClientInv
    <3>4. CASE k # d
      BY <1>7, <2>5, <2>8, <3>1, <3>2, <3>4 DEF ClientInv
    <3> QED
      BY <3>3, <3>4
  <2> QED
    BY <2>9, <2>10, <2>11 DEF ServerInv
<1> QED
  BY <1>8, <1>9

LEMMA NothingPreserves ==
  ASSUME ServerInv, NEW e \in cev, WriteNothing(e), CMInv(cmgr)'
  PROVE  ServerInv'
<1> DEFINE c == e.ptr
<1>1. /\ Dispatch(e) /\ e.ptr # NULL /\ queue[c] = <<>>
      /\ unregister_write(c)
      /\ UNCHANGED <<cmgr, queue, wire, swallows, peer, inbox, urgent>>
  BY DEF WriteNothing, Writes, WriteEvent, ForWriting
<1>2. c \in Clients /\ epoll[c] # {} /\ ClientInv(c)
  BY <1>1, EventClient DEF ServerInv
<1> HIDE DEF c
<1>3. /\ epoll' = [epoll EXCEPT ![c] = {"IN"}]
      /\ write_registered' = write_registered \ {c}
  <2>1. CASE c \in write_registered
    BY <1>1, <1>2, <2>1 DEF unregister_write, modify
  <2>2. CASE c \notin write_registered
    <3>1. epoll[c] = {"IN"} /\ epoll \in [Clients -> SUBSET EpollEvents]
      BY <1>2, <2>2 DEF ClientInv, ServerInv, TypeOK
    <3> QED
      BY <1>1, <1>2, <2>2, <3>1 DEF unregister_write
  <2> QED
    BY <2>1, <2>2
<1>4. NoDanglingEvent'
  BY <1>1, <1>2, <1>3, BatchShrinks DEF ServerInv, TypeOK
<1>5. TypeOK'
  BY <1>1, <1>2, <1>3 DEF ServerInv, TypeOK, CMTypeOK, Dispatch, Take, EpollEvents
<1>6. ASSUME NEW k \in Clients PROVE ClientInv(k)'
  <2>1. ClientInv(k) /\ epoll \in [Clients -> SUBSET EpollEvents]
    BY DEF ServerInv, TypeOK
  <2>2. Mail(k)' = Mail(k)
    BY <1>1 DEF Mail
  <2>3. CASE k = c
    BY <1>1, <1>2, <1>3, <2>1, <2>2, <2>3 DEF ClientInv
  <2>4. CASE k # c
    BY <1>1, <1>3, <2>1, <2>2, <2>4 DEF ClientInv
  <2> QED
    BY <2>3, <2>4
<1> QED
  BY <1>4, <1>5, <1>6 DEF ServerInv

\* What write_data moves: the whole of the queue, or as much as there is room.
LEMMA Moved ==
  ASSUME ServerInv, NEW c \in Clients
  PROVE  LET room == SndBuf - Len(wire[c])
             n    == IF Len(queue[c]) <= room THEN Len(queue[c]) ELSE room
         IN  /\ n \in 0 .. Len(queue[c])
             /\ Len(wire[c]) + n <= SndBuf
<1>1. Len(queue[c]) \in Nat /\ Len(wire[c]) \in Nat /\ Len(wire[c]) <= SndBuf
  BY LenProperties DEF ServerInv, TypeOK, ClientInv
<1>2. SndBuf \in Nat
  BY TCPAssumption
<1> DEFINE q == Len(queue[c])
           w == Len(wire[c])
<1> HIDE DEF q, w
<1>3. q \in Nat /\ w \in Nat /\ w <= SndBuf
  BY <1>1 DEF q, w
<1>4. LET room == SndBuf - w
          n    == IF q <= room THEN q ELSE room
      IN  n \in 0 .. q /\ w + n <= SndBuf
  BY <1>2, <1>3
<1> QED
  BY <1>4 DEF q, w

LEMMA SomePreserves ==
  ASSUME ServerInv, NEW e \in cev, WriteSome(e), CMInv(cmgr)'
  PROVE  ServerInv'
<1> DEFINE c == e.ptr
           room == SndBuf - Len(wire[c])
           n    == IF Len(queue[c]) <= room THEN Len(queue[c]) ELSE room
           w == SubSeq(queue[c], 1, n)
           q == SubSeq(queue[c], n + 1, Len(queue[c]))
<1>1. /\ Dispatch(e) /\ e.ptr # NULL /\ queue[c] # <<>>
      /\ wire' = [wire EXCEPT ![c] = @ \o w]
      /\ queue' = [queue EXCEPT ![c] = q]
      /\ UNCHANGED <<cmgr, write_registered, epoll, swallows, peer, inbox, urgent>>
  BY DEF WriteSome, Writes, WriteEvent, ForWriting
<1>2. c \in Clients /\ ClientInv(c)
  BY <1>1, EventClient DEF ServerInv
<1>3. n \in 0 .. Len(queue[c]) /\ Len(wire[c]) + n <= SndBuf
  BY <1>2, Moved
<1> HIDE DEF n, c
<1>4. ASSUME NEW S, queue[c] \in Seq(S), wire[c] \in Seq(S)
      PROVE  q \in Seq(S) /\ wire[c] \o w \in Seq(S)
  BY <1>3, <1>4, SeqFacts, ConcatProperties
<1>5. Len(wire[c] \o w) <= SndBuf
  <2>1. w \in Seq(Relayed) /\ wire[c] \in Seq(Relayed) /\ queue[c] \in Seq(Relayed)
    BY <1>2, <1>3, SeqFacts DEF ServerInv, TypeOK
  <2>2. Len(w) = n
    <3>1. \A k \in 1 .. n : queue[c][k] \in Relayed
      BY <1>3, <2>1, ElementOfSeq, LenProperties
    <3> QED
      BY <1>3, <2>1, <3>1, SubSeqProperties, LenProperties
  <2> QED
    BY <1>3, <2>1, <2>2, ConcatProperties, ZenonT(60)
<1> HIDE DEF w, q
<1>6. NoDanglingEvent'
  BY <1>1, BatchShrinks
<1>7. TypeOK'
  <2>1. q \in Seq(Relayed) /\ wire[c] \o w \in Seq(Relayed)
    BY <1>2, <1>4 DEF ServerInv, TypeOK
  <2> QED
    BY <1>1, <1>2, <2>1 DEF ServerInv, TypeOK, CMTypeOK, Dispatch, Take
<1>8. ASSUME NEW k \in Clients PROVE ClientInv(k)'
  <2>1. ClientInv(k)
    BY DEF ServerInv
  <2>2. Mail(k)' = Mail(k)
    BY <1>1 DEF Mail
  <2>3. CASE k = c
    <3>1. q \in Seq(Mail(c)) /\ wire[c] \o w \in Seq(Mail(c))
      BY <1>2, <1>4 DEF ClientInv
    <3>2. queue'[c] = q /\ wire'[c] = wire[c] \o w
      BY <1>1, <1>2 DEF ServerInv, TypeOK
    <3> QED
      BY <1>1, <1>2, <1>5, <2>1, <2>2, <2>3, <3>1, <3>2 DEF ClientInv
  <2>4. CASE k # c
    <3>1. queue'[k] = queue[k] /\ wire'[k] = wire[k]
      BY <1>1, <2>4 DEF ServerInv, TypeOK
    <3> QED
      BY <1>1, <2>1, <2>2, <3>1 DEF ClientInv
  <2> QED
    BY <2>3, <2>4
<1> QED
  BY <1>6, <1>7, <1>8 DEF ServerInv

LEMMA WriteFailPreserves ==
  ASSUME ServerInv, NEW e \in cev, WriteFails(e), CMInv(cmgr)'
  PROVE  ServerInv'
<1> DEFINE c == e.ptr
           i == cmgr.id[c]
<1>1. /\ Dispatch(e) /\ e.ptr # NULL
      /\ UNCHANGED <<write_registered, queue, epoll, wire, swallows, peer, inbox, urgent>>
  BY DEF WriteFails, Writes, WriteEvent, ForWriting
<1>2. c \in Clients /\ epoll[c] # {} /\ c \in cmgr.live \ cmgr.invalid
  BY <1>1, EventClient DEF WriteFails, Writes
<1>3. i \in AllIds /\ cmgr = SetId(cmgr, c, i)
  BY <1>2 DEF SetId, ServerInv, CMInv, CMState
<1>4. Reject(c, i)
  BY <1>2, <1>3 DEF WriteFails, Reject
<1> HIDE DEF i, c
<1>5. cmgr'.live = cmgr.live
  BY <1>2, <1>3, <1>4, RejectEffect DEF ServerInv
<1>6. NoDanglingEvent'
  BY <1>1, <1>5, BatchShrinks
<1>7. \A d \in Clients : ClientInv(d)'
  BY <1>1, <1>2, <1>3, <1>4, RejectKeeps
<1> QED
  BY <1>1, <1>6, <1>7 DEF ServerInv, TypeOK, CMTypeOK, CMInv, Dispatch, Take

LEMMA PollPreserves ==
  ASSUME ServerInv, PollWait, CMInv(cmgr)'
  PROVE  ServerInv'
<1>1. /\ cev' \subseteq Ready /\ pc' = "dispatch"
      /\ UNCHANGED <<cmgr, write_registered, queue, epoll, swallows, peer, inbox, wire, urgent>>
  BY DEF PollWait, peerVars
<1>2. \A e \in Ready :
         /\ e \in Event
         /\ e.ptr # NULL => e.ptr \in Clients /\ epoll[e.ptr] # {}
  BY DEF Ready, Event, EventsOf, EpollEvents
<1>3. \A c \in Clients : epoll[c] # {} => c \in cmgr.live
  BY DEF ServerInv, ClientInv
<1>4. cev' \subseteq Event
  BY <1>1, <1>2
<1>5. NoDanglingEvent'
  <2>1. ASSUME NEW e \in cev', e.ptr # NULL
        PROVE  e.ptr \in cmgr'.live /\ epoll'[e.ptr] # {}
    <3>1. e.ptr \in Clients /\ epoll[e.ptr] # {}
      BY <1>1, <1>2, <2>1
    <3> QED
      BY <1>1, <1>3, <3>1
  <2> QED
    BY <1>1, <2>1 DEF NoDanglingEvent
<1> QED
  BY <1>1, <1>4, <1>5, QuietPreserves DEF ServerInv, TypeOK, CMTypeOK

LEMMA EndPreserves ==
  ASSUME ServerInv, EndOfBatch, CMInv(cmgr)'
  PROVE  ServerInv'
<1> DEFINE freed == Listed(cmgr)
           Cleared(f, v) == [c \in Clients |-> IF c \in freed THEN v ELSE f[c]]
<1>1. /\ cev = {} /\ cev' = {} /\ pc' = "wait"
      /\ cmgr' = free_invalid_clients(cmgr)
      /\ write_registered' = write_registered \ freed
      /\ queue' = Cleared(queue, <<>>)
      /\ epoll' = Cleared(epoll, {})
      /\ peer'  = Cleared(peer, "none")
      /\ inbox' = Cleared(inbox, <<>>)
      /\ wire'  = Cleared(wire, <<>>)
      /\ swallows' \subseteq swallows /\ urgent' \subseteq urgent
  BY DEF EndOfBatch
<1>2. freed = cmgr.invalid /\ cmgr'.invalid = {}
  BY <1>1, FreeInv, SMTT(40) DEF ServerInv
<1>3. /\ cmgr'.live = cmgr.live \ freed
      /\ cmgr'.managed = cmgr.managed \ freed
      /\ \A c \in Clients \ freed : cmgr'.id[c] = cmgr.id[c]
  BY <1>1 DEF free_invalid_clients, ServerInv, CMInv, CMState
<1>4. NoDanglingEvent'
  BY <1>1, <1>2 DEF NoDanglingEvent
<1>5. TypeOK'
  BY <1>1, EmptySeq DEF ServerInv, TypeOK, CMTypeOK, CMInv
<1>6. ASSUME NEW c \in Clients PROVE ClientInv(c)'
  <2>1. ClientInv(c)
    BY DEF ServerInv
  <2>2. CASE c \in freed
    <3>1. queue'[c] = <<>> /\ wire'[c] = <<>> /\ epoll'[c] = {} /\ c \notin write_registered'
      BY <1>1, <2>2
    <3>2. <<>> \in Seq(Mail(c)') /\ Len(<<>>) = 0
      BY EmptySeq
    <3> HIDE DEF freed
    <3> QED
      BY <1>2, <1>3, <2>2, <3>1, <3>2, TCPAssumption DEF ClientInv
  <2>3. CASE c \notin freed
    <3>1. /\ queue'[c] = queue[c] /\ wire'[c] = wire[c] /\ epoll'[c] = epoll[c]
          /\ (c \in write_registered' <=> c \in write_registered)
      BY <1>1, <2>3
    <3> HIDE DEF freed
    <3>2. queue'[c] \in Seq(Mail(c)') /\ wire'[c] \in Seq(Mail(c)')
      BY <1>3, <2>1, <2>3, <3>1, MailKept DEF ClientInv
    <3> QED
      BY <1>2, <1>3, <2>1, <2>3, <3>1, <3>2 DEF ClientInv
  <2> QED
    BY <2>2, <2>3
<1> QED
  BY <1>4, <1>5, <1>6 DEF ServerInv

LEMMA PeerPreserves ==
  ASSUME ServerInv, NEW c \in Clients, Peer(c), CMInv(cmgr)'
  PROVE  ServerInv'
<1>1. UNCHANGED <<cmgr, write_registered, queue, cev, pc, epoll, swallows>>
  BY DEF Peer, PeerConnect, PeerSend, PeerUrges, PeerRead, PeerClose, PeerReset, serverVars
<1>2. NoDanglingEvent'
  BY <1>1 DEF ServerInv, NoDanglingEvent
<1>3. CASE PeerConnect(c) \/ PeerClose(c) \/ PeerReset(c)
  <2>1. UNCHANGED <<inbox, wire, urgent>> /\ peer' \in [Clients -> {"none", "open", "closed", "reset"}]
    BY <1>3 DEF PeerConnect, PeerClose, PeerReset, ServerInv, TypeOK
  <2> QED
    BY <1>1, <1>2, <2>1, QuietPreserves DEF ServerInv, TypeOK, CMTypeOK
<1>4. ASSUME NEW p \in Chunks, PeerSend(c, p) PROVE ServerInv'
  <2>1. Append(inbox[c], p) \in Seq(Chunks)
    BY AppendProperties DEF ServerInv, TypeOK
  <2>2. UNCHANGED <<peer, wire, urgent>> /\ inbox' \in [Clients -> Seq(Chunks)]
    BY <1>4, <2>1 DEF PeerSend, ServerInv, TypeOK
  <2> QED
    BY <1>1, <1>2, <2>2, QuietPreserves DEF ServerInv, TypeOK, CMTypeOK
<1>5. CASE PeerRead(c)
  <2>1. /\ UNCHANGED <<peer, inbox, urgent>> /\ wire[c] # <<>>
        /\ wire' = [wire EXCEPT ![c] = Tail(@)]
    BY <1>5 DEF PeerRead
  <2>2. ASSUME NEW S, wire[c] \in Seq(S)
        PROVE  Tail(wire[c]) \in Seq(S) /\ Len(Tail(wire[c])) <= Len(wire[c])
               /\ Len(wire[c]) \in Nat /\ Len(Tail(wire[c])) \in Nat
    BY <2>1, <2>2, HeadTailProperties, LenProperties
  <2>3. TypeOK'
    BY <1>1, <2>1, <2>2 DEF ServerInv, TypeOK, CMTypeOK
  <2>4. ASSUME NEW k \in Clients PROVE ClientInv(k)'
    <3>1. ClientInv(k)
      BY DEF ServerInv
    <3>2. Mail(k)' = Mail(k)
      BY <1>1 DEF Mail
    <3>3. CASE k = c
      <4>1. wire'[c] = Tail(wire[c])
        BY <2>1 DEF ServerInv, TypeOK
      <4>2. wire[c] \in Seq(Mail(c)) /\ Len(wire[c]) <= SndBuf
        BY <3>1, <3>3 DEF ClientInv
      <4>3. Tail(wire[c]) \in Seq(Mail(c)) /\ Len(Tail(wire[c])) <= SndBuf
        BY <2>2, <4>2, TCPAssumption
      <4> QED
        BY <1>1, <2>1, <3>1, <3>2, <3>3, <4>1, <4>3 DEF ClientInv
    <3>4. CASE k # c
      <4>1. wire'[k] = wire[k]
        BY <2>1, <3>4 DEF ServerInv, TypeOK
      <4> QED
        BY <1>1, <3>1, <3>2, <4>1 DEF ClientInv
    <3> QED
      BY <3>3, <3>4
  <2> QED
    BY <1>1, <1>2, <2>3, <2>4 DEF ServerInv
<1>6. CASE PeerUrges(c)
  <2>1. UNCHANGED <<peer, inbox, wire>> /\ urgent' \subseteq Clients
    BY <1>6 DEF PeerUrges, ServerInv, TypeOK
  <2> QED
    BY <1>1, <1>2, <2>1, QuietPreserves DEF ServerInv, TypeOK, CMTypeOK
<1> QED
  BY <1>3, <1>4, <1>5, <1>6 DEF Peer

-----------------------------------------------------------------------------
(* The theorems. *)

LEMMA InitInv == Init => ServerInv
<1> SUFFICES ASSUME Init PROVE ServerInv
  OBVIOUS
<1>1. CMInv(cmgr)
  BY InitStateInv DEF Init, CMInit
<1>2. \A S : <<>> \in Seq(S) /\ Len(<<>>) = 0
  BY EmptySeq
<1>3. TypeOK
  BY <1>1, <1>2 DEF Init, TypeOK, CMTypeOK, CMInv
<1>4. NoDanglingEvent
  BY DEF Init, NoDanglingEvent, CMInit, CMInitState
<1>5. \A c \in Clients : ClientInv(c)
  BY <1>2, TCPAssumption DEF Init, ClientInv, CMInit, CMInitState
<1> QED
  BY <1>1, <1>3, <1>4, <1>5 DEF ServerInv

LEMMA StepInv == ServerInv /\ [Next]_vars => ServerInv'
<1> SUFFICES ASSUME ServerInv, [Next]_vars PROVE ServerInv'
  OBVIOUS
<1>1. CMInv(cmgr)'
  BY StepMeetsContract, CMStep DEF ServerInv
<1>2. CASE PollWait
  BY <1>1, <1>2, PollPreserves
<1>3. ASSUME NEW e \in cev, HandleEvent(e) PROVE ServerInv'
  BY <1>1, <1>3, AcceptPreserves, NeitherPreserves, StalePreserves,
     OverrunPreserves, PartialPreserves, FailPreserves,
     HelloPreserves, DataPreserves, NothingPreserves, SomePreserves,
     WriteFailPreserves
  DEF HandleEvent
<1>4. CASE EndOfBatch
  BY <1>1, <1>4, EndPreserves
<1>5. ASSUME NEW c \in Clients, Peer(c) PROVE ServerInv'
  BY <1>1, <1>5, PeerPreserves
<1>6. CASE UNCHANGED vars
  <2>1. UNCHANGED <<cmgr, write_registered, queue, cev, pc, epoll, swallows, peer, inbox, wire, urgent>>
    BY <1>6 DEF vars
  <2> QED
    BY <2>1, <1>1, QuietPreserves DEF ServerInv, TypeOK, CMTypeOK, NoDanglingEvent
<1> QED
  BY <1>2, <1>3, <1>4, <1>5, <1>6 DEF Next, do_poll

\* The inductive invariant of the server.
THEOREM Invariance == Spec => []ServerInv
  BY InitInv, StepInv, PTL DEF Spec

\* Type correctness.
THEOREM Typed == Spec => []TypeOK
<1>1. ServerInv => TypeOK
  BY DEF ServerInv
<1> QED
  BY <1>1, Invariance, PTL

\* No event of a batch points to a freed Client, whatever the handling of
\* the events before it did, and batches end with nothing left to free.
THEOREM EventsAreSafe == Spec => []NoDanglingEvent
<1>1. ServerInv => NoDanglingEvent
  BY DEF ServerInv
<1> QED
  BY <1>1, Invariance, PTL

\* Packets queued for a valid Client are always behind a write registration.
THEOREM WakeupsAreKept == Spec => []NoLostWakeup
<1>1. ServerInv => NoLostWakeup
  BY DEF ServerInv, ClientInv, NoLostWakeup, Valid, CMInv, CMState
<1> QED
  BY <1>1, Invariance, PTL

\* A Client that epoll does not watch takes no part in the relaying.
THEOREM OrphansAreInert == Spec => []OrphanIsInert
<1>1. ServerInv => OrphanIsInert
  BY DEF ServerInv, ClientInv, OrphanIsInert, CMInv, CMState
<1> QED
  BY <1>1, Invariance, PTL

\* Packets on their way to a peer are addressed to its id.
THEOREM RoutesAreRight == Spec => []RoutedToOwner
<1>1. ServerInv => RoutedToOwner
  <2> SUFFICES ASSUME ServerInv, NEW c \in Clients,
                      NEW k \in 1 .. Len(wire[c] \o queue[c])
               PROVE  c \in cmgr.managed /\ (wire[c] \o queue[c])[k].dst = cmgr.id[c]
    BY DEF RoutedToOwner
  <2>1. wire[c] \in Seq(Mail(c)) /\ queue[c] \in Seq(Mail(c))
    BY DEF ServerInv, ClientInv
  <2>2. (wire[c] \o queue[c])[k] \in Mail(c)
    BY <2>1, ConcatProperties, ElementOfSeq
  <2>3. wire[c] # <<>> \/ queue[c] # <<>>
    <3> SUFFICES ASSUME wire[c] = <<>>, queue[c] = <<>> PROVE FALSE
      OBVIOUS
    <3>1. wire[c] \o queue[c] = <<>> /\ Len(<<>>) = 0
      BY <2>1, ConcatEmptySeq, EmptySeq
    <3> QED
      BY <3>1
  <2> QED
    BY <2>2, <2>3 DEF ServerInv, ClientInv, Mail
<1> QED
  BY <1>1, Invariance, PTL

\* What Append adds can be told from what it makes.
LEMMA Appended ==
  ASSUME NEW S, NEW q \in Seq(S), NEW x \in S, NEW y \in S
  PROVE  /\ Len(Append(q, x)) = Len(q) + 1 /\ Len(q) \in Nat
         /\ Append(q, x) # q /\ Append(q, x) # <<>>
         /\ Append(q, x) = Append(q, y) => x = y
<1>1. /\ Append(q, x)[Len(q) + 1] = x /\ Append(q, y)[Len(q) + 1] = y
      /\ Len(Append(q, x)) = Len(q) + 1 /\ Len(q) \in Nat
  BY AppendProperties, LenProperties
<1>2. Append(q, x) # q /\ Append(q, x) # <<>>
  <2>1. Len(q) # Len(q) + 1 /\ Len(q) + 1 # 0
    BY <1>1
  <2> QED
    BY <1>1, <2>1, EmptySeq, Zenon
<1> QED
  BY <1>1, <1>2, Zenon

\* Only a packet that is read makes a queue longer.
LEMMA QueueGrows ==
  ASSUME ServerInv, [Next]_vars, NEW d \in Clients, NEW p \in Relayed,
         queue'[d] = Append(queue[d], p)
  PROVE  \E e \in cev : ReadData(e) /\ p = Head(inbox[e.ptr])
<1>1. queue[d] \in Seq(Relayed)
  BY DEF ServerInv, TypeOK
<1>2. Len(queue'[d]) = Len(queue[d]) + 1 /\ Len(queue[d]) \in Nat
  BY <1>1, Appended
<1>3. queue'[d] # queue[d] /\ queue'[d] # <<>>
  <2>1. Append(queue[d], p) # queue[d] /\ Append(queue[d], p) # <<>>
    BY <1>1, Appended
  <2> QED
    BY <2>1
<1>4. queue' # queue
  BY <1>3
<1>5. ASSUME NEW e \in cev, accept_connection(e) PROVE FALSE
  <2>1. PICK c \in Backlog : queue' = [queue EXCEPT ![c] = <<>>]
    BY <1>4, <1>5 DEF accept_connection
  <2> QED
    BY <1>3, <2>1 DEF ServerInv, TypeOK
<1>6. ASSUME NEW e \in cev, WriteSome(e) PROVE FALSE
  <2> DEFINE c == e.ptr
             room == SndBuf - Len(wire[c])
             n    == IF Len(queue[c]) <= room THEN Len(queue[c]) ELSE room
             q    == SubSeq(queue[c], n + 1, Len(queue[c]))
  <2>1. queue' = [queue EXCEPT ![c] = q] /\ c \in Clients
    BY <1>6, EventClient DEF WriteSome, Writes, WriteEvent, ForWriting
  <2>2. n \in 0 .. Len(queue[c])
    BY <2>1, Moved
  <2> HIDE DEF n, c
  <2>3. c = d /\ queue'[d] = q
    BY <1>3, <2>1 DEF ServerInv, TypeOK
  <2>4. q \in Seq(Relayed) /\ Len(q) = Len(queue[d]) - n
    <3>1. \A k \in n + 1 .. Len(queue[d]) : queue[d][k] \in Relayed
      BY <1>1, <2>2, <2>3, ElementOfSeq, LenProperties
    <3> QED
      BY <1>1, <1>2, <2>2, <2>3, <3>1, SubSeqProperties
  <2> HIDE DEF q
  <2> QED
    BY <1>2, <2>2, <2>3, <2>4
<1>7. CASE EndOfBatch
  BY <1>3, <1>7 DEF EndOfBatch
<1>8. ASSUME NEW e \in cev, ReadData(e) PROVE p = Head(inbox[e.ptr])
  <2>1. PICK r \in Relayed : r = Head(inbox[e.ptr])
    BY <1>8, EventClient, IdentifiedAs DEF ReadData, Reads, ReadEvent, ForReading, ServerInv
  <2>2. PICK t : t = destination(Head(inbox[e.ptr]))
    OBVIOUS
  <2>3. t # NULL /\ queue_packet(t, r)
    BY <1>4, <1>8, <2>1, <2>2 DEF ReadData, send_data_to_client
  <2>4. queue'[d] = Append(queue[d], r)
    BY <1>3, <2>3 DEF queue_packet, ServerInv, TypeOK
  <2>5. Append(queue[d], p) = Append(queue[d], r)
    BY <2>4
  <2> QED
    <3>1. Append(queue[d], p) = Append(queue[d], r) => p = r
      BY <1>1, <2>1, Appended
    <3> QED
      BY <2>1, <2>5, <3>1
<1>9. ASSUME NEW e \in cev,
             \/ NeitherEvent(e) \/ StaleEvent(e) \/ ReadOverruns(e) \/ ReadPartial(e)
             \/ ReadFails(e) \/ ReadHello(e) \/ WriteNothing(e) \/ WriteFails(e)
      PROVE  FALSE
  BY <1>4, <1>9 DEF NeitherEvent, StaleEvent, ReadOverruns, ReadPartial, ReadFails,
                    ReadHello, WriteNothing, WriteFails
<1>10. ~PollWait /\ ~(\E c \in Clients : Peer(c)) /\ ~UNCHANGED vars
  BY <1>4 DEF PollWait, Peer, PeerConnect, PeerSend, PeerUrges, PeerRead, PeerClose,
              PeerReset, serverVars, vars
<1> QED
  BY <1>5, <1>6, <1>7, <1>8, <1>9, <1>10 DEF Next, do_poll, HandleEvent

\* Only reading a packet makes a Client managed.
LEMMA ManagedGrows ==
  ASSUME ServerInv, [Next]_vars, NEW c \in cmgr'.managed \ cmgr.managed
  PROVE  \E e \in cev : e.ptr = c /\ (ReadHello(e) \/ ReadData(e))
<1>1. cmgr' # cmgr
  OBVIOUS
<1>2. ASSUME NEW e \in cev, accept_connection(e) PROVE FALSE
  <2>1. PICK k \in Backlog : cmgr' = NewClient(cmgr, k)
    BY <1>1, <1>2 DEF accept_connection
  <2>2. cmgr'.managed \subseteq cmgr.managed
    BY <2>1 DEF NewClient, ServerInv, CMInv, CMState
  <2> QED
    BY <2>2
<1>3. ASSUME NEW e \in cev, ReadFails(e) PROVE FALSE
  <2>1. PICK i \in AllIds : Reject(e.ptr, i)
    BY <1>3, ReadMeetsContract
  <2> QED
    BY <1>3, <2>1, EventClient, RejectEffect DEF ServerInv, ReadFails, Reads, ReadEvent, ForReading
<1>4. ASSUME NEW e \in cev, WriteFails(e) PROVE FALSE
  BY <1>4 DEF WriteFails, mark_client_as_invalid, ServerInv, CMInv, CMState
<1>5. CASE EndOfBatch
  BY <1>5 DEF EndOfBatch, free_invalid_clients, ServerInv, CMInv, CMState
<1>6. ASSUME NEW e \in cev, ReadHello(e) \/ ReadData(e) PROVE e.ptr = c
  <2>1. PICK i \in Ids : Admit(e.ptr, i)
    BY <1>6, ReadMeetsContract
  <2>2. e.ptr \in Clients
    BY <1>6, EventClient DEF ReadHello, ReadData, Reads, ReadEvent, ForReading
  <2>3. cmgr'.managed = cmgr.managed \cup {e.ptr}
    BY <2>1, <2>2, AdmitEffect DEF ServerInv
  <2> QED
    BY <2>3
<1>7. ASSUME NEW e \in cev,
             \/ NeitherEvent(e) \/ StaleEvent(e) \/ ReadOverruns(e)
             \/ ReadPartial(e) \/ WriteNothing(e) \/ WriteSome(e)
      PROVE  FALSE
  BY <1>1, <1>7 DEF NeitherEvent, StaleEvent, ReadOverruns, ReadPartial, WriteNothing, WriteSome
<1>8. ~PollWait /\ ~(\E k \in Clients : Peer(k)) /\ ~UNCHANGED vars
  BY <1>1 DEF PollWait, Peer, PeerConnect, PeerSend, PeerUrges, PeerRead, PeerClose,
              PeerReset, serverVars, vars
<1> QED
  BY <1>2, <1>3, <1>4, <1>5, <1>6, <1>7, <1>8 DEF Next, do_poll, HandleEvent

\* A peer that sent a short length is mute: nothing behind it names its Client
\* or is relayed under the name that Client owns.
THEOREM ShortIsMute == Spec => MuteBehindShort
<1>1. ASSUME NEW e \in cev, ServerInv, ReadHello(e) \/ ReadData(e)
      PROVE  e.ptr \notin swallows
  <2>1. e.ptr \in Clients /\ read_packet(e.ptr) \in {"HELLO", "PACKET"}
    BY <1>1, EventClient DEF ReadHello, ReadData, Reads, ReadEvent, ForReading
  <2> QED
    BY <1>1, <2>1, IdentifiedAs DEF ServerInv, HasChunk
<1>2. ASSUME ServerInv, [Next]_vars,
             NEW c \in swallows \ (cmgr.invalid \cup cmgr'.invalid)
      PROVE  /\ c \notin cmgr.managed => c \notin cmgr'.managed
             /\ c \in cmgr.managed =>
                  \A d \in Clients : \A p \in Relayed :
                    queue'[d] = Append(queue[d], p) => p.src # cmgr.id[c]
  <2>1. c \notin cmgr.managed => c \notin cmgr'.managed
    BY <1>1, <1>2, ManagedGrows
  <2>2. ASSUME c \in cmgr.managed, NEW d \in Clients, NEW p \in Relayed,
               queue'[d] = Append(queue[d], p), p.src = cmgr.id[c]
        PROVE  FALSE
    <3>1. PICK e \in cev : ReadData(e) /\ p = Head(inbox[e.ptr])
      BY <1>2, <2>2, QueueGrows
    <3>2. PICK i \in Ids : i = p.src /\ Admit(e.ptr, i)
      BY <1>2, <3>1, ReadMeetsContract
    <3>3. e.ptr \in Clients /\ e.ptr # c
      BY <1>1, <1>2, <3>1, EventClient DEF ReadData, Reads, ReadEvent, ForReading
    <3>4. c \in Clients /\ NULL \notin Clients
      BY <1>2, CMAssumption DEF ServerInv, TypeOK
    <3>5. cmgr.client_array[i] = c
      BY <1>2, <2>2, <3>2, <3>4 DEF ServerInv, CMInv, Consistent, AllIds
    <3>6. /\ e.ptr \in cmgr.managed => e.ptr = cmgr.client_array[i]
          /\ e.ptr \notin cmgr.managed /\ cmgr.client_array[i] # NULL =>
               cmgr.client_array[i] \in cmgr'.invalid
      <4>1. PICK x \in Clients : x = e.ptr
        BY <3>3
      <4>2. Admit(x, i) /\ CMInv(cmgr)
        BY <1>2, <3>2, <4>1 DEF ServerInv
      <4>3. /\ x \in cmgr.managed => x = cmgr.client_array[i]
            /\ x \notin cmgr.managed =>
                 cmgr'.invalid = IF cmgr.client_array[i] = NULL THEN cmgr.invalid
                                 ELSE cmgr.invalid \cup {cmgr.client_array[i]}
        BY <4>2, AdmitTable
      <4> QED
        BY <4>1, <4>3
    <3> QED
      BY <1>2, <3>3, <3>4, <3>5, <3>6
  <2> QED
    BY <2>1, <2>2
<1>3. ServerInv /\ [Next]_vars => [\A c \in swallows \ (cmgr.invalid \cup cmgr'.invalid) :
             /\ c \notin cmgr.managed => c \notin cmgr'.managed
             /\ c \in cmgr.managed =>
                  \A d \in Clients : \A p \in Relayed :
                    queue'[d] = Append(queue[d], p) => p.src # cmgr.id[c]]_vars
  BY <1>2
<1> QED
  BY <1>3, Invariance, PTL DEF Spec, MuteBehindShort

\* The server drives ClientMgr only as its contract allows, and therefore
\* enjoys everything ClientMgrProofs proves of the contract.
THEOREM MeetsContract == Spec => CMSpec
<1>1. Init => CMInit
  BY DEF Init
<1>2. ServerInv /\ [Next]_vars => [CMNext]_cmgr
  BY StepMeetsContract
<1> QED
  BY <1>1, <1>2, Invariance, PTL DEF Spec, CMSpec

\* The table of the server is consistent in every state.
THEOREM ServerTable == Spec => []TableConsistent
  BY MeetsContract, CMTableConsistent, PTL

\* The server never deletes a Client twice.
THEOREM ServerDeletes == Spec => []NoDoubleFree
  BY MeetsContract, CMNoDoubleFree, PTL

\* Whoever loses an id in the server is on the list of Clients to free.
THEOREM ServerEvicts == Spec => EvictedIsDoomed
  BY MeetsContract, CMEvictedIsDoomed, PTL

\* In the server, a rejected newcomer leaves the table alone.
THEOREM ServerRejects == Spec => RejectedIsHarmless
  BY MeetsContract, CMRejectedIsHarmless, PTL

-----------------------------------------------------------------------------
(* The server implements the relay.  The lemmas say what the server's steps *)
(* are to it: Admit is Speak, Reject is Hangup, and so on.                  *)

\* The relay's owner of a name is the entry of the table.
Owner == [i \in Ids |-> cmgr.client_array[i]]

\* The Clients of one batch, as the relay sees them.
LEMMA Sessions ==
  \A c \in Clients :
    /\ session[c] = IF c \notin cmgr.live THEN "absent"
                    ELSE IF c \in cmgr.invalid THEN "gone"
                    ELSE IF c \in cmgr.managed THEN "bound"
                    ELSE "fresh"
    /\ mailbox[c] = wire[c] \o queue[c]
BY DEF session, mailbox

\* A step that leaves ClientMgr and the packets under way alone is no step of
\* the relay.
LEMMA RelayStutters ==
  ASSUME cmgr' = cmgr, mailbox' = mailbox
  PROVE  UNCHANGED <<session, Owner, mailbox>>
BY DEF session, Owner

\* Admitting c is c speaking under its name.
LEMMA AdmitSpeaks ==
  ASSUME ServerInv, NEW c \in Clients, NEW i \in Ids, Admit(c, i)
  PROVE  R!Speak(c, i)
<1>1. /\ cmgr'.live = cmgr.live
      /\ cmgr'.managed = cmgr.managed \cup {c}
      /\ c \in cmgr.live \ cmgr.invalid
  BY AdmitEffect DEF ServerInv, Admit
<1> DEFINE p == cmgr.client_array[i]
<1>2. /\ c \in cmgr.managed =>
           /\ p = c
           /\ cmgr'.invalid = cmgr.invalid
           /\ cmgr'.client_array = cmgr.client_array
      /\ c \notin cmgr.managed =>
           /\ p # c
           /\ p # NULL => p \in cmgr.managed \ cmgr.invalid
           /\ cmgr'.invalid = IF p = NULL THEN cmgr.invalid ELSE cmgr.invalid \cup {p}
           /\ cmgr'.client_array = [cmgr.client_array EXCEPT ![i] = c]
  BY AdmitTable DEF ServerInv
<1>3. cmgr.managed \subseteq cmgr.live /\ cmgr.client_array \in [AllIds -> Clients \cup {NULL}]
  BY DEF ServerInv, CMInv, CMState, Consistent
<1>4. Owner[i] = p /\ NULL \notin Clients
  BY CMAssumption DEF Owner
<1> HIDE DEF p
<1>5. CASE c \in cmgr.managed
  <2>1. session' = session /\ Owner' = Owner
    BY <1>1, <1>2, <1>5 DEF session, Owner
  <2>2. session[c] = "bound" /\ Owner[i] = c
    BY <1>1, <1>2, <1>4, <1>5, Sessions
  <2> QED
    BY <2>1, <2>2 DEF R!Speak, Owner
<1>6. CASE c \notin cmgr.managed
  <2>1. session[c] = "fresh"
    BY <1>1, <1>6, Sessions
  <2>2. session' = [d \in Clients |-> IF d = c             THEN "bound"
                                      ELSE IF d = Owner[i] THEN "gone"
                                      ELSE session[d]]
    BY <1>1, <1>2, <1>3, <1>4, <1>6 DEF session
  <2>3. Owner' = [Owner EXCEPT ![i] = c]
    BY <1>2, <1>3, <1>6 DEF Owner, AllIds
  <2> QED
    BY <2>1, <2>2, <2>3 DEF R!Speak, Owner
<1> QED
  BY <1>5, <1>6

\* Rejecting c, whatever it did wrong, is c hanging up.
LEMMA RejectHangsUp ==
  ASSUME ServerInv, NEW c \in Clients, NEW i \in AllIds, Reject(c, i),
         mailbox' = mailbox
  PROVE  R!Hangup(c)
<1>1. /\ cmgr'.live = cmgr.live
      /\ cmgr'.managed = cmgr.managed
      /\ cmgr'.invalid = cmgr.invalid \cup {c}
      /\ c \in cmgr.live \ cmgr.invalid
  BY RejectEffect DEF ServerInv, Reject
<1>2. session[c] \in {"fresh", "bound"}
  BY <1>1, Sessions
<1>3. session' = [session EXCEPT ![c] = "gone"]
  BY <1>1 DEF session
<1>4. Owner' = [n \in Ids |-> IF Owner[n] = c THEN NULL ELSE Owner[n]]
  <2>1. cmgr'.client_array =
          [j \in AllIds |-> IF cmgr.client_array[j] = c THEN NULL ELSE cmgr.client_array[j]]
    BY RejectTable DEF ServerInv
  <2>2. \A n \in Ids : n \in AllIds
    BY DEF AllIds
  <2> QED
    BY <2>1, <2>2 DEF Owner
<1> QED
  BY <1>2, <1>3, <1>4 DEF R!Hangup, Owner

\* Handling an event.
LEMMA AcceptRefines ==
  ASSUME ServerInv, NEW e \in cev, accept_connection(e)
  PROVE  \/ \E c \in Clients : R!Accept(c)
         \/ UNCHANGED <<session, Owner, mailbox>>
<1>1. CASE UNCHANGED <<cmgr, queue>>
  BY <1>1, RelayStutters DEF accept_connection, peerVars, mailbox
<1>2. ASSUME NEW c \in Backlog,
             cmgr' = NewClient(cmgr, c),
             queue' = [queue EXCEPT ![c] = <<>>],
             UNCHANGED peerVars
      PROVE  R!Accept(c)
  <2>1. c \in Clients /\ c \notin cmgr.live /\ wire' = wire
    BY <1>2 DEF Backlog, peerVars
  <2>2. /\ cmgr'.live = cmgr.live \cup {c}
        /\ cmgr'.invalid = cmgr.invalid \ {c}
        /\ cmgr'.managed = cmgr.managed \ {c}
        /\ cmgr'.client_array = cmgr.client_array
    BY <1>2 DEF NewClient, ServerInv, CMInv, CMState
  <2>3. queue[c] = <<>>
    BY <2>1 DEF ServerInv, ClientInv, CMInv, Consistent
  <2>4. queue' = queue
    BY <1>2, <2>1, <2>3 DEF ServerInv, TypeOK
  <2>5. session[c] = "absent" /\ session' = [session EXCEPT ![c] = "fresh"]
    BY <2>1, <2>2 DEF session
  <2>6. Owner' = Owner /\ mailbox' = mailbox
    BY <2>1, <2>2, <2>4 DEF Owner, mailbox
  <2> QED
    BY <2>5, <2>6 DEF R!Accept, Owner
<1> QED
  BY <1>1, <1>2 DEF accept_connection, Backlog

LEMMA ReadRefines ==
  ASSUME ServerInv, NEW e \in cev
  PROVE  /\ ReadFails(e) => R!Hangup(e.ptr)
         /\ ReadHello(e) => \E i \in Ids : R!Bind(e.ptr, i)
<1> SUFFICES ASSUME e.ptr # NULL
             PROVE  /\ ReadFails(e) => R!Hangup(e.ptr)
                    /\ ReadHello(e) => \E i \in Ids : R!Bind(e.ptr, i)
  BY DEF ReadFails, ReadHello, Reads, ReadEvent, ForReading
<1>1. e.ptr \in Clients
  BY EventClient
<1>2. ReadFails(e) \/ ReadHello(e) => mailbox' = mailbox
  BY DEF ReadFails, ReadHello, Reads, mailbox
<1>3. ASSUME ReadFails(e) PROVE R!Hangup(e.ptr)
  BY <1>1, <1>2, <1>3, ReadMeetsContract, RejectHangsUp
<1>4. ASSUME ReadHello(e) PROVE \E i \in Ids : R!Bind(e.ptr, i)
  BY <1>1, <1>2, <1>4, ReadMeetsContract, AdmitSpeaks DEF R!Bind
<1> QED
  BY <1>3, <1>4

\* A packet read from c reaches the mailbox of the owner of its destination.
LEMMA DataRefines ==
  ASSUME ServerInv, NEW e \in cev, ReadData(e), CMInv(cmgr)'
  PROVE  \E p \in Relayed : R!Submit(e.ptr, p)
<1> DEFINE c == e.ptr
<1>1. c \in Clients /\ wire' = wire /\ read_packet(c) = "PACKET"
  BY EventClient DEF ReadData, Reads, ReadEvent, ForReading
<1>2. PICK p \in Relayed : p = Head(inbox[c])
  BY <1>1, IdentifiedAs DEF ServerInv
<1>3. p.src \in Ids /\ R!Speak(c, p.src)
  <2>1. PICK i \in Ids : i = p.src /\ Admit(c, i)
    BY <1>1, <1>2, ReadMeetsContract DEF Admit
  <2>2. R!Speak(c, i)
    BY <1>1, <2>1, AdmitSpeaks
  <2> QED
    BY <2>1, <2>2
<1> DEFINE d == cmgr'.client_array[p.dst]
<1>4. p.dst \in AllIds
  BY <1>2, TCPAssumption DEF Relayed, Packet
<1>5. d \in Clients \cup {NULL} /\ d = destination(p)
  BY <1>4 DEF CMInv, CMState, destination, find_client_by_id
<1>6. d = IF p.dst \in Ids THEN Owner'[p.dst] ELSE NULL
  <2>1. CASE p.dst \in Ids
    BY <2>1 DEF Owner
  <2>2. CASE p.dst \notin Ids
    BY <1>4, <2>2, SMTT(60) DEF AllIds, CMInv, Consistent
  <2> QED
    BY <2>1, <2>2
<1>7. send_data_to_client(p)
  BY <1>2 DEF ReadData, send_data_to_client, destination, find_client_by_id,
              queue_packet, register_write, modify
<1> HIDE DEF c, d
<1>8. \/ d # NULL /\ mailbox' = [mailbox EXCEPT ![d] = Append(@, p)]
      \/ (d = NULL \/ Len(mailbox[d]) >= WriteQueue) /\ mailbox' = mailbox
  <2>1. CASE d = NULL
    BY <1>1, <1>5, <1>7, <2>1 DEF send_data_to_client, mailbox
  <2>2. CASE d # NULL
    <3>1. /\ d \in Clients
          /\ queue' = [queue EXCEPT ![d] = IF Len(@) < WriteQueue THEN Append(@, p) ELSE @]
      BY <1>5, <1>7, <2>2 DEF send_data_to_client, queue_packet
    <3>2. /\ queue \in [Clients -> Seq(Relayed)]
          /\ wire[d] \in Seq(Relayed) /\ queue[d] \in Seq(Relayed)
          /\ WriteQueue \in Nat
      BY <3>1, TCPAssumption DEF ServerInv, TypeOK
    <3>3. CASE Len(queue[d]) < WriteQueue
      <4>1. queue' = [queue EXCEPT ![d] = Append(queue[d], p)]
        BY <3>1, <3>3
      <4>2. wire[d] \o Append(queue[d], p) = Append(wire[d] \o queue[d], p)
        <5>1. \A w, q \in Seq(Relayed), r \in Relayed :
                w \o Append(q, r) = Append(w \o q, r)
          BY Adding
        <5> QED
          BY <1>2, <3>2, <5>1, Zenon
      <4>3. mailbox' = [mailbox EXCEPT ![d] = Append(wire[d] \o queue[d], p)]
        BY <1>1, <3>1, <3>2, <4>1, <4>2 DEF mailbox
      <4> QED
        BY <2>2, <3>1, <4>3 DEF mailbox
    <3>4. CASE ~(Len(queue[d]) < WriteQueue)
      <4>1. queue' = queue
        BY <3>1, <3>2, <3>4
      <4>2. Len(mailbox[d]) >= WriteQueue
        <5>1. Len(mailbox[d]) = Len(wire[d]) + Len(queue[d])
          BY <3>1, <3>2, ConcatProperties DEF mailbox
        <5> DEFINE l == Len(mailbox[d])
                   w == Len(wire[d])
                   q == Len(queue[d])
        <5>2. w \in Nat /\ q \in Nat /\ l = w + q /\ ~(q < WriteQueue)
          BY <3>2, <3>4, <5>1, LenProperties
        <5> HIDE DEF l, w, q
        <5>3. l >= WriteQueue
          BY <3>2, <5>2
        <5> QED
          BY <5>3 DEF l
      <4> QED
        BY <1>1, <4>1, <4>2 DEF mailbox
    <3> QED
      BY <3>3, <3>4
  <2> QED
    BY <2>1, <2>2
<1>9. \E n \in Ids : (n # p.src => ~TRUE /\ session[c] = "bound") /\ R!Speak(c, n)
  BY <1>3, Zenon
<1>10. R!Submit(c, p)
  BY <1>6, <1>8, <1>9 DEF R!Submit, Owner
<1>11. R!Submit(e.ptr, p)
  BY <1>10 DEF c
<1> QED
  BY <1>11

\* write_data moves packets within the mailbox.
LEMMA WriteRefines ==
  ASSUME ServerInv, NEW e \in cev, WriteSome(e)
  PROVE  UNCHANGED <<session, Owner, mailbox>>
<1> DEFINE c == e.ptr
           room == SndBuf - Len(wire[c])
           n    == IF Len(queue[c]) <= room THEN Len(queue[c]) ELSE room
           w == wire[c] \o SubSeq(queue[c], 1, n)
           q == SubSeq(queue[c], n + 1, Len(queue[c]))
<1>1. /\ wire' = [wire EXCEPT ![c] = w]
      /\ queue' = [queue EXCEPT ![c] = q]
      /\ cmgr' = cmgr /\ c \in Clients
  BY EventClient DEF WriteSome, Writes, WriteEvent, ForWriting
<1>2. n \in 0 .. Len(queue[c])
  BY <1>1, Moved
<1>3. wire[c] \in Seq(Relayed) /\ queue[c] \in Seq(Relayed)
  BY <1>1 DEF ServerInv, TypeOK
<1> HIDE DEF n, c
<1>4. w \o q = wire[c] \o queue[c]
  BY <1>2, <1>3, Moving
<1> HIDE DEF w, q
<1>5. mailbox' = mailbox
  BY <1>1, <1>4 DEF mailbox, ServerInv, TypeOK
<1> QED
  BY <1>1, <1>5, RelayStutters

\* What the peers do: only what they read is seen by the relay.
LEMMA PeerRefines ==
  ASSUME ServerInv, NEW c \in Clients, Peer(c)
  PROVE  R!Receive(c) \/ UNCHANGED <<session, Owner, mailbox>>
<1>1. cmgr' = cmgr /\ queue' = queue
  BY DEF Peer, PeerConnect, PeerSend, PeerUrges, PeerRead, PeerClose, PeerReset, serverVars
<1>2. CASE PeerRead(c)
  <2>1. wire[c] # <<>> /\ wire' = [wire EXCEPT ![c] = Tail(@)]
    BY <1>2 DEF PeerRead
  <2>2. /\ wire[c] \in Seq(Relayed) /\ queue[c] \in Seq(Relayed)
        /\ c \in cmgr.managed /\ c \in cmgr.live
    BY <2>1 DEF ServerInv, TypeOK, ClientInv, CMInv, Consistent
  <2>3. session[c] \in {"bound", "gone"}
    BY <2>2, Sessions
  <2>4. mailbox[c] # <<>> /\ Tail(mailbox[c]) = Tail(wire[c]) \o queue[c]
    <3>1. \A w, q \in Seq(Relayed) :
            w # <<>> => w \o q # <<>> /\ Tail(w \o q) = Tail(w) \o q
      BY Taking
    <3>2. /\ wire[c] \o queue[c] # <<>>
          /\ Tail(wire[c] \o queue[c]) = Tail(wire[c]) \o queue[c]
      BY <2>1, <2>2, <3>1, Zenon
    <3> QED
      BY <3>2, Sessions
  <2>5. mailbox' = [mailbox EXCEPT ![c] = Tail(@)]
    BY <1>1, <2>1, <2>4 DEF mailbox, ServerInv, TypeOK
  <2>6. session' = session /\ Owner' = Owner
    BY <1>1 DEF session, Owner
  <2> QED
    BY <2>3, <2>4, <2>5, <2>6 DEF R!Receive, Owner
<1>3. CASE ~PeerRead(c)
  <2>1. wire' = wire
    BY <1>3 DEF Peer, PeerConnect, PeerSend, PeerUrges, PeerClose, PeerReset
  <2> QED
    BY <1>1, <2>1, RelayStutters DEF mailbox
<1> QED
  BY <1>2, <1>3

\* The freed Clients' connections are over; nobody else's is touched.
LEMMA EndRefines ==
  ASSUME ServerInv, EndOfBatch
  PROVE  \E S \in SUBSET Clients : R!Discard(S)
<1> DEFINE S == cmgr.invalid
<1>1. Listed(cmgr) = S /\ S \subseteq cmgr.live /\ S \subseteq Clients
  BY FreeInv DEF ServerInv, CMInv, CMState, ListedOnce
<1>2. /\ cmgr' = free_invalid_clients(cmgr)
      /\ queue' = [c \in Clients |-> IF c \in S THEN <<>> ELSE queue[c]]
      /\ wire' = [c \in Clients |-> IF c \in S THEN <<>> ELSE wire[c]]
  BY <1>1 DEF EndOfBatch
<1>3. /\ cmgr'.live = cmgr.live \ S
      /\ cmgr'.invalid = {}
      /\ cmgr'.managed = cmgr.managed \ S
      /\ cmgr'.client_array = cmgr.client_array
  BY <1>1, <1>2 DEF free_invalid_clients, ServerInv, CMInv, CMState
<1>4. \A c \in S : session[c] = "gone"
  BY <1>1, Sessions
<1>5. session' = [c \in Clients |-> IF c \in S THEN "absent" ELSE session[c]]
  BY <1>1, <1>3 DEF session
<1>6. <<>> \o <<>> = <<>>
  BY EmptySeq, ConcatEmptySeq
<1>7. mailbox' = [c \in Clients |-> IF c \in S THEN <<>> ELSE mailbox[c]]
  BY <1>2, <1>6 DEF mailbox
<1>8. Owner' = Owner
  BY <1>3 DEF Owner
<1>9. R!Discard(S)
  BY <1>4, <1>5, <1>7, <1>8 DEF R!Discard, Owner
<1> QED
  BY <1>1, <1>9

LEMMA StepRefines == ServerInv /\ CMInv(cmgr)' /\ [Next]_vars => [R!Next]_(R!relayVars)
<1> SUFFICES ASSUME ServerInv, CMInv(cmgr)', [Next]_vars
             PROVE  R!Next \/ UNCHANGED <<session, Owner, mailbox>>
  BY DEF R!relayVars, Owner
<1>1. ASSUME NEW e \in cev, HandleEvent(e)
      PROVE  R!Next \/ UNCHANGED <<session, Owner, mailbox>>
  <2>1. ReadFails(e) \/ ReadHello(e) \/ ReadData(e) \/ WriteFails(e) => e.ptr \in Clients
    BY EventClient DEF ReadFails, ReadHello, ReadData, WriteFails, Reads, Writes,
                       ReadEvent, ForReading, WriteEvent, ForWriting
  <2>2. CASE accept_connection(e)
    BY <2>2, AcceptRefines DEF R!Next
  <2>3. CASE \/ NeitherEvent(e) \/ StaleEvent(e) \/ ReadOverruns(e)
             \/ ReadPartial(e) \/ WriteNothing(e)
    <3>1. cmgr' = cmgr /\ queue' = queue /\ wire' = wire
      BY <2>3 DEF NeitherEvent, StaleEvent, ReadOverruns, ReadPartial, WriteNothing, Reads, peerVars
    <3> QED
      BY <3>1, RelayStutters DEF mailbox
  <2>4. CASE ReadFails(e) \/ ReadHello(e)
    BY <2>1, <2>4, ReadRefines DEF R!Next
  <2>5. CASE ReadData(e)
    BY <2>1, <2>5, DataRefines DEF R!Next
  <2>6. CASE WriteSome(e)
    BY <2>6, WriteRefines
  <2>7. CASE WriteFails(e)
    <3> DEFINE c == e.ptr
               i == cmgr.id[c]
    <3>1. c \in Clients /\ c \in cmgr.live \ cmgr.invalid
      BY <2>7, EventClient DEF WriteFails, Writes, WriteEvent, ForWriting
    <3>2. i \in AllIds /\ cmgr = SetId(cmgr, c, i)
      BY <3>1 DEF SetId, ServerInv, CMInv, CMState
    <3>3. Reject(c, i) /\ mailbox' = mailbox
      BY <2>7, <3>1, <3>2 DEF WriteFails, Reject, mailbox
    <3>4. R!Hangup(c)
      BY <3>1, <3>2, <3>3, RejectHangsUp
    <3> QED
      BY <3>1, <3>4 DEF R!Next
  <2> QED
    BY <1>1, <2>2, <2>3, <2>4, <2>5, <2>6, <2>7 DEF HandleEvent
<1>2. CASE PollWait
  <2>1. cmgr' = cmgr /\ queue' = queue /\ wire' = wire
    BY <1>2 DEF PollWait, peerVars
  <2> QED
    BY <2>1, RelayStutters DEF mailbox
<1>3. CASE EndOfBatch
  BY <1>3, EndRefines DEF R!Next
<1>4. ASSUME NEW c \in Clients, Peer(c)
      PROVE  R!Next \/ UNCHANGED <<session, Owner, mailbox>>
  BY <1>4, PeerRefines DEF R!Next
<1>5. CASE UNCHANGED vars
  <2>1. cmgr' = cmgr /\ queue' = queue /\ wire' = wire
    BY <1>5 DEF vars
  <2> QED
    BY <2>1, RelayStutters DEF mailbox
<1> QED
  BY <1>1, <1>2, <1>3, <1>4, <1>5 DEF Next, do_poll

\* The server implements the message relay: through any interleaving of its
\* batches with the peers, kicks, failures and reuse of addresses, a packet is
\* put once, in order and under its sender's own id, into the mailbox of
\* whoever owns the destination id when it is read, and is dropped only if
\* nobody does or the mailbox is full (TCPServer!RelaySpec).
THEOREM ImplementsRelay == Spec => RelaySpec
<1>1. Init => R!Init
  <2> SUFFICES ASSUME Init PROVE R!Init
    OBVIOUS
  <2>1. session = [c \in Clients |-> "absent"]
    BY DEF Init, CMInit, CMInitState, session
  <2>2. Owner = [n \in Ids |-> NULL]
    BY DEF Init, CMInit, CMInitState, Owner, AllIds
  <2>3. <<>> \o <<>> = <<>>
    BY EmptySeq, ConcatEmptySeq
  <2>4. mailbox = [c \in Clients |-> <<>>]
    BY <2>3 DEF Init, mailbox
  <2> QED
    BY <2>1, <2>2, <2>4 DEF R!Init, Owner
<1>2. ServerInv => CMInv(cmgr)
  BY DEF ServerInv
<1>3. ServerInv /\ ServerInv' /\ [Next]_vars => [R!Next]_(R!relayVars)
  BY <1>2, StepRefines DEF ServerInv
<1> QED
  BY <1>1, <1>3, Invariance, PTL DEF Spec, RelaySpec, R!Spec
=============================================================================
