------------------------------- MODULE V3Echo -------------------------------
(***************************************************************************)
(* The first generation: a small event library (v3/lib/networking) and on  *)
(* it a server that answers whatever it reads with one line (v3/src).      *)
(*                                                                         *)
(* Unlike its successors it keeps no objects: an event carries a           *)
(* descriptor, descriptors are reused as soon as they are closed, and they *)
(* are closed in the middle of a batch.  Nor does it queue: what a send    *)
(* does not take is dropped.                                               *)
(*                                                                         *)
(* One action is epoll_wait, or the handling of one event.  Some of the    *)
(* peers are the program v3/src/simpleclient.c, the others do as they      *)
(* please.  A unit of data is a line of a simpleclient, or as much of any  *)
(* other data as one can read.                                             *)
(***************************************************************************)
EXTENDS Naturals, Sequences

CONSTANTS SimpleClients,
          OtherPeers,
          Fds,           \* descriptors accept() may return; 0 is not among them
          NOBODY,        \* no peer
          Rounds,        \* lines a simpleclient sends (`count`)
          BufferSize,    \* units buffer_ holds
          UINT16,        \* units at which a length wraps
          RcvBuf,        \* units the kernel holds for the server
          SndBuf,        \* bytes the kernel holds for a peer
          ReplyLength,   \* bytes of the answer
          CallsMayFail   \* whether accept(), epoll_ctl() and fcntl() may fail

Peers == SimpleClients \cup OtherPeers

ASSUME V3Assumption ==
  /\ SimpleClients \cap OtherPeers = {}
  /\ NOBODY \notin Peers
  /\ 0 \notin Fds
  /\ Rounds \in Nat \ {0}
  /\ BufferSize \in Nat /\ UINT16 \in Nat \ {0}
  /\ RcvBuf \in Nat \ {0}
  /\ ReplyLength \in Nat \ {0}
  /\ SndBuf \in Nat /\ ReplyLength <= SndBuf
  /\ CallsMayFail \in BOOLEAN

VARIABLES backlog,  \* connections that wait for accept(), oldest first
          sock,     \* the peer at the other end of each descriptor
          _client,  \* MyServer::_client
          cev,      \* the events not yet handled
          stage,    \* "wait" or "dispatch"
          conn,     \* the peers' ends: "none", "open", "closed", "reset"
          inbox,    \* units not yet read by the server
          wire,     \* bytes not yet read by the peer
          step,     \* of a simpleclient: "connect", "write", "read", "killed"
          round     \* lines it has sent

serverVars == <<sock, _client, cev, stage>>
peerVars   == <<backlog, conn, inbox, wire, step, round>>
echoVars   == <<backlog, sock, _client, cev, stage, conn, inbox, wire, step, round>>

\* An event, with the peer that was at its descriptor when it was reported
\* (which the code does not know); NOBODY for the listening socket.
Event == [fd : Fds \cup {0}, of : Peers \cup {NOBODY}]

EchoTypeOK ==
  /\ backlog \in Seq(Peers)
  /\ sock \in [Fds -> Peers \cup {NOBODY}]
  /\ _client \in Fds \cup {0}
  /\ cev \subseteq Event
  /\ stage \in {"wait", "dispatch"}
  /\ conn \in [Peers -> {"none", "open", "closed", "reset"}]
  /\ inbox \in [Peers -> 0 .. RcvBuf]
  /\ wire \in [Peers -> 0 .. SndBuf]
  /\ step \in [SimpleClients -> {"connect", "write", "read", "killed"}]
  /\ round \in [SimpleClients -> 0 .. Rounds]

EchoInit ==
  /\ backlog = <<>>
  /\ sock = [f \in Fds |-> NOBODY]
  /\ _client = 0
  /\ cev = {}
  /\ stage = "wait"
  /\ conn = [p \in Peers |-> "none"]
  /\ inbox = [p \in Peers |-> 0]
  /\ wire = [p \in Peers |-> 0]
  /\ step = [p \in SimpleClients |-> "connect"]
  /\ round = [p \in SimpleClients |-> 0]

-----------------------------------------------------------------------------
(* The kernel. *)

Accepted(p) == \E f \in Fds : sock[f] = p
Readable(p) == inbox[p] > 0 \/ conn[p] \in {"closed", "reset"}

Ready ==
  {[fd |-> f, of |-> sock[f]] : f \in {g \in Fds : sock[g] # NOBODY /\ Readable(sock[g])}}
    \cup (IF backlog # <<>> THEN {[fd |-> 0, of |-> NOBODY]} ELSE {})

-----------------------------------------------------------------------------
(* The server.  An operator whose name starts with Faulty is the operation  *)
(* that follows it with a bug put in.                                       *)

PollWait ==
  /\ stage = "wait"
  /\ Ready # {}
  /\ cev' = Ready
  /\ stage' = "dispatch"
  /\ UNCHANGED <<sock, _client, peerVars>>

\* handle_event; epoll_wait follows the last one.
handle_event(e) ==
  /\ e \in cev
  /\ cev' = cev \ {e}
  /\ stage' = IF cev = {e} THEN "wait" ELSE "dispatch"

\* The connections of S are closed by the server: what was on its way is gone,
\* and a simpleclient that still wanted something dies.
Ended(S) ==
  /\ conn' = [p \in Peers |-> IF p \in S THEN "none" ELSE conn[p]]
  /\ inbox' = [p \in Peers |-> IF p \in S THEN 0 ELSE inbox[p]]
  /\ wire' = [p \in Peers |-> IF p \in S THEN 0 ELSE wire[p]]
  /\ step' = [p \in SimpleClients |-> IF p \in S /\ conn[p] = "open" THEN "killed"
                                                                     ELSE step[p]]
  /\ UNCHANGED round

\* The listening socket is readable: accept() takes the oldest connection, and
\* any free descriptor.
Accept(e) ==
  /\ handle_event(e)
  /\ e.fd = 0
  /\ \E f \in {g \in Fds : sock[g] = NOBODY} :
       sock' = [sock EXCEPT ![f] = Head(backlog)]
  /\ backlog' = Tail(backlog)
  /\ UNCHANGED <<_client, conn, inbox, wire, step, round>>

\* The oldest connection was aborted, or its descriptor cannot be set up and
\* is closed.
AcceptFails(e) ==
  /\ handle_event(e)
  /\ e.fd = 0
  /\ CallsMayFail
  /\ Ended({Head(backlog)})
  /\ backlog' = Tail(backlog)
  /\ UNCHANGED <<sock, _client>>

accept_connection(e) == Accept(e) \/ AcceptFails(e)

\* MyServer::on_disconnect closes the descriptor at once.
on_disconnect(f) ==
  /\ sock' = [sock EXCEPT ![f] = NOBODY]
  /\ Ended({sock[f]} \ {NOBODY})
  /\ UNCHANGED backlog

\* Fault: the buffer is given a round size, two times 64 KB.
FaultyMaxLen == (2 * UINT16) % UINT16

\* The length given to read(): buffer_.size() as a uint16_t.
MaxLen == BufferSize % UINT16

\* What read() returns for p; 0 stands for an error too.
BytesRead(p) == IF inbox[p] <= MaxLen THEN inbox[p] ELSE MaxLen

\* Fault: the first peer that ever wrote is answered.
FaultyAddressee(f) == IF _client = 0 THEN f ELSE _client

\* Whom send_reply_to_client is going to answer, after data came from f.
Addressee(f) == f

\* Fault: the socket was left blocking: send() waits until all is taken.
FaultySend(p) ==
  /\ wire[p] + ReplyLength <= SndBuf
  /\ wire' = [wire EXCEPT ![p] = @ + ReplyLength]

\* send() takes what there is room for; the rest of the reply is dropped.
Send(p) ==
  LET sum == wire[p] + ReplyLength
  IN  wire' = [wire EXCEPT ![p] = IF sum <= SndBuf THEN sum ELSE SndBuf]

\* handle_data_received: whatever came is answered with one line; send() fails
\* if the connection was reset, or there is none.
Answers(e) ==
  /\ handle_event(e)
  /\ e.fd # 0
  /\ BytesRead(sock[e.fd]) > 0
  /\ _client' = Addressee(e.fd)
  /\ LET p == sock[e.fd]
         q == sock[_client']
     IN  IF q = NOBODY \/ conn[q] = "reset"
           THEN on_disconnect(_client')
           ELSE /\ inbox' = [inbox EXCEPT ![p] = @ - BytesRead(p)]
                /\ Send(q)
                /\ UNCHANGED <<sock, backlog, conn, step, round>>

\* read() returns 0, also when it is asked for 0 bytes, or fails.
Disconnects(e) ==
  /\ handle_event(e)
  /\ e.fd # 0
  /\ BytesRead(sock[e.fd]) = 0
  /\ on_disconnect(e.fd)
  /\ UNCHANGED _client

on_data_received(e) == accept_connection(e) \/ Answers(e) \/ Disconnects(e)

loop == PollWait \/ \E e \in cev : on_data_received(e)

-----------------------------------------------------------------------------
(* The peers. *)

Connects(p) ==
  /\ conn[p] = "none"
  /\ conn' = [conn EXCEPT ![p] = "open"]
  /\ backlog' = Append(backlog, p)

\* simpleclient: connect(), then for each round write() and read().
SimpleConnect(p) ==
  /\ step[p] = "connect"
  /\ Connects(p)
  /\ step' = [step EXCEPT ![p] = "write"]
  /\ UNCHANGED <<serverVars, inbox, wire, round>>

SimpleWrite(p) ==
  /\ step[p] = "write"
  /\ inbox[p] < RcvBuf
  /\ inbox' = [inbox EXCEPT ![p] = @ + 1]
  /\ step' = [step EXCEPT ![p] = "read"]
  /\ round' = [round EXCEPT ![p] = @ + 1]
  /\ UNCHANGED <<serverVars, backlog, conn, wire>>

\* The last read() is followed by close(); the program may be run again.
SimpleRead(p) ==
  LET last == round[p] = Rounds
  IN  /\ step[p] = "read"
      /\ wire[p] > 0
      /\ wire' = [wire EXCEPT ![p] = 0]
      /\ step' = [step EXCEPT ![p] = IF last THEN "connect" ELSE "write"]
      /\ round' = [round EXCEPT ![p] = IF last THEN 0 ELSE @]
      /\ conn' = [conn EXCEPT ![p] = IF last THEN "closed" ELSE @]
      /\ UNCHANGED <<serverVars, backlog, inbox>>

simpleclient(p) == SimpleConnect(p) \/ SimpleWrite(p) \/ SimpleRead(p)

\* Any other peer, which may write much, and read little or nothing.
OtherConnect(p) == Connects(p) /\ UNCHANGED <<serverVars, inbox, wire, step, round>>

OtherWrite(p) ==
  /\ conn[p] = "open"
  /\ inbox[p] < RcvBuf
  /\ inbox' = [inbox EXCEPT ![p] = @ + 1]
  /\ UNCHANGED <<serverVars, backlog, conn, wire, step, round>>

OtherRead(p) ==
  /\ conn[p] = "open"
  /\ \E n \in 1 .. wire[p] : wire' = [wire EXCEPT ![p] = @ - n]
  /\ UNCHANGED <<serverVars, backlog, conn, inbox, step, round>>

\* It closes, or the connection is reset, also by what arrives after a close.
OtherGoes(p) ==
  /\ \/ conn[p] = "open" /\ conn' = [conn EXCEPT ![p] = "closed"]
     \/ conn[p] \in {"open", "closed"} /\ conn' = [conn EXCEPT ![p] = "reset"]
  /\ UNCHANGED <<serverVars, backlog, inbox, wire, step, round>>

OtherPeer(p) == OtherConnect(p) \/ OtherWrite(p) \/ OtherRead(p) \/ OtherGoes(p)

EchoNext ==
  \/ loop
  \/ \E p \in SimpleClients : simpleclient(p)
  \/ \E p \in OtherPeers : OtherPeer(p)

EchoSpec == EchoInit /\ [][EchoNext]_echoVars

\* The server runs, and a simpleclient that has been started.
EchoLiveSpec ==
  /\ EchoSpec
  /\ WF_echoVars(loop)
  /\ \A p \in SimpleClients : WF_echoVars(SimpleWrite(p) \/ SimpleRead(p))

-----------------------------------------------------------------------------
(* Properties. *)

\* An event that is still in the batch names a descriptor at which the peer is
\* that it was reported for: although descriptors are closed, and given to the
\* next connection, in the middle of a batch, no event is handled for another
\* connection, nor for none.
EventsAreFresh ==
  \A e \in cev : IF e.fd = 0 THEN backlog # <<>>
                             ELSE e.of # NOBODY /\ sock[e.fd] = e.of

\* The type invariant, and the freshness of events, which it takes for the
\* handlers to make sense.
EchoInv == EchoTypeOK /\ EventsAreFresh

\* A simpleclient that waits for an answer is going to get one, whole, and only
\* one, whoever else is connected: its line is still to be read, or one reply is
\* on its way (tcp_server.cpp drops what a full socket does not take).
OneWholeReply ==
  \A p \in SimpleClients :
    /\ step[p] = "write" => inbox[p] = 0 /\ wire[p] = 0
    /\ step[p] = "read" => \/ inbox[p] = 1 /\ wire[p] = 0
                           \/ inbox[p] = 0 /\ wire[p] = ReplyLength

\* Every simpleclient is accepted (or refused, if a call fails), and one that is
\* accepted has all its lines answered, although other peers write without
\* pause, never read what they are sent, or vanish.
EveryoneServed ==
  \A p \in SimpleClients :
    /\ step[p] \in {"write", "read"} ~> Accepted(p) \/ step[p] = "killed"
    /\ Accepted(p) /\ step[p] # "connect" ~> step[p] = "connect"
=============================================================================
