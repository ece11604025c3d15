# TLA+ model of will-epoll

`will-epoll` is a message relay over TCP built on `epoll`.  A peer connects,
names itself with a 16-bit id (in a HELLO packet, or by the source of its first
DATA packet), and from then on a DATA packet addressed to an id is queued for
the connection that holds that id.  A connection that names itself with an id
somebody already holds *takes it over*: the previous holder is kicked.

The repository keeps four generations of the program.  `src/v6` is the newest
(C++, server and client library); `src/v5` is the same server before the class
`Event` was split off; `src/v4` is the C program they were rewritten from;
`src/v3` is an older prototype, an echo server over a small library.  Most
modules are translated from **v6**; `V5Server` is translated from v5, `V4Reader` and
`V4Server` from v4, `V3Echo` from v3.

- [1. Inventory](#1-inventory)
- [2. Modules](#2-modules)
- [3. Abstractions](#3-abstractions)
- [4. Runs](#4-runs)
- [5. Fairness and liveness](#5-fairness-and-liveness)
- [6. Divergences](#6-divergences)
- [7. Proofs](#7-proofs)
- [8. Faulty variants](#8-faulty-variants)
- [9. Plan](#9-plan)

## 1. Inventory

Everything runs in one thread; the concurrency is between that thread, the
kernel's event batches, and the peers.

### ClientMgr (`v6/cmgr.cpp`, `v6/cmgr.hpp`) — modelled

*State*: `client_array`, a table of `Client*` indexed by id, and
`invalid_client_list`.  In each `Client`: `id`, `invalid`, `managed`.

*Operations*: `manage` (enter a Client in the table, kick the previous holder
of its id), `mark_client_as_invalid` (leave the table, go on the list),
`free_invalid_clients` (delete what is on the list), `find_client_by_id`, the
destructor.

*Hard*: it keeps raw pointers in two containers and in the kernel.  A Client may
be invalidated by the handling of *another* Client's event; it may fail under
an id it claimed but never owned; addresses and descriptors are reused as soon
as it is freed.

*Correct when*: the table points only to valid Clients, each under its own id;
no Client is deleted twice, none is lost; a Client leaves the table only on its
way to be freed; a newcomer that is rejected leaves the table alone.

### TCPServer with MyServer's callbacks (`v6/tcp_server.cpp`, `v6/event.cpp`, `v6/my_server.cpp`) — modelled

*State*: the epoll registration of every descriptor, `Client::write_registered`,
the array of events being worked through.

*Operations*: `accept_connection`, `handle_read_event`, `handle_write_event`,
`send_data_to_client` (from the callback `on_data_received`), `register_write`
and `unregister_write`, the end of an iteration of `do_poll`.

*Interacts* with `ClientMgr` and `Client` by calls, with the kernel through
epoll, and with the peers through socket buffers.

*Hard*: an event in the array is a pointer taken before the handlers ran; a
flag shadows the kernel's registration; relaying queues data on a Client that
is not the one whose event is handled; one event serves either the read or the
write side; the array holds a bounded number of events.

*Correct when*: no event of a batch points to a freed Client; what is queued is
always behind a write registration the kernel knows about; a packet reaches the
holder of the destination id at that moment, once, in order, under the sender's
own id, and is dropped only if there is no holder or its buffer is full; waiting
connections are accepted, ended ones are freed, queued data is written.

### Client I/O and packets (`v6/client.cpp`, `v6/packet.cpp`, `v6/packet.h`) — modelled, byte by byte

*State*: `read_buffer` with `read_offset`, `write_buffer` with `write_pending`.

*Operations*: `read_packet` (header, body, validation), `queue_packet`,
`write_data`, `serialize`.

*Hard*: header and body arrive in any number of pieces, a write takes any number
of bytes, the queue is bounded, and `validate_packet` changes `Client::id`
before it is done rejecting a packet; lengths are unsigned, and a length field that is
less than the header passes every test.

*Correct when*: however a stream is cut, the packets read are the packets sent
and none of the assertions on the offsets can fail (a length below the header's breaks
more than they notice: 6); what a peer receives is the
serialisation of what was queued; no complete packet is left waiting in the
buffer.

### TCPClient with MyClient's callbacks (`v6/tcp_client.cpp`, `v6/my_client.cpp`) — modelled

*State*: DISCONNECTED / CONNECTING / CONNECTED, `me`, `server_fd`, the loop
timeout.  *Operations*: `connect_to_server`, `handle_initial_state`,
`send_data_to_server`, `disconnect`, the reconnect at the end of the loop.
*Hard*: an asynchronous `connect()`, callbacks that may send at any time,
reconnects driven by a timeout, a pointer that is deleted on every path.
*Correct when*: after every failure the client ends up connected again or
trying; nothing is sent before the handshake; `me` is deleted exactly once.

### Process life cycle (`v6/my_server.cpp`, `do_poll`'s timeout) — modelled but for option parsing

*State*: `quit`, set by SIGINT; `timeout`, carried from one iteration to the next.
*Operations*: the test of `quit`, `epoll_wait`, the reworking of the timeout,
`house_keeping`.  *Hard*: time is kept in whole seconds, by two readings of a clock
per iteration; the signal may arrive between the test and the sleep.
*Correct when*: `epoll_wait` never sleeps for ever, `house_keeping` comes about
when it is due, and a signal is heeded after one more sleep at most.

### v4 server (`v4/event.c`, `v4/client.c`, `v4/main.c`) — modelled

Same protocol, different reader: one buffer takes several packets in a `read`
and keeps the rest, so one event relays several packets, and may name its sender
and kick somebody before it does.  *State*: as in v6, but the table and the list
are globals of `client.c`.  *Hard*: the framing arithmetic with its assertions, a
table anybody may write to, a source id that is looked at once only, and packets
that `process_packets` can neither relay nor report, which stay in the buffer.
*Correct when*: as for v6, except that a connection may send under any id; the
process ends (an assertion fails) when a client that left such a packet behind is
read from again.

### v3 (`v3/lib/networking`, `v3/src`) — modelled but for code nothing calls

An echo server over a library with its own event loop.  *State*: none but the
descriptors; `_client`, whom to answer.  *Hard*: descriptors are closed, and handed
out again, while a batch that may name them is worked through; the answer is
sent at once and what does not fit is dropped; a length is cut to 16 bits.
*Correct when*: no event is handled for another connection than its own, each
client gets one answer per line, and none can stop the service for the others.

### v5 server (`v5/tcp_server.cpp`, `v5/client.cpp`, `v5/cmgr.cpp`, `v5/server.cpp`) — modelled

The server of v6 before `Event` was split off.  *State*, *operations*: those of
TCPServer, ClientMgr and Client I/O together.  *Hard*: what each of those leaves to the
others: the packets of several senders, cut anywhere, meet in the write buffer of one
receiver, which is drained in pieces, and which may lose its id in the middle of a
packet; what is in a buffer when a Client is freed must not be there when the next
one is allocated at its address.  *Correct when*: what is on its way to a peer is
whole packets addressed to it, no assertion on the offsets can fail, and the bytes
implement the relay.

### Not modelled

`log.cpp` (output only), option parsing, the test clients (`simpleclient.c`:
they drive the servers; v3's is a peer in `V3Echo`), the generated coverage reports, the build files.

## 2. Modules

```
                       Relay                        PacketPipe
                  ^      ^      ^                     ^       ^
        RelaySpec |      |      | RelaySpec  PipeSpec |       | PipeSpec
                  |      |      |                     |       |
     TCPServer ---+  V5Server  V4Server           ClientIO  V4Reader
         |  \       /   |       /
         |   \ CMSpec   |  CMSpec               TCPClient  PollLoop  V3Echo
         |    v   v     |   v
         +---> ClientMgr <--+      (TCPServer and V5Server EXTEND ClientMgr)
```

An arrow with a name is a refinement that is checked and proved: the module at its
foot implements the specification at its head.  For each module `X` with a `.cfg`,
`MCX` instantiates it for TLC.  The abstract specifications are `Relay` (what
peers may rely on), `PacketPipe` (what a byte stream with framing at its two
ends is) and `ClientMgr!CMSpec` (what the owner of the Clients may be asked for).

**`ClientMgr`** is the component as one record variable `cmgr`, with one operator
per method, from state to state, so that a handler that calls several of them
composes the operators in the order of the calls.

| model | code |
|---|---|
| `cmgr.live` | the Clients allocated and not yet deleted |
| `cmgr.id`, `.invalid`, `.managed` | the fields of `Client` of these names |
| `cmgr.client_array` | `ClientMgr::client_array` |
| `cmgr.listed[c]` | how often `c` is on `invalid_client_list` |
| `NewClient`, `SetId` | `Client`'s constructor; `validate_packet`'s assignment to `id` |
| `mark_client_as_invalid`, `manage`, `free_invalid_clients`, `find_client_by_id` | the methods |
| `DestructorDeletes` | what `~ClientMgr` would delete, counted |

`CMSpec` is its *contract*: the component driven by an environment that does
`Connect`, `Admit`, `Reject` and `Reap` in any order, with only these
restrictions: a Client is admitted or rejected only while it is valid, and only
under the id it has.  `TCPServer` is shown to stay within it (the property
`CMSpec` of `server_protocol`, the theorem `MeetsContract`), which is why what is
proved about the component alone carries over.  The component has no run of its
own: what it promises is proved for every driver that keeps to the contract, and
checked in `v5_server`, where the driver is the code.

**`TCPServer`** is the event loop.  An action is the handling of one event, or one
of the two ends of a batch; peers act between any two of them.

| model | code |
|---|---|
| `pc`, `cev` | where `do_poll` is (or how it ended: `"aborted"`, `"undefined"`); the entries of `cev[]` still to be handled |
| `swallows` | the Clients whose `read_buffer` begins with a header whose length is too short |
| `epoll[c]` | the kernel's registration of c's descriptor; `{}` if there is none |
| `write_registered`, `queue[c]` | the fields `write_registered` and `write_buffer` (as packets) |
| `inbox[c]`, `wire[c]`, `peer[c]`, `urgent` | the kernel's two buffers of a connection, its other end, and whether it holds urgent data |
| `PollWait` | `epoll_wait` |
| `accept_connection` | the method, with `on_connect` and `register_read` |
| `StaleEvent` | the early return of either handler for an invalid Client |
| `ReadPartial`, `ReadFails`, `ReadHello`, `ReadData` | `handle_read_event`, by what `read_packet` returned |
| `ReadOverruns` | a `read` that goes past the end of `read_buffer` |
| `WriteNothing`, `WriteSome`, `WriteFails` | `handle_write_event`, by what is pending and what `write` returned |
| `NeitherEvent` | the third branch of `handle_event`, an assertion |
| `EndOfBatch` | `free_invalid_clients`, with `~Client` closing the sockets |
| `PeerConnect/Send/Urges/Read/Close/Reset` | the environment |

`read_packet` is the operator `verdict` (what comes back for a packet, in the
order of the code's tests) together with `identify` (what happened to the id,
also when the packet is then rejected).  What `ClientIO` says of `read_packet` and
`write_data` byte by byte appears here packet by packet.  Behind a `SHORT` header, whose
length is less than its own, the code asks `read` for some 4 GB of body and so takes
whatever arrives (`Swallowed`): it returns EAGAIN until `read_buffer` is full, and then what
happens is undefined.  How many chunks fit is not said, so either may come at any of them.

**`Relay`** is the abstract specification: connections, names and mailboxes, no
sockets, events or loops.  It says what clients of the relay may rely on.
`TCPServer!RelaySpec` instantiates it under the mapping *session* = the state of
the Client object, *owner* = `client_array`, *mailbox* = what lies in the
kernel's buffer followed by what lies in `write_buffer`.

It speaks of a packet from the moment at which the server accepts it, so of the
order of packets in a mailbox; which of two peers is read first is the kernel's
choice.

Its constant `Verified` says whether a bound connection has to send under its own
name (v5, v6) or not (v4).  Either way it cannot take a name but with its first packet.

**`ByteStream`** is what the byte-level modules `ClientIO`, `V5Server` and `V4Reader`
share: a byte is *which packet it belongs to and its place in it*, so that a
misplaced byte is a different one; and `PacketsIn(s)`, the packets whose last byte is in
a stream, which their refinement mappings are made of.

**`V5Server`** is v5's server byte by byte and with several connections at once: where
`TCPServer` has packets and `ClientIO` one connection, it has the bytes of everybody.

| model | code |
|---|---|
| `read_buffer[c]`, `write_buffer[c]` | the first `read_offset` and `write_pending` bytes of the fields |
| `Arrived`, `Wanted`, `Filled`, `GotNothing` | what `read_n_bytes` could take, what `read_header` and `read_body` ask it for, what is then in the buffer, and whether the last call got nothing |
| `read_packet`, `validate_packet`, `Identified` | the methods' results, and the id that was set on the way |
| `BodyEnd`, `Overrun` | where `read_body` expects the end of a packet, which is far behind it if the length is too short; `read` went past the end of `read_buffer` |
| `Queued` | `queue_packet`: appended whole, or dropped |
| `ReadPartial`, `ReadHello`, `ReadData`, `ReadFails` | `handle_read_event`, by what `read_packet` returned |
| `WriteNothing`, `WriteSome`, `WriteFails` | `handle_write_event`, with `write_data` |
| `Reset`, `EndOfBatch` | the constructor, for the next Client at the address; the destructors |
| `sent[c]` | what the peer has still to write of the packet it has begun |

Its `RelaySpec` maps a byte stream to a mailbox: a message is there when its last byte
is.  A queue of bytes may refuse a long packet and take a short one later; the relay's
`Limit` is the number of longest packets that fit.

**`ClientIO`** is one end of a connection writing and the other reading, byte by
byte.

| model | code |
|---|---|
| `write_buffer`, `write_pending` | the fields; `queue_packet` appends, `write_data` moves |
| `channel` | the two kernel buffers between the ends |
| `read_buffer`, `read_offset` | the fields; `reset_read_buffer` |
| `ReadPart`, `ReadHeader`, `ReadBody`, `EmptyBody`, `ReadNothing` | `read_packet`, by what `read_n_bytes` returned and where it was |
| `Missing`, `Minus` | `remaining`, a difference of two `uint32_t` |
| `Overrun` | `read` went past the end of `read_buffer`: the reader takes no more steps |
| `WriteSome`, `WriteBlocks`, `WriteFails` | the turns of the loop in `write_data` |
| `validate_packet`, `Identity` | the tests and the assignment to `id` |

**`PacketPipe`** is its abstract specification, and v4's: packets go in, the first
of those on their way comes out, whole and once, and when the connection ends
only the last of them are lost.  An *endless* packet (v6: one whose length is too short)
never comes out, nor does what is behind it.

**`TCPClient`** is the client program: `state`, `me`, the one registered descriptor,
and `do_poll` with its reconnect.  Outside it are the answer to `connect()`, a
server that starts, stops, kicks, resets and sends nonsense.

| model | code |
|---|---|
| `state`, `me`, `write_registered`, `queue` | the fields |
| `epoll` | the registration, with the pointer it was made with |
| `initialize`, `ConnectStarts`, `ConnectFails` | `initialize`, `connect_to_server` |
| `handle_initial_state`, `Handshake` | the methods, with `on_auth`'s HELLO |
| `disconnect`, `ReadFails`, `WriteFails` | the ways to lose the connection |
| `Expired` | the end of the timeout: `house_keeping`, then the retry |

**`PollLoop`** is the skeleton of `do_poll` in time: a second has `TICKS` ticks, the
clock may tick between any two instructions, and `SIGINT` may come at any moment.

**`V4Reader`** is `read_packets` and `process_packets` with the assertions in them.
**`V4Server`** is v4's loop, table, list and handlers.  Its handler for a read is
several steps (`ReadPackets`, then one `ProcessPacket` per packet), and peers act
between them.  `ProcessStops` is the loop's other ends: a packet that is too long
behind a complete one, or one without a source; its client is then `stuck`, and
`ReadAborts`, the failing assertion, is what its next read event comes to.

**`V3Echo`** is v3: `PollWait`, `Accept`, `AcceptFails`, `Answers`, `Disconnects`, with
the repository's own `simpleclient` as some of the peers and arbitrary peers
beside it.

The theorems are in modules of their own, `XProofs` for the component `X`, which
EXTEND it:

```
     QueueLemmas  (EXTENDS ByteStream)                    ClientMgrProofs
        ^     ^       ^         ^        ^       ^          ^         ^
        |     |       |         |        |       |          |         |
  ClientIO- TCPClient- Loop- V4Server-   |       +-- V5ServerProofs   |
  Proofs    Proofs   Proofs  Proofs      +----------------- TCPServerProofs
```

**`QueueLemmas`** is what they share: what moving packets from one queue to the next
does, what it means for bytes to be *in their places*, and which packets a stream of
bytes has (7).  **`LoopProofs`** is about the three loops that are modelled by
themselves, `PollLoop`, `V3Echo` and `V4Reader`, which share no name.

### The properties

| property | says |
|---|---|
| `TableConsistent` | `client_array[i]` is c exactly when c is managed, valid and called i |
| `NoDoubleFree` | no Client is on the list twice, or in the table and on the list |
| `EvictedIsDoomed` | whoever loses its table entry is being freed: none is leaked |
| `RejectedIsHarmless` | a Client that was never managed cannot change the table by failing |
| `NoDanglingEvent` | every event left in a batch points to a Client that is allocated and the one it was reported for |
| `MuteBehindShort` | behind a length below the header's a peer is mute: it gets no name by what it sends, and nothing is relayed under the one it has |
| `NoLostWakeup` | for a valid Client the flag equals the kernel's registration, and pending data implies it |
| `OrphanIsInert` | a Client whose registration failed never joins the relaying |
| `RoutedToOwner` | everything buffered for a connection is addressed to its id |
| `RelaySpec` | the server implements `Relay` (v6 by packets, v5 by bytes, v4 with any source) |
| `CMSpec` | the server drives `ClientMgr` within its contract (v6, v5), or uses its table and list as `ClientMgr` would (v4) |
| `WholePackets` | v5: what is on its way to a peer is whole packets, each addressed to its id, however they were cut or refused |
| `V5Server!Inv` | no event points to a freed Client, and `read_buffer` holds the proper beginning of one acceptable packet: the assertions of `v5/client.cpp` (`AssertionsHold`); it overflows only behind a length below the header's |
| `EveryoneAccepted`, `EveryoneReclaimed`, `FlushedOnceSilent` | liveness, see 5 |
| `CalledBackToWrite`, `PreviousConsumed` | what the code says of itself, refuted (6) |
| `Framed`, `ClientIO!Inv` | what is on its way is the packets sent, cut anywhere; no assertion of `client.cpp` can fail, and no `read` is asked for more than there is room for but behind a length below the header's (`AssertionsHold`) |
| `PipeSpec` | `ClientIO` and `V4Reader` implement `PacketPipe` |
| `KeepsReading` | a packet that has arrived is handed over without the next having to arrive |
| `ReaderInv` | v4's assertions hold and it never reads into a full buffer, which would look like the end of the connection (`ReadsSensibly`) |
| `NoFailure` | no event of the client finds a deleted or missing `me`, and nothing makes it crash but a first attempt that is refused with `me` unset |
| `TCPClient!Inv` | its state, pointer, registration and flag tell the same story (`StoriesAgree`) |
| `HelloFirst` | the server learns a client's name before anything else, on every connection |
| `RetriesOnceSet`, `EndsUpKnown` | liveness, see 5 |
| `NotTooEarly`, `PollLoop!Inv` | rounding makes `house_keeping` less than a second early, and less than a second of sleep late (`NotTooLate`); `epoll_wait` is never given a timeout of zero or less |
| `OneMoreSleep`, `HouseKeepingRecurs` | a signal is heeded after one more sleep at most; liveness, see 5 |
| `V4Server!Inv` | no event, and no turn of `process_packets`, has a freed or an invalid client |
| `EchoInv` | every event left in a batch is for the connection that is now at its descriptor (`EventsAreFresh`) |
| `OneWholeReply` | a simpleclient that waits has its line unread or exactly one whole reply on its way |
| `EveryoneServed` | liveness, see 5 |

`OrphanIsInert` states what is true of a real gap: `accept_connection` ignores a
failed `register_read`, and such a Client is never freed.  The property shows
that the damage is confined to it.  It is also why no registration is ever
modified that does not exist.

## 3. Abstractions

`TCPServer` and, where they are alike, `V4Server`:

- **Packets, not bytes.**  A *chunk* is what one call of `read_packet` takes: a
  complete packet, the header of one that is too long (`LARGE`) or too short (`SHORT`,
  `TCPServer` only), or bytes that do not complete one (`PART`).  Of a packet only the kind and the two ids remain.
- **Write sizes.**  `write_data` is one step and moves as many packets as the
  kernel's buffer has room for.  Partial packets, `memmove` and offsets are
  `ClientIO`'s.
- **Addresses.**  c is at once a connection, its descriptor and the address of its
  Client.  They are allocated and released together, and all three are reused;
  the model reuses them as soon as the code allows it.
- **Peers act between events**, not inside a handler.  What a handler sees of the
  outside is the result of one `read`, one `write` or one `accept`.
- **`epoll_wait`** returns any set of ready descriptors of the array's size, or all
  of them.  A timeout or EINTR changes nothing the model has: at that point there
  are no invalid Clients to free.  `EPOLLERR`, `EPOLLHUP` and `EPOLLRDHUP` are
  reported as `IN`, as `handle_event` treats them.  `EPOLLPRI`, for which every
  descriptor is registered, is reported in `TCPServer` as `PRI`: a byte of urgent data
  makes a socket `PRI` and not `IN`, until a read goes past its mark; what that read
  returns is not affected by it.  `UrgentData` says whether peers send any.
- **The end of the process.**  A failed assertion, or a `read` past the end of a buffer,
  ends the model (`pc` is `"aborted"` or `"undefined"`): nothing is said of what follows.
- **The order of events in the array** is arbitrary, and so is the order in which
  `accept` takes connections.
- **Freed memory.**  The fields of a freed Client are reset, so that states which
  differ only in garbage are equal.  No operation reads them: that is
  `NoDanglingEvent`.
- **Closing** a socket discards what the peer has not read.  (The kernel may still
  deliver it; then the peer sees a longer prefix of the same sequence.)
- **Callbacks** are those of `MyServer`: all but `on_data_received` only print.
- **Failures of calls** (`accept`, `EPOLL_CTL_ADD`) are allowed where
  `CallsMayFail` is TRUE.

The others:

- `ClientIO` and `V5Server`: a byte is the packet it belongs to and its place in it; the
  byte order and the values of bytes are left out.  A packet has a `length`, its bytes, and
  what its header `says`; the two differ only if that is less than the header, when the
  packet is the header alone.  Differences of lengths wrap at `UINT32`, which is larger
  than the buffers together, as 2^32 is; sums (in `queue_packet`) do not, for the same reason.
  When `read` has put bytes behind the end of a buffer the model stops.
- `ClientIO` has one connection, in one direction.
- `TCPClient` abstracts the stream to chunks as `TCPServer` does, and has `write` and
  `read` move packets.  The pointer `me` starts with any value, as the constructor
  leaves it; deleting it then is undefined, and taken to end the process.  Servers that send
  urgent data or lengths below the header's are not modelled.  A second `close` of a descriptor has no effect: nothing
  opens one in between.
- `PollLoop` says nothing of events: `epoll_wait` may return at any time.  The flag `quit`
  starts with either value, as the constructor leaves it.  A reading of
  the clock is one step with the one that uses it.
- `V4Server`: a read brings whole packets or none, and of a packet that is too long at
  least the header; splits are `V4Reader`'s.  A packet of an unknown type does what a
  HELLO does (`v4/main.c:41`).  Lengths smaller than the header and urgent data are not
  modelled, here and in `V4Reader`.  When
  an assertion has failed the model stops, peers included.  What peers send to an
  invalid client, which is never read, is left out.
- `V5Server`: a peer takes a packet from its socket once it is complete.  No peer sends
  urgent data: what v5 does with it is what v6 does (`v5/tcp_server.cpp:286`).
- `V3Echo`: a unit of what a peer sends is a line of the `simpleclient`, which
  reads what it gets in one `read`, as its code supposes.  A descriptor table that
  is full is not modelled (there are as many descriptors as peers), and what
  `accept` fails on is gone.

## 4. Runs

| run | instance | question | states |
|---|---|---|---|
| `server_protocol` | 2 connections, 2 ids, a bad type, lengths below the header's, urgent data, failing calls | peers that break the protocol: memory safety and the contract up to an abort or an overrun; is a peer with such a length mute? | 2.0 M |
| `server_takeover` | 3 connections, 2 ids, arrays of 2 events, `WriteQueue` 2 | two connections compete for an id while a third writes to it; the relay | 0.45 M |
| `server_live` | 2 connections, 1 id, also bad types, cut-off and too long packets | liveness | 0.12 M |
| `server_starved` | 1 connection, 1 id | is a connected peer that reads always written to? **No** | — |
| `client_io` | packets of every kind, lengths around the limit and one below the header's | the byte streams are a pipe of packets, and the assertions hold | 0.41 M |
| `client` | one client, one server, `connect()` and `epoll_ctl()` failing, `me` unset or NULL | the client's states, its HELLO and its reconnecting | 5,571 |
| `poll_loop` | 2 ticks a second, timeouts of 2 and 3 seconds, `quit` unset | how early, how late, how deaf | 36,762 |
| `v4_reader` | packets of 4 lengths, a buffer of 4 and a limit of 6 bytes | v4's reader is the same pipe | 58,875 |
| `v4_reader_nameless` | as before, with packets without a source | does its assertion hold? **No** | — |
| `v4_server` | 2 clients, 2 ids, foreign sources, packets too long, failing calls | v4 keeps ClientMgr's contract and implements the relay | 2.7 M |
| `v5_server` | 2 connections, 2 ids, packets of a header of 1 byte and up to 2, one too long, one whose length is below the header's, failing calls | v5's bytes: the buffers, the table, the relay | 0.9 M |
| `v3_echo` | 2 simpleclients, 1 other peer, 3 descriptors, failing calls | v3 answers everybody, and the right one | 0.4 M |

*Bounds.*  Every hazard involves at most a sender, an owner of an id and a
challenger, hence three connections in `server_takeover`; with two, a Client can
compete for an id with the one that sends.  Two ids give a right and a wrong
destination.  With three connections and the listening socket, `MAX_EVENTS` 2 makes
batches that leave somebody out; with two connections at most two
descriptors are ready at once (a connection in the backlog has no Client yet),
so there the array holds every event.  `RcvBuf` 1 suffices because the server takes
one chunk per event and a peer may send between any two events; v4 takes
several, so it is 2 in `v4_server`; `SndBuf` 1 and `WriteQueue` 1 or 2 make full kernel
buffers and full queues ordinary.  The queue of the code holds 5 MB, or at least
fifty packets; nothing depends on the number.

In `v5_server` a packet is a header of one byte or that and a byte of body, so it can be
cut in the middle; the read side gets one byte at a time (`RcvBuf` 1), so every
cut happens; the write buffer holds two bytes, so that a short packet fits where a
long one is refused, and the kernel's buffer two more, so writes are partial.  Two connections send to one id, one of them perhaps its holder.
`v4_server` has three packets: a HELLO, data that is relayed under another's id as soon as
its sender is bound, and one that is too long; a packet without a source, which has
the same effect as that, is left to `v4_reader_nameless`.

In the runs with lengths below the header's, `UINT32` is 16 (`client_io`) and 8 (`v5_server`):
powers of two beyond which no buffer reaches, so that a difference that wraps is,
as with 2^32, more than any `read` can deliver, and every such reader either waits or
overruns.

`client_io` and `v4_reader` have lengths below, at and (`client_io`) above the limit,
and buffers that hold one packet and a part of the next: every position at which
a stream can be cut occurs.  In `poll_loop` two ticks are enough to tell the start
of a second from its end, and `Horizon` is the number of seconds after which
counters stop; the properties say where they do.  In `v3_echo` 64 KB are 2 units and
the buffer is 3: as in the code, its length does not fit in 16 bits; a peer's
kernel buffer holds one reply and a half.

*Symmetry.*  Connections are interchangeable, and ids too where the alphabet of
packets is symmetric in them, which it is in no run that has two.  The runs with
liveness use none.

*View.*  In `v5_server` TLC identifies states that differ only in which bytes
are behind a length below the header's or belong to an invalid Client (`Heard`).
No guard and no property looks at these bytes, only at how many there are, and every
step from one such state has its like from the other; without the view
they alone are more than half of the states.

*Deadlock* is checked in `server_takeover`, `server_live` and `v3_echo`. Elsewhere the system may stop for good: with failing calls every
address may come to be held by a Client without events, and then the server is
out of descriptors (`server_protocol`, `v4_server`, `v5_server`); the client exits, the loop
quits, the reader's connection ends (`client`, `poll_loop`, `client_io`,
`v4_reader`); or the process ends by an assertion or an overrun (`server_protocol`,
`client_io`, `v5_server`).

Between them the runs fire every action: `server_protocol` fires all of the
server's disjuncts except `ReadHello` and what the reader makes of a part of a packet
and of one that is too long, which `server_live` fires.

## 5. Fairness and liveness

`TCPServer!LiveSpec` assumes

- `ServerRuns`, weak fairness of `do_poll`: the thread is scheduled whenever
  `epoll_wait` has something to report or a batch is unfinished.  Nothing is
  assumed about *which* event is handled first: every event of a batch is handled
  before the next `epoll_wait`, that is the code's own loop.
- `PeersRead`, weak fairness of each peer's reading.  Peers are not assumed to
  send, close or connect.

In `server_live` the array holds every event (`MAX_EVENTS` = 3).  The code's
limit is 100, and with more descriptors than that the kernel rotates its ready
list; the model makes no such promise, so its liveness is for up to 99
connections.  Its peers send no urgent data and no lengths below the header's: with either
the process may end (6), and nothing is promised then.

`EveryoneAccepted`: the listening socket is one more descriptor of the batch, so a
connection waiting in the backlog is accepted.  `EveryoneReclaimed`: a
connection that ended is freed, however much was sent on it before.  `FlushedOnceSilent`:
what is queued for a peer is written if *that peer* in the end stops sending,
whatever everyone else does.

The other liveness properties rest on

- `ClientIO`: weak fairness of `write_data` and of `read_packet`, each of which epoll
  calls as long as it has something to do.  `KeepsReading` excepts a packet whose length
  is below the header's: it is never complete.
- `TCPClient`: weak fairness of the process's steps, of the answer to `connect()` and
  of the server's reading; strong fairness of `Retries`, a retry that does not fail
  at once.  That the timeout expires again and again is `PollLoop!HouseKeepingRecurs`;
  that the retry does not fail at once for ever is an assumption about the
  system's descriptors.  `RetriesOnceSet`: once `me` is set, a connection or attempt that
  fails is followed by another attempt.  `EndsUpKnown`: if the server stays up and has no
  more reasons to lose it, the client ends up connected and known.  Two clients are
  excepted, and no other state is without a way out: the one that has gone `Deaf`,
  since epoll refused its descriptor, and the one whose first attempt was refused
  while `me` was unset, which has crashed (6).
- `PollLoop`: weak fairness of the loop's steps, with `epoll_wait` returning only
  when its time is up; strong fairness of the clock's ticks *while the loop is
  between its two readings*, for each part of the second.  Without that the
  beginning of each second might fall into the few instructions in between, and
  the timeout would never shrink.  `HouseKeepingRecurs` then holds even if no iteration
  lasts a second.
- `V4Reader`: weak fairness of `handle_read_event`, and a peer that finishes the
  packet it has begun.
- `V3Echo`: weak fairness of the server's loop, and of each `simpleclient` once it is
  started.  Nothing is assumed of the other peers.  `EveryoneServed`: each simpleclient is
  accepted (or refused by a failing call) and gets all its answers.

## 6. Divergences

Two runs are expected to end in a violation.

`server_starved` checks `CalledBackToWrite`, the promise of the comment at
`v6/client.cpp:232`, "epoll will call us back", for a write that blocked: what is
queued for a peer that stays connected and reads is written in the end.  TLC
refutes it.  `handle_event` (`v6/tcp_server.cpp:228`) looks at `EPOLLOUT` only in the
*else* branch of its test for `EPOLLIN`, and `handle_read_event` takes one packet per
event.  A peer that has its next packet in the socket at every `epoll_wait` is
read from for ever and never written to, although it reads and its socket is
writable.  `FlushedOnceSilent` is the part of the promise that holds.

`v4_reader_nameless` checks `PreviousConsumed`, the assertion at `v4/event.c:288`.
`process_packets` returns `EINVAL` for a packet without a source id and leaves it in the
buffer; `handle_read_event` (`v4/event.c:361`) drops the result.  The client stays
valid, `onError` is not called, and its next read fails the assertion.

Met while modelling, and not the subject of a run of its own:

- `v6/tcp_client.hpp:45`: the constructor leaves `me` uninitialised, and `disconnect` (`:185` of
  `tcp_client.cpp`) deletes it when the first attempt to connect is refused: where "retry
  connection" is promised (`:308`), the process may crash.  `TCPClient!Init` starts
  from any `me`; `NoFailure` and `RetriesOnceSet` are what holds in spite of it: the first
  attempt crashes the client or none does.  Without the exceptions that they make TLC
  refutes both.
- `v6/client.cpp:77`, `v5/client.cpp:74`: nothing tests for a length field that is less than
  `PACKET_HDR_LENGTH`.  `GET_PACKET_BODY_LENGTH` is not 0, the length is not above the limit, and
  `remaining` wraps: `read` is asked for some 4 GB, takes what follows for the body, and
  goes on behind the end of `read_buffer` if there is enough of it.  It is not the EINVAL
  that `v6/client.cpp:148` announces for an invalid packet, and the assertions hold all the
  while.  Up to the overrun the damage is confined to the peer that sent it, which is
  mute from then on (`MuteBehindShort`, and `RelaySpec` of `v5_server`); of what comes after
  it nothing can be said, and the models stop there.
- `v6/tcp_server.cpp:232`: `register_read` (`:49`) asks for `EPOLLPRI`, which neither branch of
  `handle_event` looks at.  A byte of urgent data, if nothing else is to be read, is
  reported as that alone, and the assertion "we should never reach here" (`:234`) ends
  the process: `TCPServer!NeitherEvent`.  The same three branches are in
  `v6/tcp_client.cpp:159` and `v5/tcp_server.cpp:286`.
- `v6/tcp_client.cpp:256`: `state` is CONNECTING before `EPOLL_CTL_ADD`; if that fails,
  nothing ever retries.  `Deaf` names that state, which the client's liveness
  properties except; without the exception TLC refutes `RetriesOnceSet`.
- `v6/client.cpp:151` announces EAGAIN for a HELLO; `validate_packet` (`:118`) sets 0, and
  the server relies on that.
- `v6/my_server.cpp:17` and `v6/my_client.cpp:17` leave `quit` uninitialised: the loop may
  exit before its first turn (`PollLoop!Init`).
- `v4/event.c:333` compares only the first packet in the buffer with the limit.  One
  that is too long and comes behind a complete packet reaches the assertion at
  `:291`: `V4Server!ReadAborts`.
- `v4/event.c:250` never looks at the source of a later packet; v6 does.  `Verified` is
  FALSE for `V4Server`'s relay.
- An id belongs to whoever named it last, in the order in which the server reads, which
  need not be the order in which a client connected: the HELLO of a connection that its
  client has abandoned may be read after that of its successor, and kick it.  The client
  comes back from that (`EndsUpKnown` with `Kicks`).
- `v3` drops what a full socket does not take: `try_again` is set and not looked at.

## 7. Proofs

All theorems are for any sets of connections and ids, any alphabet of packets, any
lengths, and any positive bounds: the constants are only assumed to be what the
named `ASSUME` of each module says (the reserved id and the null pointer are distinct
from the ordinary ones, the bounds are positive, the largest packet that is accepted fits in
the buffers, and a `uint32_t` counts further than they reach).  The length fields of v5 and v6 may
have any value.  Three theorems have a hypothesis of their own, all
about `V4Reader`, below.  Each is there because the code does not see to it (6), is
what the corresponding run has, and could not be left out: without it the statement is false.

| theorem | says | model-checked in |
|---|---|---|
| `CMTyped`, `CMTableConsistent`, `CMNoDoubleFree`, `CMEvictedIsDoomed`, `CMRejectedIsHarmless` | what `ClientMgr` promises under its contract | `v5_server` |
| `Typed` | `TypeOK` of `TCPServer`, its type invariant | proved only |
| `EventsAreSafe`, `WakeupsAreKept`, `OrphansAreInert`, `RoutesAreRight` | `NoDanglingEvent`, `NoLostWakeup`, `OrphanIsInert`, `RoutedToOwner` of `TCPServer` | `server_protocol`, `server_takeover` |
| `ShortIsMute` | `MuteBehindShort` of `TCPServer` | `server_protocol` |
| `MeetsContract`, `V5MeetsContract`, `V4MeetsContract` | the three servers drive `ClientMgr` (v4: its table and list) within the contract | `server_protocol`, `v5_server`, `v4_server` |
| `ImplementsRelay`, `V5ImplementsRelay`, `V4ImplementsRelay` | the three servers implement `Relay` | `server_takeover`, `v5_server`, `v4_server` |
| `PipeImplemented`, `ReaderPipe` | the bytes of v6's `Client`, and of v4's reader, implement `PacketPipe` | `client_io`, `v4_reader` |
| `ServerTable`, `V5Table` and the like | the component's promises, in the server | `v5_server` |
| `V5Asserts`, `V5WholePackets` | no event of v5's points to a freed Client, no assertion on its offsets fails, whatever the length fields say, and only behind a short one is a buffer overrun; what a peer gets is whole packets | `v5_server` |
| `V4Pointers` | v4's events and `process_packets` have live clients, and who is freed is not in the table | `v4_server` |
| `ReaderAsserts`, `ReaderFramed` | the same for one stream of v6, however it is cut | `client_io` |
| `ClientStoriesAgree`, `ClientNeverFails`, `ClientHelloFirst` | the client's state, what can make it fail, whatever `me` holds at first, and its HELLO | `client` |
| `ReaderConsumes`, `ReaderReads`, `ReaderTyped` | v4's reader: its assertions on what is left in the buffer and on the length, and that it has room whenever it reads | `v4_reader` |
| `EchoEventsAreFresh`, `EchoRepliesOnce` | v3: no event is handled for another connection; a line gets one whole answer | `v3_echo` |
| `LoopKeepsTime`, `LoopIsNotEarly`, `QuitsPromptly` | how late, how early, how deaf `do_poll` is | `poll_loop` |

**`ClientMgrProofs`.**  The inductive invariant is `CMInv`: the state is well typed,
the table is consistent (`Consistent`) and the list holds exactly the invalid
Clients, once each (`ListedOnce`).  Each needs the others: that `manage` adds the
previous owner to the list only once follows from its being *valid*, which is
`Consistent`; that `Consistent` survives `free_invalid_clients` follows from the
list being exactly the invalid ones, which is `ListedOnce`.  One lemma per
operation shows that it preserves `CMInv` under the contract's guard.

**`TCPServerProofs`.**  `TableConsistent` and `NoDanglingEvent` are not inductive for the
server: to know that the owner of a destination id is registered with epoll one
needs that it was managed, hence read from, hence in a batch, hence registered.
The inductive invariant `ServerInv` therefore adds, per connection, how the flag,
the kernel's registration, the buffers and ClientMgr's record of it hang
together, and that an event in the batch belongs to an allocated, registered
Client.  `Invariance` is shown with one lemma per action, each of which rests on the
operation lemmas of `ClientMgrProofs`.  The server's own safety properties follow from
it, and with `MeetsContract`, a refinement, those of the component.  All of it is about every
state up to the end of the process, and urgent data and short lengths are part of it:
`ShortIsMute` needs no more than the invariant that a packet is relayed only under
the id of the Client it was read from.

`ImplementsRelay` takes each step to one of `Relay` or to a stutter.  `AdmitTable` says
what an `Admit` does to the table, that is, that it kicks the owner the relay
would kick, and nobody else; `Adding`, `Moving` and `Taking` (`QueueLemmas`) say that
queueing at the end of `write_buffer` is queueing at the end of the mailbox, that a
partial write moves packets within it, and that reading takes the first.

**Streams of bytes** (`QueueLemmas`, and the proofs of `ClientIO`, `V5Server` and
`V4Reader`).  "The stream is whole packets in a row" is naturally a recursive statement.
`Placed` says the same of each byte alone: every byte determines what is at each
of the other places of its packet, as far as the stream goes.  `Finished` adds that no
packet goes on behind the stream's end.  Both survive appending a whole packet, cutting
at any point, taking away the first packet, and joining two streams (`OnePacket`,
`CutOff`, `AfterFirst`, `Joined`, `FrontAndRest`), which is all that the code does, and
they entail that the header read is the header of the packet whose body follows.
The inductive invariant of `ClientIO` (`IOInv`) says that the four buffers, one behind
the other, are `Placed`, and `Finished` while the connection is open.  The
assertions alone are not inductive: that a body ends where its header said
depends on every byte still in `write_buffer` at the other end.  A packet whose length is
below the header's is one case more at every step of the reader: from the moment its header is
complete, `read_buffer` is not the beginning of one packet but of the stream, `remaining` is more
than the channel holds, as it wrapped, so the body is never complete, and the assertion
`remaining > 0` holds for that reason alone.  `ReaderAsserts` says so, and that with any other
packet what is asked of `read` ends within `read_buffer`.

**The packets of a stream** (`QueueLemmas`).  The refinement mappings need `PacketsIn`, a
recursive function, so what it returns takes an induction.  The library's induction
theorems take an operator as a parameter and cannot be used; `Counting` is induction as a
statement about a *set* of numbers, from the library's theorem that every nonempty set has a
minimal element.  With it: `PacketsIn` exists and is typed (`PacketsInTyped`), the packets of two
streams behind one another are those of the first and then those of the second
(`PacketsInBoth`), and a stream of whole packets is not longer than its packets'
number times the greatest length (`PacketsHold`).  The rest
speaks of `Placed` streams without induction: a packet queued is appended
(`PacketJoins`), one read is the first (`PacketLeaves`), cutting the stream loses the last ones
(`PacketsLost`), and a packet that has not arrived completely is not in it (`NoPacketYet`).

`PipeImplemented` takes each step of `ClientIO` to one of `PacketPipe` under *transit* =
`PacketsIn` of the four buffers: `queue_packet` is `Send` (dropped only if others wait or it is
longer than the buffer), the last byte's `ReadBody` is `Take`, and the loss of what was still
in `write_buffer` or in the kernel is `Cut`.

**`V5ServerProofs`.**  `V5Inv` has `CMInv`; that events belong to registered Clients
(`BatchSound`); for the bytes *from* each peer (`InInv`) that they are `Placed` and
`Finished`, counting what the peer has still to send, and that `read_buffer` holds
less than one packet of an acceptable length; and for the bytes *to* it (`OutInv`) that
they are whole packets addressed to its id.  The two are linked by `ReadData`: the
packet that one stream has completed is what is appended, whole, to another, whose
owner's id the table guarantees.  `FreeInv5` is what allocation relies on: nothing is
left in the buffers at a free address.

`V5ImplementsRelay` has the argument of `ImplementsRelay` with `PacketsIn` of the outgoing
bytes for the mailbox.  What is new is `RefusedWhenFull`: `queue_packet` refuses a packet for
want of *bytes*, the relay for a number of messages.  If a packet of an acceptable length does not
fit, the bytes that wait are more than `MAX_ALLOWED_WRITE_QUEUE` less its length, and as
they are whole packets (`OutInv`), `PacketsHold` gives their number.

**`V4ServerProofs`.**  `V4Inv` has the table and the list as sequences and pointers
(`TableInv`), the batch, and `process_packets`' client, which no turn of its own loop
can invalidate, although it may kick others (`AtWork`).  `V4MeetsContract` needs that the
contract's count of list entries, a cardinality in the mapping, is one for an
invalid client and zero for others (`TallyOnce`); then marking is `Reject`, naming is
`Admit`, and the end of a batch is `Reap`.  `V4ImplementsRelay` relates *each turn* of the
loop to a step of the relay.

**`TCPClientProofs`.**  `ClientInv` spells out what each of the three states implies for
the pointer, the registration, the write flag and the queue, and that on a
connection that has heard nothing yet a HELLO is first on its way.
`ClientNeverFails` supposes nothing of what the pointer `me` holds at first: the invariant
carries through the first attempt that `me` may be unset, and a process that has crashed
had it unset.

**`LoopProofs`: `PollLoop`.**  `TimeInv` bounds, at each point of an iteration, the time slept and the
time gone by from above (`Upper`, `Before`) and from below (`Lower`), in terms of the seconds
that were subtracted so far.  The rest is linear arithmetic over one iteration,
with ticks as the common unit.

**`LoopProofs`: `V3Echo`.**  `EventsAreFresh` alone does not survive `accept`, which hands out any
free descriptor in the middle of a batch.  `EchoSound` adds that a peer is in one place at most
(`PlacesSound`: at one descriptor, or once in the backlog), so that the descriptor that
is closed is that of the event in hand, of which there is no second.  `TurnSound` says
for each step of a simpleclient what is on its way in either direction: nothing, its
line, or one whole reply, which fits as `ReplyLength <= SndBuf`.

**`LoopProofs`: `V4Reader`.**  `ReaderSound` is `Placed` and `Finished` again, of the stream from
`read_buffer` back to what the peer has still to write, and that the bytes kept have room.  It
holds whatever the peer sends (`ReaderInvariance`).  That the process does not abort does not,
and the theorems say what it takes: `AllNamed`, every packet has a source id, for
the assertion at `v4/event.c:288` (`ReaderConsumes`; `v4_reader_nameless` is the
counterexample without it), and `AllShort`, none is too long, for that at `:291`
(`ReaderReads`; `V4Server!ReadAborts`).  `ReaderPipe` needs the former only: a turn of
`process_packets` is a `Take`, and a read that brings several packets changes nothing
in the pipe.

*Only model-checked*: liveness, under the fairness of 5, and `ENABLED`, which are out of
the prover's reach: `EveryoneAccepted`, `EveryoneReclaimed`, `FlushedOnceSilent`,
`KeepsReading`, `RetriesOnceSet`, `EndsUpKnown`, `HouseKeepingRecurs` and
`EveryoneServed`.  Every safety property of the passing runs is proved.

## 8. Faulty variants

An operator called `FaultyX` is not the code.  It stands in front of the operator
`X` it resembles and puts one plausible bug in it: a table entry cleared without
looking whose it is, a Client freed at once, a flag left set, a packet queued in
front, the end of a stream ignored.  With `X` replaced by `FaultyX` each property
named for it in `PROJECT.json` ("mutants") is violated, which shows that the
property depends on that part of the code.

## 9. Plan

Done: the models of all components and their runs; the proofs of every safety property and
every refinement the runs check.  Left, in this order:

1. A composition of several `TCPClient`s, which reconnect, with `Relay` in the place of the
   server.
2. A full descriptor table, for the servers and for `V3Echo`.
