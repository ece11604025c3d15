--------------------------- MODULE V4ServerProofs ---------------------------
(***************************************************************************)
(* Proofs about the fourth generation's server, for any number of clients, *)
(* any traffic and any buffer sizes: no pointer of a batch or of the table *)
(* dangles, the table and the list are used as ClientMgr would use them,   *)
(* and the server implements the Relay.                                    *)
(***************************************************************************)
EXTENDS V4Server, FiniteSetTheorems, QueueLemmas

-----------------------------------------------------------------------------
(* The inductive invariant. *)

\* The list holds the invalid clients, once each; the table holds the others
\* that have an id, each under that id; and at a free address there is none.
TableInv ==
  /\ invalid \subseteq live
  /\ InList = invalid /\ Single(invalid_client_list)
  /\ \A c \in Clients : c \notin live => id[c] = UNIDENTIFIED_CLIENT
  /\ \A c \in Clients, i \in AllIds :
       client_array[i] = c <=> /\ c \in live \ invalid
                               /\ id[c] = i /\ i # UNIDENTIFIED_CLIENT

\* The batch, and the client whose packets are being processed.
BatchSound == \A e \in cev : e.ptr # NULL => e.ptr \in live /\ epoll[e.ptr] # {}
AtWork     == pc = "process" => current \in live \ invalid /\ read_buffer # <<>>

ConnInv(c) ==
  /\ c \notin live => epoll[c] = {}
  /\ Len(wire[c]) <= SndBuf
  /\ queue[c] # <<>> \/ wire[c] # <<>> => id[c] # UNIDENTIFIED_CLIENT

V4Inv ==
  /\ TypeOK
  /\ TableInv
  /\ BatchSound
  /\ AtWork
  /\ \A c \in Clients : ConnInv(c)

-----------------------------------------------------------------------------
(* The table and the list. *)

LEMMA PacketFacts ==
  /\ \A p \in Packets : /\ p.kind \in {"HELLO", "DATA", "LARGE"}
                        /\ p.src \in AllIds /\ p.dst \in AllIds
                        /\ p.src # UNIDENTIFIED_CLIENT => p.src \in Ids
  /\ UNIDENTIFIED_CLIENT \notin Ids /\ NULL \notin Clients
  /\ SndBuf \in Nat \ {0} /\ WriteQueue \in Nat \ {0}
  BY V4ServerAssumption DEF AllIds

\* The types of what client.c works on.
CmgrTyped ==
  /\ live \subseteq Clients /\ invalid \subseteq Clients
  /\ id \in [Clients -> AllIds]
  /\ client_array \in [AllIds -> Clients \cup {NULL}]
  /\ invalid_client_list \in Seq(Clients)

\* A client is put in front of the list.
LEMMA Prepended ==
  ASSUME NEW S, NEW q \in Seq(S), NEW c \in S, Single(q),
         \A k \in 1 .. Len(q) : q[k] # c
  PROVE  LET r == <<c>> \o q
         IN  /\ r \in Seq(S) /\ Single(r)
             /\ Elements(r) = Elements(q) \cup {c}
<1> DEFINE r == <<c>> \o q
           n == Len(q)
<1>1. <<c>> \in Seq(S) /\ Len(<<c>>) = 1 /\ <<c>>[1] = c
  OBVIOUS
<1>2. n \in Nat
  BY LenProperties
<1>3. /\ r \in Seq(S) /\ Len(r) = n + 1
      /\ \A k \in 1 .. n + 1 : r[k] = IF k <= 1 THEN c ELSE q[k - 1]
  BY <1>1, <1>2, ConcatProperties
<1> HIDE DEF r, n
<1>4. r[1] = c /\ \A k \in 1 .. n : k + 1 \in 1 .. n + 1 /\ r[k + 1] = q[k]
  BY <1>2, <1>3
<1>5. \A k \in 1 .. n + 1 : k = 1 \/ (k - 1 \in 1 .. n /\ r[k] = q[k - 1])
  BY <1>2, <1>3
<1>6. ASSUME NEW j \in 1 .. n + 1, NEW k \in 1 .. n + 1, r[j] = r[k]
      PROVE  j = k
  <2>1. CASE j = 1 /\ k = 1
    BY <2>1
  <2>2. CASE j = 1 /\ k # 1
    BY <1>4, <1>5, <1>6, <2>2 DEF n
  <2>3. CASE j # 1 /\ k = 1
    BY <1>4, <1>5, <1>6, <2>3 DEF n
  <2>4. CASE j # 1 /\ k # 1
    <3>1. /\ j - 1 \in 1 .. n /\ r[j] = q[j - 1]
          /\ k - 1 \in 1 .. n /\ r[k] = q[k - 1]
      BY <1>5, <2>4
    <3>2. q[j - 1] = q[k - 1]
      BY <1>6, <3>1
    <3>3. j - 1 = k - 1
      BY <3>1, <3>2 DEF Single, n
    <3> QED
      BY <1>2, <3>3
  <2> QED
    BY <2>1, <2>2, <2>3, <2>4
<1>7. {r[k] : k \in 1 .. n + 1} = {q[k] : k \in 1 .. n} \cup {c}
  <2>1. ASSUME NEW x, x \in {r[k] : k \in 1 .. n + 1}
        PROVE  x \in {q[k] : k \in 1 .. n} \cup {c}
    BY <1>4, <1>5, <2>1
  <2>2. ASSUME NEW x, x \in {q[k] : k \in 1 .. n} \cup {c}
        PROVE  x \in {r[k] : k \in 1 .. n + 1}
    <3>1. 1 \in 1 .. n + 1
      BY <1>2
    <3> QED
      BY <1>4, <2>2, <3>1
  <2> QED
    BY <2>1, <2>2
<1> QED
  BY <1>3, <1>6, <1>7 DEF Single, Elements, r, n

\* Marking a valid client invalid.
LEMMA MarkTable ==
  ASSUME CmgrTyped, TableInv, NEW c \in Clients, c \in live \ invalid,
         mark_client_as_invalid(c)
  PROVE  /\ CmgrTyped' /\ TableInv'
         /\ live' = live /\ id' = id /\ invalid' = invalid \cup {c}
         /\ client_array' =
              [i \in AllIds |-> IF client_array[i] = c THEN NULL ELSE client_array[i]]
<1>1. /\ live' = live /\ id' = id /\ invalid' = invalid \cup {c}
      /\ client_array' = Unlist(c)
      /\ invalid_client_list' = <<c>> \o invalid_client_list
  BY DEF mark_client_as_invalid
<1>2. client_array' =
        [i \in AllIds |-> IF client_array[i] = c THEN NULL ELSE client_array[i]]
  BY <1>1 DEF Unlist, TableInv
<1>3. \A k \in 1 .. Len(invalid_client_list) : invalid_client_list[k] # c
  BY DEF TableInv, InList
<1>4. /\ invalid_client_list' \in Seq(Clients) /\ Single(invalid_client_list')
      /\ InList' = invalid \cup {c}
  BY <1>1, <1>3, Prepended, SMTT(40) DEF CmgrTyped, TableInv, InList, Elements
<1>5. CmgrTyped'
  BY <1>1, <1>2, <1>4 DEF CmgrTyped
<1>6. TableInv'
  BY <1>1, <1>2, <1>4, PacketFacts DEF TableInv, CmgrTyped, Single
<1> QED
  BY <1>1, <1>2, <1>5, <1>6

\* A valid client without an id takes one; whoever had it is marked.
LEMMA AddTable ==
  ASSUME CmgrTyped, TableInv, NEW c \in Clients, c \in live \ invalid,
         id[c] = UNIDENTIFIED_CLIENT, NEW i \in Ids, add_new_client_to_array(c, i)
  PROVE  LET p == client_array[i]
         IN  /\ CmgrTyped' /\ TableInv'
             /\ live' = live /\ id' = [id EXCEPT ![c] = i]
             /\ client_array' = [client_array EXCEPT ![i] = c]
             /\ p # c
             /\ p # NULL => p \in live \ invalid /\ id[p] = i
             /\ invalid' = IF p = NULL THEN invalid ELSE invalid \cup {p}
<1> DEFINE p == client_array[i]
<1>1. /\ live' = live /\ id' = [id EXCEPT ![c] = i]
      /\ client_array' = [client_array EXCEPT ![i] = c]
      /\ IF p = NULL
           THEN invalid' = invalid /\ invalid_client_list' = invalid_client_list
           ELSE /\ invalid' = invalid \cup {p}
                /\ invalid_client_list' = <<p>> \o invalid_client_list
  BY DEF add_new_client_to_array
<1>2. /\ i \in AllIds /\ i # UNIDENTIFIED_CLIENT /\ p \in Clients \cup {NULL}
      /\ p # NULL => p \in live \ invalid /\ id[p] = i
      /\ p # c
  BY PacketFacts DEF AllIds, CmgrTyped, TableInv
<1> HIDE DEF p
<1>3. /\ invalid' = IF p = NULL THEN invalid ELSE invalid \cup {p}
      /\ invalid_client_list' \in Seq(Clients) /\ Single(invalid_client_list')
      /\ InList' = invalid'
  <2>1. CASE p = NULL
    BY <1>1, <2>1 DEF CmgrTyped, TableInv, InList
  <2>2. CASE p # NULL
    <3>1. p \in Clients /\ \A k \in 1 .. Len(invalid_client_list) : invalid_client_list[k] # p
      BY <1>2, <2>2 DEF TableInv, InList
    <3> DEFINE q == invalid_client_list
    <3>2. q \in Seq(Clients) /\ Single(q) /\ Elements(q) = invalid
      BY DEF CmgrTyped, TableInv, InList, Elements
    <3> HIDE DEF q
    <3>3. \A k \in 1 .. Len(q) : q[k] # p
      BY <3>1 DEF q
    <3> DEFINE r == <<p>> \o q
    <3>4. r \in Seq(Clients) /\ Single(r) /\ Elements(r) = invalid \cup {p}
      BY <3>1, <3>2, <3>3, Prepended
    <3>5. invalid_client_list' = r /\ invalid' = invalid \cup {p}
      BY <1>1, <2>2 DEF q
    <3> HIDE DEF r
    <3> QED
      BY <2>2, <3>4, <3>5 DEF InList, Elements
  <2> QED
    BY <2>1, <2>2
<1>4. CmgrTyped'
  BY <1>1, <1>2, <1>3 DEF CmgrTyped
<1>5. TableInv'
  <2>1. ASSUME NEW d \in Clients, NEW j \in AllIds
        PROVE  client_array'[j] = d <=> /\ d \in live \ invalid'
                                        /\ id'[d] = j /\ j # UNIDENTIFIED_CLIENT
    <3>1. client_array[j] = d <=> /\ d \in live \ invalid
                                  /\ id[d] = j /\ j # UNIDENTIFIED_CLIENT
      BY DEF TableInv
    <3>2. /\ client_array'[j] = IF j = i THEN c ELSE client_array[j]
          /\ id'[d] = IF d = c THEN i ELSE id[d]
      BY <1>1, <1>2 DEF CmgrTyped
    <3>3. client_array[i] = d <=> d \in live \ invalid /\ id[d] = i
      BY <1>2 DEF TableInv
    <3>4. CASE d = c
      BY <1>2, <1>3, <3>1, <3>2, <3>4
    <3>5. CASE d # c
      BY <1>2, <1>3, <3>1, <3>2, <3>3, <3>5, PacketFacts DEF p
    <3> QED
      BY <3>4, <3>5
  <2>2. invalid' \subseteq live' /\ \A d \in Clients : d \notin live' => id'[d] = UNIDENTIFIED_CLIENT
    BY <1>1, <1>2, <1>3 DEF TableInv, CmgrTyped
  <2> QED
    BY <1>1, <1>3, <2>1, <2>2 DEF TableInv, Single
<1> QED
  BY <1>1, <1>2, <1>3, <1>4, <1>5 DEF p

\* Whatever a new client finds at its address is as calloc would leave it.
LEMMA AllocTable ==
  ASSUME CmgrTyped, TableInv, NEW c \in Clients, c \notin live,
         live' = live \cup {c},
         UNCHANGED <<id, invalid, client_array, invalid_client_list>>
  PROVE  CmgrTyped' /\ TableInv'
<1>1. c \notin invalid /\ id[c] = UNIDENTIFIED_CLIENT
  BY DEF TableInv
<1>2. CmgrTyped'
  BY DEF CmgrTyped
<1>3. TableInv'
  BY <1>1 DEF TableInv, InList, Single, CmgrTyped
<1> QED
  BY <1>2, <1>3

\* The list is freed.
LEMMA FreeTable ==
  ASSUME CmgrTyped, TableInv, free_invalid_clients
  PROVE  /\ CmgrTyped' /\ TableInv'
         /\ live' = live \ invalid /\ invalid' = {}
         /\ id' = [c \in Clients |-> IF c \in invalid THEN UNIDENTIFIED_CLIENT ELSE id[c]]
         /\ client_array' = client_array
<1>1. /\ live' = live \ invalid /\ invalid' = {}
      /\ id' = [c \in Clients |-> IF c \in invalid THEN UNIDENTIFIED_CLIENT ELSE id[c]]
      /\ client_array' = client_array /\ invalid_client_list' = <<>>
  BY DEF free_invalid_clients, Without, TableInv
<1>2. <<>> \in Seq(Clients) /\ Len(<<>>) = 0
  BY EmptySeq
<1>3. CmgrTyped'
  BY <1>1, <1>2 DEF CmgrTyped, AllIds
<1>4. InList' = {} /\ Single(invalid_client_list')
  BY <1>1, <1>2 DEF InList, Single
<1>5. TableInv'
  BY <1>1, <1>4, PacketFacts DEF TableInv, CmgrTyped, Single
<1> QED
  BY <1>1, <1>3, <1>5

-----------------------------------------------------------------------------
(* Every step preserves the inductive invariant. *)

LEMMA EventClient ==
  ASSUME V4Inv, NEW e \in cev, e.ptr # NULL
  PROVE  e.ptr \in Clients /\ e.ptr \in live /\ epoll[e.ptr] # {}
  BY DEF V4Inv, BatchSound, TypeOK

LEMMA CmgrFacts ==
  ASSUME V4Inv
  PROVE  CmgrTyped /\ TableInv
  BY DEF V4Inv, TypeOK, CmgrTyped

\* What does not touch client.c's state keeps the table as it is.
LEMMA TableKept ==
  ASSUME V4Inv, UNCHANGED cmgrVars
  PROVE  /\ CmgrTyped' /\ TableInv'
         /\ UNCHANGED <<live, id, invalid, client_array, invalid_client_list>>
<1>1. UNCHANGED <<live, id, invalid, client_array, invalid_client_list>>
  BY DEF cmgrVars
<1> QED
  BY <1>1, CmgrFacts DEF CmgrTyped, TableInv, InList, Single

\* Between two ends of a batch no client is freed or loses its id.
Grows ==
  /\ live \subseteq live'
  /\ \A c \in Clients : id[c] # UNIDENTIFIED_CLIENT => id'[c] # UNIDENTIFIED_CLIENT

LEMMA BatchKept ==
  ASSUME V4Inv, Grows, cev' \subseteq cev,
         \A c \in Clients : epoll[c] # {} => epoll'[c] # {}
  PROVE  BatchSound'
<1>1. \A e \in cev : e.ptr # NULL => e.ptr \in Clients /\ e.ptr \in live /\ epoll[e.ptr] # {}
  BY EventClient
<1> QED
  BY <1>1 DEF BatchSound, Grows

LEMMA ConnKept ==
  ASSUME V4Inv, Grows, NEW c \in Clients,
         c \notin live' => epoll'[c] = epoll[c],
         queue'[c] = queue[c], wire'[c] = wire[c]
  PROVE  ConnInv(c)'
  BY DEF V4Inv, ConnInv, Grows

\* The types of the variables that are not client.c's.
ConnTyped ==
  /\ write_registered \subseteq Clients
  /\ queue \in [Clients -> Seq(Packets)]
  /\ stuck \subseteq Clients
  /\ epoll \in [Clients -> SUBSET {"IN", "OUT"}]
  /\ peer \in [Clients -> {"none", "open", "closed", "reset"}]
  /\ inbox \in [Clients -> Seq(Packets)]
  /\ wire \in [Clients -> Seq(Packets)]

LoopTyped ==
  /\ cev \subseteq Event
  /\ pc \in {"wait", "dispatch", "process", "aborted"}
  /\ current \in Clients \cup {NULL}
  /\ read_buffer \in Seq(Packets)

LEMMA Typed == TypeOK <=> CmgrTyped /\ ConnTyped /\ LoopTyped
  BY DEF TypeOK, CmgrTyped, ConnTyped, LoopTyped

\* Write interest is only changed for a client that epoll watches, and never
\* takes it out of there.
LEMMA InterestKept ==
  ASSUME ConnTyped, NEW c \in Clients, register_write(c) \/ unregister_write(c)
  PROVE  /\ epoll' \in [Clients -> SUBSET {"IN", "OUT"}]
         /\ write_registered' \subseteq Clients
         /\ \A d \in Clients : epoll[d] = {} <=> epoll'[d] = {}
<1>1. PICK E : /\ E \in {{"IN"}, {"IN", "OUT"}}
               /\ \/ UNCHANGED <<write_registered, epoll>>
                  \/ /\ write_registered' \in {write_registered \cup {c}, write_registered \ {c}}
                     /\ epoll' = [epoll EXCEPT ![c] = IF @ = {} THEN {} ELSE E]
  BY DEF register_write, unregister_write
<1>2. E # {} /\ E \subseteq {"IN", "OUT"}
  BY <1>1
<1>3. CASE UNCHANGED <<write_registered, epoll>>
  BY <1>3 DEF ConnTyped
<1>4. CASE /\ write_registered' \in {write_registered \cup {c}, write_registered \ {c}}
           /\ epoll' = [epoll EXCEPT ![c] = IF @ = {} THEN {} ELSE E]
  <2>1. epoll \in [Clients -> SUBSET {"IN", "OUT"}]
    BY DEF ConnTyped
  <2>2. \A d \in Clients : epoll'[d] = IF d = c /\ epoll[d] # {} THEN E ELSE epoll[d]
    BY <1>4, <2>1
  <2>3. epoll' \in [Clients -> SUBSET {"IN", "OUT"}]
    BY <1>2, <1>4, <2>1
  <2> QED
    BY <1>2, <1>4, <2>2, <2>3 DEF ConnTyped
<1> QED
  BY <1>1, <1>3, <1>4

LEMMA AcceptPreserves ==
  ASSUME V4Inv, NEW e \in cev, accept_connection(e)
  PROVE  V4Inv'
<1>1. /\ pc = "dispatch" /\ cev' = cev \ {e} /\ pc' = pc
      /\ UNCHANGED <<id, invalid, client_array, invalid_client_list, write_registered,
                     queue, current, read_buffer, stuck, peer, inbox, wire>>
      /\ \/ UNCHANGED <<live, epoll>>
         \/ \E c \in Clients \ live : /\ live' = live \cup {c}
                                      /\ \/ epoll' = [epoll EXCEPT ![c] = {"IN"}]
                                         \/ UNCHANGED epoll
  BY DEF accept_connection, Accept, AcceptFails, Dispatch, Backlog, cmgrVars, writeVars,
         readVars, peerVars
<1>2. CmgrTyped /\ TableInv /\ ConnTyped /\ LoopTyped
  BY CmgrFacts, Typed DEF V4Inv
<1>3. CmgrTyped' /\ TableInv'
  <2>1. CASE UNCHANGED live
    BY <1>1, <2>1, TableKept DEF cmgrVars
  <2>2. ASSUME NEW c \in Clients \ live, live' = live \cup {c}
        PROVE  CmgrTyped' /\ TableInv'
    BY <1>1, <1>2, <2>2, AllocTable
  <2> QED
    BY <1>1, <2>1, <2>2
<1>4. /\ epoll' \in [Clients -> SUBSET {"IN", "OUT"}]
      /\ live \subseteq live'
      /\ \A c \in Clients : /\ epoll[c] # {} => epoll'[c] # {}
                            /\ c \notin live' => epoll'[c] = epoll[c]
  BY <1>1, <1>2, ZenonT(60) DEF ConnTyped
<1>5. Grows
  BY <1>1, <1>4 DEF Grows
<1>6. TypeOK'
  BY <1>1, <1>2, <1>3, <1>4, Typed DEF ConnTyped, LoopTyped, TypeOK, CmgrTyped
<1>7. BatchSound' /\ AtWork'
  BY <1>1, <1>4, <1>5, BatchKept DEF AtWork
<1>8. ASSUME NEW c \in Clients PROVE ConnInv(c)'
  BY <1>1, <1>4, <1>5, ConnKept
<1> QED
  BY <1>3, <1>6, <1>7, <1>8 DEF V4Inv

\* An event that moves no packet and changes no table.
LEMMA QuietPreserves ==
  ASSUME V4Inv, NEW e \in cev, StaleEvent(e) \/ ReadPartial(e) \/ ReadAborts(e) \/ WriteNothing(e)
  PROVE  V4Inv'
<1>1. /\ UNCHANGED cmgrVars
      /\ UNCHANGED <<queue, current, read_buffer, stuck, peer, inbox, wire>>
      /\ pc = "dispatch" /\ pc' \in {"dispatch", "aborted"} /\ cev' \subseteq cev
  BY DEF StaleEvent, ReadPartial, ReadAborts, WriteNothing, Reads, ReadEvent, WriteEvent, Dispatch,
         writeVars, readVars, peerVars
<1>2. CmgrTyped' /\ TableInv'
  BY <1>1, TableKept
<1>3. ConnTyped /\ LoopTyped
  BY Typed DEF V4Inv
<1>4. /\ epoll' \in [Clients -> SUBSET {"IN", "OUT"}]
      /\ write_registered' \subseteq Clients
      /\ \A c \in Clients : epoll[c] = {} <=> epoll'[c] = {}
  <2>1. CASE WriteNothing(e)
    <3> DEFINE c == e.ptr
    <3>1. c \in Clients /\ unregister_write(c)
      BY <2>1, EventClient DEF WriteNothing, WriteEvent
    <3> HIDE DEF c
    <3> QED
      BY <1>3, <3>1, InterestKept
  <2>2. CASE ~WriteNothing(e)
    BY <1>3, <2>2 DEF StaleEvent, ReadPartial, ReadAborts, writeVars, ConnTyped
  <2> QED
    BY <2>1, <2>2
<1>5. Grows
  BY <1>1 DEF Grows, cmgrVars
<1>6. TypeOK'
  BY <1>1, <1>2, <1>3, <1>4, Typed DEF ConnTyped, LoopTyped, TypeOK, CmgrTyped
<1>7. BatchSound' /\ AtWork'
  BY <1>1, <1>4, <1>5, BatchKept DEF AtWork
<1>8. ASSUME NEW c \in Clients PROVE ConnInv(c)'
  BY <1>1, <1>4 DEF V4Inv, ConnInv, cmgrVars
<1> QED
  BY <1>2, <1>6, <1>7, <1>8 DEF V4Inv

\* A client fails.
LEMMA FailPreserves ==
  ASSUME V4Inv, NEW e \in cev, ReadFails(e) \/ WriteFails(e)
  PROVE  V4Inv'
<1>1. /\ mark_client_as_invalid(e.ptr)
      /\ e.ptr # NULL /\ e.ptr \notin invalid
      /\ UNCHANGED <<write_registered, queue, epoll, current, read_buffer, stuck, pc,
                     peer, inbox, wire>>
      /\ pc = "dispatch" /\ cev' \subseteq cev
  BY DEF ReadFails, WriteFails, Reads, ReadEvent, WriteEvent, Dispatch, Stale,
         writeVars, readVars, peerVars
<1>2. e.ptr \in Clients /\ e.ptr \in live \ invalid
  BY <1>1, EventClient
<1>3. CmgrTyped' /\ TableInv' /\ live' = live /\ id' = id
  BY <1>1, <1>2, CmgrFacts, MarkTable
<1>4. TypeOK'
  BY <1>1, <1>3, Typed DEF V4Inv, TypeOK, CmgrTyped
<1>5. Grows
  BY <1>3 DEF Grows
<1>6. BatchSound' /\ AtWork'
  BY <1>1, <1>5, BatchKept DEF AtWork
<1>7. ASSUME NEW c \in Clients PROVE ConnInv(c)'
  BY <1>1, <1>5, ConnKept
<1> QED
  BY <1>3, <1>4, <1>6, <1>7 DEF V4Inv

\* The first packets of what was sent are taken for processing.
LEMMA ReadPreserves ==
  ASSUME V4Inv, NEW e \in cev, ReadPackets(e)
  PROVE  V4Inv'
<1> DEFINE c == e.ptr
           q == inbox[c]
<1>1. PICK n \in 1 .. Len(q) :
        /\ read_buffer' = SubSeq(q, 1, n)
        /\ inbox' = [inbox EXCEPT ![c] = SubSeq(q, n + 1, Len(q))]
  BY DEF ReadPackets
<1>2. /\ UNCHANGED cmgrVars
      /\ UNCHANGED <<write_registered, queue, epoll, stuck, peer, wire>>
      /\ current' = c /\ pc' = "process" /\ cev' \subseteq cev
      /\ c # NULL /\ c \notin invalid
  BY DEF ReadPackets, Reads, ReadEvent, Dispatch, Stale, writeVars
<1>3. c \in Clients /\ c \in live \ invalid
  BY <1>2, EventClient
<1>4. CmgrTyped' /\ TableInv' /\ live' = live /\ id' = id /\ invalid' = invalid
  BY <1>2, TableKept
<1>5. ConnTyped /\ LoopTyped /\ q \in Seq(Packets)
  BY <1>3, Typed DEF V4Inv, ConnTyped
<1> HIDE DEF c, q
<1>6. /\ read_buffer' \in Seq(Packets) /\ read_buffer' # <<>>
      /\ SubSeq(q, n + 1, Len(q)) \in Seq(Packets)
  <2>1. n \in 0 .. Len(q) /\ n # 0
    BY <1>5, LenProperties
  <2>2. /\ SubSeq(q, 1, n) \in Seq(Packets) /\ SubSeq(q, n + 1, Len(q)) \in Seq(Packets)
        /\ Len(SubSeq(q, 1, n)) = n
    BY <1>5, <2>1, SeqFacts, SubSeqLength
  <2> QED
    BY <1>1, <2>1, <2>2, EmptySeq
<1>7. inbox' \in [Clients -> Seq(Packets)]
  BY <1>1, <1>5, <1>6 DEF ConnTyped
<1>8. TypeOK'
  BY <1>2, <1>3, <1>4, <1>5, <1>6, <1>7, Typed DEF ConnTyped, LoopTyped, TypeOK, CmgrTyped
<1>9. Grows
  BY <1>4 DEF Grows
<1>10. BatchSound' /\ AtWork'
  BY <1>2, <1>3, <1>4, <1>6, <1>9, BatchKept DEF AtWork
<1>11. ASSUME NEW d \in Clients PROVE ConnInv(d)'
  BY <1>2, <1>9, ConnKept
<1> QED
  BY <1>4, <1>8, <1>10, <1>11 DEF V4Inv

\* What one turn of process_packets does to the table: nothing, or the client
\* takes the id its packet names.
LEMMA ProcessTable ==
  ASSUME V4Inv, ProcessPacket
  PROVE  /\ current \in Clients /\ current \in live \ invalid
         /\ NextPacket \in Packets /\ read_buffer # <<>>
         /\ \/ id[current] # UNIDENTIFIED_CLIENT /\ UNCHANGED cmgrVars
            \/ /\ id[current] = UNIDENTIFIED_CLIENT
               /\ NextPacket.src \in Ids
               /\ add_new_client_to_array(current, NextPacket.src)
         /\ CmgrTyped' /\ TableInv' /\ live' = live /\ Grows
         /\ current \in live' \ invalid'
<1> DEFINE c == current
           p == NextPacket
<1>1. c \in live \ invalid /\ read_buffer # <<>>
  BY DEF ProcessPacket, V4Inv, AtWork
<1>2. c \in Clients /\ read_buffer \in Seq(Packets)
  BY <1>1 DEF V4Inv, TypeOK
<1>3. p \in Packets
  BY <1>1, <1>2, HeadTailProperties DEF NextPacket
<1>4. p.src \in Ids
  BY <1>3, PacketFacts DEF ProcessPacket, validate_packet
<1>5. CASE id[c] # UNIDENTIFIED_CLIENT
  <2>1. UNCHANGED cmgrVars
    BY <1>5 DEF ProcessPacket
  <2> QED
    BY <1>1, <1>2, <1>3, <1>5, <2>1, TableKept DEF Grows
<1>6. CASE id[c] = UNIDENTIFIED_CLIENT
  <2>1. add_new_client_to_array(c, p.src)
    BY <1>6 DEF ProcessPacket
  <2> HIDE DEF c, p
  <2> DEFINE i == p.src
             o == client_array[i]
  <2>2. i \in Ids /\ add_new_client_to_array(c, i)
    BY <1>4, <2>1
  <2> HIDE DEF i
  <2>3. /\ CmgrTyped' /\ TableInv'
        /\ live' = live /\ id' = [id EXCEPT ![c] = i]
        /\ o # c
        /\ invalid' = IF o = NULL THEN invalid ELSE invalid \cup {o}
    BY <1>1, <1>2, <1>6, <2>2, CmgrFacts, AddTable
  <2>4. Grows
    <3>1. i # UNIDENTIFIED_CLIENT /\ id \in [Clients -> AllIds]
      BY <2>2, PacketFacts, CmgrFacts DEF CmgrTyped
    <3> QED
      BY <2>3, <3>1 DEF Grows
  <2>5. c \in live' \ invalid'
    BY <1>1, <2>3
  <2> QED
    BY <1>1, <1>2, <1>3, <1>4, <1>6, <2>1, <2>3, <2>4, <2>5 DEF c, p
<1> QED
  BY <1>5, <1>6

LEMMA ProcessPreserves ==
  ASSUME V4Inv, ProcessPacket
  PROVE  V4Inv'
<1> DEFINE p == NextPacket
           d == client_array'[p.dst]
<1>1. /\ current \in Clients /\ p \in Packets /\ read_buffer # <<>>
      /\ CmgrTyped' /\ TableInv' /\ live' = live /\ Grows
      /\ current \in live' \ invalid'
  BY ProcessTable
<1>2. /\ UNCHANGED <<stuck, cev, peer, inbox, wire>>
      /\ pc = "process"
      /\ read_buffer' = Tail(read_buffer)
      /\ IF Tail(read_buffer) = <<>>
           THEN pc' = "dispatch" /\ current' = NULL
           ELSE UNCHANGED <<pc, current>>
      /\ \/ UNCHANGED writeVars
         \/ /\ d # NULL
            /\ queue' = [queue EXCEPT ![d] = Append(@, p)]
            /\ register_write(d)
  BY DEF ProcessPacket, send_data_to_client, peerVars
<1>3. ConnTyped /\ LoopTyped
  BY Typed DEF V4Inv
<1>4. d \in Clients \cup {NULL}
  BY <1>1, PacketFacts DEF CmgrTyped
<1> HIDE DEF p, d
<1>5. /\ queue' \in [Clients -> Seq(Packets)]
      /\ epoll' \in [Clients -> SUBSET {"IN", "OUT"}]
      /\ write_registered' \subseteq Clients
      /\ \A c \in Clients : epoll[c] = {} <=> epoll'[c] = {}
      /\ \A c \in Clients : ConnInv(c)'
  <2>1. CASE UNCHANGED writeVars
    <3>1. UNCHANGED <<queue, epoll, write_registered>>
      BY <2>1 DEF writeVars
    <3>2. ASSUME NEW c \in Clients PROVE ConnInv(c)'
      BY <1>1, <1>2, <3>1, ConnKept
    <3> QED
      BY <1>3, <3>1, <3>2 DEF ConnTyped
  <2>2. CASE /\ d # NULL
             /\ queue' = [queue EXCEPT ![d] = Append(@, p)]
             /\ register_write(d)
    <3>1. d \in Clients
      BY <1>4, <2>2
    <3>2. queue \in [Clients -> Seq(Packets)]
      BY <1>3 DEF ConnTyped
    <3>3. Append(queue[d], p) \in Seq(Packets)
      BY <1>1, <3>1, <3>2, SeqFacts
    <3>4. queue' = [queue EXCEPT ![d] = Append(queue[d], p)]
      BY <2>2
    <3>5. queue' \in [Clients -> Seq(Packets)]
      BY <3>2, <3>3, <3>4
    <3>6. /\ epoll' \in [Clients -> SUBSET {"IN", "OUT"}]
          /\ write_registered' \subseteq Clients
          /\ \A c \in Clients : epoll[c] = {} <=> epoll'[c] = {}
      BY <1>3, <2>2, <3>1, InterestKept
    <3>7. id'[d] # UNIDENTIFIED_CLIENT
      <4>1. p.dst \in AllIds /\ client_array'[p.dst] = d
        BY <1>1, PacketFacts DEF d
      <4> QED
        BY <1>1, <3>1, <4>1 DEF TableInv
    <3>8. ASSUME NEW c \in Clients PROVE ConnInv(c)'
      <4>1. ConnInv(c)
        BY DEF V4Inv
      <4>2. c # d => queue'[c] = queue[c]
        BY <3>2, <3>4
      <4>3. queue'[c] # <<>> \/ wire'[c] # <<>> => id'[c] # UNIDENTIFIED_CLIENT
        BY <1>1, <1>2, <3>7, <4>1, <4>2 DEF ConnInv, Grows
      <4> QED
        BY <1>1, <1>2, <3>6, <4>1, <4>3 DEF ConnInv
    <3> QED
      BY <3>5, <3>6, <3>8
  <2> QED
    BY <1>2, <2>1, <2>2
<1>6. /\ read_buffer' \in Seq(Packets)
      /\ current' \in Clients \cup {NULL}
      /\ pc' \in {"process", "dispatch"}
      /\ AtWork'
  BY <1>1, <1>2, <1>3, HeadTailProperties DEF LoopTyped, AtWork
<1>7. ConnTyped' /\ LoopTyped'
  BY <1>2, <1>3, <1>5, <1>6 DEF ConnTyped, LoopTyped
<1>8. TypeOK'
  BY <1>1, <1>7 DEF TypeOK, CmgrTyped, ConnTyped, LoopTyped
<1>9. BatchSound'
  BY <1>1, <1>2, <1>5, BatchKept
<1> QED
  BY <1>1, <1>5, <1>6, <1>8, <1>9 DEF V4Inv

\* The loop gives up on a client's buffer.
LEMMA StopPreserves ==
  ASSUME V4Inv, ProcessStops
  PROVE  V4Inv'
<1>1. /\ UNCHANGED cmgrVars
      /\ UNCHANGED <<write_registered, queue, epoll, cev, peer, inbox, wire>>
      /\ stuck' = stuck \cup {current} /\ read_buffer' = <<>> /\ current' = NULL
      /\ pc = "process" /\ pc' = "dispatch"
  BY DEF ProcessStops, writeVars, peerVars
<1>2. current \in Clients
  BY <1>1 DEF V4Inv, AtWork, TypeOK
<1>3. CmgrTyped' /\ TableInv' /\ Grows
  BY <1>1, TableKept DEF Grows
<1>4. ConnTyped /\ LoopTyped
  BY Typed DEF V4Inv
<1>5. ConnTyped' /\ LoopTyped'
  BY <1>1, <1>2, <1>4, EmptySeq DEF ConnTyped, LoopTyped
<1>6. TypeOK'
  BY <1>3, <1>5 DEF TypeOK, CmgrTyped, ConnTyped, LoopTyped
<1>7. BatchSound' /\ AtWork'
  BY <1>1, <1>3, BatchKept DEF AtWork
<1>8. ASSUME NEW c \in Clients PROVE ConnInv(c)'
  BY <1>1, <1>3, ConnKept
<1> QED
  BY <1>3, <1>6, <1>7, <1>8 DEF V4Inv

\* write() moves what there is room for.
LEMMA Moved ==
  ASSUME V4Inv, NEW c \in Clients
  PROVE  LET room == SndBuf - Len(wire[c])
             n    == IF Len(queue[c]) <= room THEN Len(queue[c]) ELSE room
         IN  n \in 0 .. Len(queue[c]) /\ Len(wire[c]) + n <= SndBuf
<1> DEFINE w == Len(wire[c])
           q == Len(queue[c])
<1>1. w \in Nat /\ q \in Nat /\ w <= SndBuf /\ SndBuf \in Nat
  BY PacketFacts, LenProperties DEF V4Inv, TypeOK, ConnInv
<1> HIDE DEF w, q
<1>2. LET n == IF q <= SndBuf - w THEN q ELSE SndBuf - w
      IN  n \in 0 .. q /\ w + n <= SndBuf
  BY <1>1
<1> QED
  BY <1>2 DEF w, q

LEMMA WritePreserves ==
  ASSUME V4Inv, NEW e \in cev, WriteSome(e)
  PROVE  V4Inv'
<1> DEFINE c == e.ptr
           room == SndBuf - Len(wire[c])
           n    == IF Len(queue[c]) <= room THEN Len(queue[c]) ELSE room
           w == wire[c] \o SubSeq(queue[c], 1, n)
           q == SubSeq(queue[c], n + 1, Len(queue[c]))
<1>1. /\ UNCHANGED cmgrVars
      /\ UNCHANGED <<write_registered, epoll, current, read_buffer, stuck, pc, peer, inbox>>
      /\ wire' = [wire EXCEPT ![c] = w]
      /\ queue' = [queue EXCEPT ![c] = q]
      /\ c \in Clients /\ queue[c] # <<>>
      /\ pc = "dispatch" /\ cev' \subseteq cev
  BY EventClient DEF WriteSome, WriteEvent, Dispatch, readVars
<1>2. n \in 0 .. Len(queue[c]) /\ Len(wire[c]) + n <= SndBuf
  BY <1>1, Moved
<1>3. ConnTyped /\ LoopTyped
  BY Typed DEF V4Inv
<1>4. wire[c] \in Seq(Packets) /\ queue[c] \in Seq(Packets)
  BY <1>1, <1>3 DEF ConnTyped
<1> HIDE DEF n, c
<1>5. /\ w \in Seq(Packets) /\ q \in Seq(Packets)
      /\ Len(w) <= SndBuf
  <2>1. /\ SubSeq(queue[c], 1, n) \in Seq(Packets) /\ q \in Seq(Packets)
        /\ Len(SubSeq(queue[c], 1, n)) = n
    BY <1>2, <1>4, SeqFacts, SubSeqLength
  <2>2. w \in Seq(Packets) /\ Len(w) = Len(wire[c]) + n
    BY <1>4, <2>1, ConcatProperties
  <2> QED
    BY <1>2, <2>1, <2>2
<1> HIDE DEF w, q
<1>6. CmgrTyped' /\ TableInv' /\ Grows /\ live' = live /\ id' = id
  BY <1>1, TableKept DEF Grows
<1>7. /\ wire'[c] = w /\ queue'[c] = q
      /\ \A d \in Clients : d # c => wire'[d] = wire[d] /\ queue'[d] = queue[d]
  BY <1>1, <1>3 DEF ConnTyped
<1>8. ConnInv(c)'
  BY <1>1, <1>5, <1>6, <1>7 DEF V4Inv, ConnInv
<1>9. ASSUME NEW d \in Clients, d # c PROVE ConnInv(d)'
  BY <1>1, <1>6, <1>7, <1>9, ConnKept
<1>10. ConnTyped' /\ LoopTyped'
  BY <1>1, <1>3, <1>5 DEF ConnTyped, LoopTyped
<1>11. TypeOK'
  BY <1>6, <1>10 DEF TypeOK, CmgrTyped, ConnTyped, LoopTyped
<1>12. BatchSound' /\ AtWork'
  BY <1>1, <1>6, BatchKept DEF AtWork
<1> QED
  BY <1>6, <1>8, <1>9, <1>11, <1>12 DEF V4Inv

LEMMA PollPreserves ==
  ASSUME V4Inv, PollWait
  PROVE  V4Inv'
<1>1. /\ UNCHANGED cmgrVars
      /\ UNCHANGED <<write_registered, queue, epoll, current, read_buffer, stuck,
                     peer, inbox, wire>>
      /\ cev' \subseteq Ready /\ pc' = "dispatch"
  BY DEF PollWait, writeVars, readVars, peerVars
<1>2. ConnTyped /\ LoopTyped
  BY Typed DEF V4Inv
<1>3. ASSUME NEW c \in Clients, EventsOf(c) # {}
      PROVE  /\ [ptr |-> c, events |-> EventsOf(c)] \in Event
             /\ c \in live /\ epoll[c] # {}
  <2>1. EventsOf(c) \subseteq epoll[c] /\ epoll[c] \subseteq {"IN", "OUT"}
    BY <1>2 DEF EventsOf, ConnTyped
  <2> QED
    BY <1>3, <2>1 DEF V4Inv, ConnInv, Event
<1>4. ASSUME NEW e \in Ready
      PROVE  e \in Event /\ (e.ptr # NULL => e.ptr \in live /\ epoll[e.ptr] # {})
  <2>1. CASE e = [ptr |-> NULL, events |-> {"IN"}]
    BY <2>1 DEF Event
  <2>2. ASSUME NEW c \in Clients, EventsOf(c) # {}, e = [ptr |-> c, events |-> EventsOf(c)]
        PROVE  e \in Event /\ e.ptr \in live /\ epoll[e.ptr] # {}
    BY <1>3, <2>2
  <2> QED
    BY <2>1, <2>2 DEF Ready
<1>5. CmgrTyped' /\ TableInv' /\ Grows /\ live' = live
  BY <1>1, TableKept DEF Grows
<1>6. ConnTyped' /\ LoopTyped'
  BY <1>1, <1>2, <1>4 DEF ConnTyped, LoopTyped
<1>7. TypeOK'
  BY <1>5, <1>6 DEF TypeOK, CmgrTyped, ConnTyped, LoopTyped
<1>8. BatchSound' /\ AtWork'
  BY <1>1, <1>4, <1>5 DEF BatchSound, AtWork
<1>9. ASSUME NEW c \in Clients PROVE ConnInv(c)'
  BY <1>1, <1>5, ConnKept
<1> QED
  BY <1>5, <1>7, <1>8, <1>9 DEF V4Inv

\* What the end of a batch leaves, as sets and functions.
LEMMA Ended ==
  ASSUME V4Inv, EndOfBatch
  PROVE  /\ CmgrTyped' /\ TableInv'
         /\ live' = live \ invalid /\ invalid' = {}
         /\ id' = [c \in Clients |-> IF c \in invalid THEN UNIDENTIFIED_CLIENT ELSE id[c]]
         /\ client_array' = client_array
         /\ write_registered' = write_registered \ invalid
         /\ queue' = [c \in Clients |-> IF c \in invalid THEN <<>> ELSE queue[c]]
         /\ stuck' = stuck \ invalid
         /\ epoll' = [c \in Clients |-> IF c \in invalid THEN {} ELSE epoll[c]]
         /\ peer' = [c \in Clients |-> IF c \in invalid THEN "none" ELSE peer[c]]
         /\ inbox' = [c \in Clients |-> IF c \in invalid THEN <<>> ELSE inbox[c]]
         /\ wire' = [c \in Clients |-> IF c \in invalid THEN <<>> ELSE wire[c]]
<1>1. free_invalid_clients /\ CmgrTyped /\ TableInv /\ InList = invalid
  BY CmgrFacts DEF EndOfBatch, TableInv
<1> QED
  BY <1>1, FreeTable DEF free_invalid_clients, Without

LEMMA EndPreserves ==
  ASSUME V4Inv, EndOfBatch
  PROVE  V4Inv'
<1>1. ConnTyped /\ LoopTyped
  BY Typed DEF V4Inv
<1>2. /\ pc' = "wait" /\ cev' = cev /\ cev = {}
      /\ UNCHANGED <<current, read_buffer>>
  BY DEF EndOfBatch
<1>3. <<>> \in Seq(Packets) /\ Len(<<>>) = 0
  BY EmptySeq
<1>4. ConnTyped'
  <2>1. /\ queue' \in [Clients -> Seq(Packets)] /\ inbox' \in [Clients -> Seq(Packets)]
        /\ wire' \in [Clients -> Seq(Packets)]
    <3>1. \A f \in [Clients -> Seq(Packets)] :
            [c \in Clients |-> IF c \in invalid THEN <<>> ELSE f[c]] \in [Clients -> Seq(Packets)]
      BY <1>3
    <3>2. /\ queue \in [Clients -> Seq(Packets)] /\ inbox \in [Clients -> Seq(Packets)]
          /\ wire \in [Clients -> Seq(Packets)]
      BY <1>1 DEF ConnTyped
    <3> QED
      BY <3>1, <3>2, Ended, ZenonT(40)
  <2>2. epoll' \in [Clients -> SUBSET {"IN", "OUT"}]
    BY <1>1, Ended DEF ConnTyped
  <2>3. peer' \in [Clients -> {"none", "open", "closed", "reset"}]
    BY <1>1, Ended DEF ConnTyped
  <2>4. write_registered' \subseteq Clients /\ stuck' \subseteq Clients
    BY <1>1, Ended DEF ConnTyped
  <2> QED
    BY <2>1, <2>2, <2>3, <2>4 DEF ConnTyped
<1>5. TypeOK'
  BY <1>1, <1>2, <1>4, Ended DEF TypeOK, CmgrTyped, ConnTyped, LoopTyped
<1>6. BatchSound' /\ AtWork'
  BY <1>2 DEF BatchSound, AtWork
<1>7. ASSUME NEW c \in Clients PROVE ConnInv(c)'
  <2>1. ConnInv(c)
    BY DEF V4Inv
  <2>2. CASE c \in invalid
    BY <1>3, <2>2, Ended, PacketFacts DEF ConnInv
  <2>3. CASE c \notin invalid
    <3>1. /\ queue'[c] = queue[c] /\ wire'[c] = wire[c] /\ epoll'[c] = epoll[c]
          /\ id'[c] = id[c] /\ (c \in live' <=> c \in live)
      BY <2>3, Ended
    <3> QED
      BY <2>1, <3>1 DEF ConnInv
  <2> QED
    BY <2>2, <2>3
<1> QED
  BY <1>5, <1>6, <1>7, Ended DEF V4Inv

LEMMA PeerPreserves ==
  ASSUME V4Inv, NEW c \in Clients, Peer(c)
  PROVE  V4Inv'
<1>1. /\ UNCHANGED cmgrVars
      /\ UNCHANGED <<write_registered, queue, epoll, current, read_buffer, stuck, cev, pc>>
  BY DEF Peer, PeerConnect, PeerSend, PeerRead, PeerGoes, serverVars, writeVars, readVars
<1>2. ConnTyped /\ LoopTyped
  BY Typed DEF V4Inv
<1>3. CmgrTyped' /\ TableInv' /\ Grows /\ live' = live /\ id' = id /\ invalid' = invalid
  BY <1>1, TableKept DEF Grows
<1>4. /\ peer' \in [Clients -> {"none", "open", "closed", "reset"}]
      /\ inbox' \in [Clients -> Seq(Packets)]
  <2>1. CASE PeerSend(c)
    <3>1. PICK p \in Packets : inbox' = [inbox EXCEPT ![c] = Append(@, p)]
      BY <2>1 DEF PeerSend
    <3>2. Append(inbox[c], p) \in Seq(Packets)
      BY <1>2, SeqFacts DEF ConnTyped
    <3> QED
      BY <1>2, <2>1, <3>1, <3>2 DEF PeerSend, ConnTyped
  <2>2. CASE ~PeerSend(c)
    BY <1>2, <2>2 DEF Peer, PeerConnect, PeerRead, PeerGoes, ConnTyped
  <2> QED
    BY <2>1, <2>2
<1>5. /\ wire' \in [Clients -> Seq(Packets)]
      /\ \A d \in Clients : ConnInv(d)'
  <2>1. CASE PeerRead(c)
    <3>1. wire[c] # <<>> /\ wire' = [wire EXCEPT ![c] = Tail(wire[c])]
      BY <2>1 DEF PeerRead
    <3>2. wire[c] \in Seq(Packets) /\ wire \in [Clients -> Seq(Packets)]
      BY <1>2 DEF ConnTyped
    <3>3. /\ Tail(wire[c]) \in Seq(Packets)
          /\ Len(Tail(wire[c])) = Len(wire[c]) - 1 /\ Len(wire[c]) \in Nat
      BY <3>1, <3>2, HeadTailProperties, LenProperties
    <3>4. /\ wire'[c] = Tail(wire[c])
          /\ \A d \in Clients : d # c => wire'[d] = wire[d]
      BY <3>1, <3>2
    <3>5. ConnInv(c)'
      <4>1. ConnInv(c) /\ SndBuf \in Nat
        BY PacketFacts DEF V4Inv
      <4>2. Len(wire'[c]) <= SndBuf
        BY <3>3, <3>4, <4>1 DEF ConnInv
      <4> QED
        BY <1>1, <1>3, <3>1, <4>1, <4>2 DEF ConnInv
    <3>6. ASSUME NEW d \in Clients, d # c PROVE ConnInv(d)'
      BY <1>1, <1>3, <3>4, <3>6, ConnKept
    <3> QED
      BY <3>1, <3>2, <3>3, <3>5, <3>6
  <2>2. CASE ~PeerRead(c)
    <3>1. wire' = wire
      BY <2>2 DEF Peer, PeerConnect, PeerSend, PeerGoes
    <3>2. ASSUME NEW d \in Clients PROVE ConnInv(d)'
      BY <1>1, <1>3, <3>1, ConnKept
    <3> QED
      BY <1>2, <3>1, <3>2 DEF ConnTyped
  <2> QED
    BY <2>1, <2>2
<1>6. ConnTyped' /\ LoopTyped'
  BY <1>1, <1>2, <1>4, <1>5 DEF ConnTyped, LoopTyped
<1>7. TypeOK'
  BY <1>3, <1>6 DEF TypeOK, CmgrTyped, ConnTyped, LoopTyped
<1>8. BatchSound' /\ AtWork'
  BY <1>1, <1>3, BatchKept DEF AtWork, V4Inv
<1> QED
  BY <1>3, <1>5, <1>7, <1>8 DEF V4Inv

LEMMA V4InitInv == Init => V4Inv
<1> SUFFICES ASSUME Init PROVE V4Inv
  OBVIOUS
<1>1. /\ \A T : <<>> \in Seq(T)
      /\ Len(<<>>) = 0
  BY EmptySeq
<1>2. TypeOK
  BY <1>1 DEF Init, TypeOK, AllIds
<1>3. InList = {} /\ Single(invalid_client_list)
  BY <1>1 DEF Init, InList, Single
<1>4. TableInv
  BY <1>3, PacketFacts DEF Init, TableInv
<1>5. BatchSound /\ AtWork
  BY DEF Init, BatchSound, AtWork
<1>6. ASSUME NEW c \in Clients PROVE ConnInv(c)
  BY <1>1, PacketFacts DEF Init, ConnInv
<1> QED
  BY <1>2, <1>4, <1>5, <1>6 DEF V4Inv

LEMMA V4StepInv ==
  ASSUME V4Inv, [Next]_vars
  PROVE  V4Inv'
<1>1. ASSUME NEW e \in cev, handle_event(e) PROVE V4Inv'
  BY <1>1, AcceptPreserves, QuietPreserves, ReadPreserves, FailPreserves, WritePreserves
     DEF handle_event
<1>2. CASE do_poll
  BY <1>1, <1>2, PollPreserves, ProcessPreserves, StopPreserves, EndPreserves DEF do_poll
<1>3. ASSUME NEW c \in Clients, Peer(c) PROVE V4Inv'
  BY <1>3, PeerPreserves
<1>4. CASE UNCHANGED vars
  <2>1. /\ UNCHANGED cmgrVars
        /\ UNCHANGED <<write_registered, queue, epoll, current, read_buffer, stuck, cev, pc,
                       peer, inbox, wire>>
    BY <1>4 DEF vars, serverVars, writeVars, readVars, peerVars
  <2>2. CmgrTyped' /\ TableInv' /\ Grows /\ live' = live /\ invalid' = invalid
    BY <2>1, TableKept DEF Grows
  <2>3. TypeOK'
    BY <2>1, <2>2, Typed DEF V4Inv, TypeOK, CmgrTyped
  <2>4. BatchSound' /\ AtWork'
    BY <2>1, <2>2 DEF V4Inv, BatchSound, AtWork
  <2>5. ASSUME NEW c \in Clients PROVE ConnInv(c)'
    BY <2>1, <2>2, ConnKept
  <2> QED
    BY <2>2, <2>3, <2>4, <2>5 DEF V4Inv
<1> QED
  BY <1>2, <1>3, <1>4 DEF Next

\* The inductive invariant holds in every state.
THEOREM V4Invariance == Spec => []V4Inv
<1> QED
  BY V4InitInv, V4StepInv, PTL DEF Spec

\* No pointer of a batch, and not the one process_packets works on, is to a
\* freed client, and none that is to be freed is still in the table.
THEOREM V4Pointers == Spec => []Inv
<1>1. V4Inv => Inv
  <2> SUFFICES ASSUME V4Inv, NEW c \in InList
               PROVE  c \in live /\ client_array[id[c]] # c
    BY DEF V4Inv, Inv, NoDanglingPointer, BatchSound, AtWork
  <2>1. c \in invalid /\ c \in live /\ c \in Clients
    BY DEF V4Inv, TableInv, TypeOK
  <2>2. id[c] \in AllIds
    BY <2>1 DEF V4Inv, TypeOK
  <2> QED
    BY <2>1, <2>2 DEF V4Inv, TableInv
<1> QED
  BY <1>1, V4Invariance, PTL

-----------------------------------------------------------------------------
(* v4 uses the table and the list as ClientMgr would.                       *)

\* How many times each client is on the list.
Tally ==
  [c \in Clients |->
     Cardinality({k \in 1 .. Len(invalid_client_list) : invalid_client_list[k] = c})]

Managed == {c \in Clients : id[c] # UNIDENTIFIED_CLIENT}

\* What ClientMgr is given to see.
View ==
  [live |-> live, id |-> id, invalid |-> invalid, managed |-> Managed,
   client_array |-> client_array, listed |-> Tally]

LEMMA TallyOnce ==
  ASSUME CmgrTyped, TableInv
  PROVE  Tally = [c \in Clients |-> IF c \in invalid THEN 1 ELSE 0]
<1> SUFFICES ASSUME NEW c \in Clients
             PROVE  Cardinality({k \in 1 .. Len(invalid_client_list) :
                                   invalid_client_list[k] = c})
                      = IF c \in invalid THEN 1 ELSE 0
  BY DEF Tally
<1> DEFINE q == invalid_client_list
           K == {k \in 1 .. Len(q) : q[k] = c}
<1>1. Single(q) /\ (c \in invalid <=> \E k \in 1 .. Len(q) : q[k] = c)
  BY DEF TableInv, InList
<1> HIDE DEF q
<1>2. CASE c \notin invalid
  <2>1. K = {}
    BY <1>1, <1>2
  <2> HIDE DEF K
  <2>2. Cardinality(K) = 0
    BY <2>1, FS_EmptySet
  <2> QED
    BY <1>2, <2>2 DEF K, q
<1>3. CASE c \in invalid
  <2>1. PICK k \in 1 .. Len(q) : q[k] = c
    BY <1>1, <1>3
  <2>2. K = {k}
    BY <1>1, <2>1 DEF Single
  <2> HIDE DEF K
  <2>3. Cardinality(K) = 1
    BY <2>2, FS_Singleton
  <2> QED
    BY <1>3, <2>3 DEF K, q
<1> QED
  BY <1>2, <1>3

\* The next view.
LEMMA TallyNext ==
  ASSUME CmgrTyped', TableInv'
  PROVE  /\ View' = [live |-> live', id |-> id', invalid |-> invalid', managed |-> Managed',
                     client_array |-> client_array', listed |-> Tally']
         /\ Tally' = [c \in Clients |-> IF c \in invalid' THEN 1 ELSE 0]
<1>1. (CmgrTyped /\ TableInv =>
         Tally = [c \in Clients |-> IF c \in invalid THEN 1 ELSE 0])'
  BY TallyOnce, PTL
<1> QED
  BY <1>1 DEF View

\* The view is a state of ClientMgr, and such a state is its six fields.
LEMMA ViewTyped ==
  ASSUME CmgrTyped, TableInv
  PROVE  View \in C!CMState
<1>1. Tally \in [Clients -> Nat]
  BY TallyOnce
<1> QED
  BY <1>1 DEF View, CmgrTyped, Managed, C!CMState, C!AllIds, AllIds

LEMMA SameFields ==
  ASSUME NEW m \in C!CMState, NEW n \in C!CMState,
         m.live = n.live, m.id = n.id, m.invalid = n.invalid, m.managed = n.managed,
         m.client_array = n.client_array, m.listed = n.listed
  PROVE  m = n
  BY DEF C!CMState

LEMMA NewClientFields ==
  ASSUME NEW m \in C!CMState, NEW c \in Clients
  PROVE  LET n == C!NewClient(m, c)
         IN  /\ n \in C!CMState
             /\ n.live = m.live \cup {c} /\ n.id = [m.id EXCEPT ![c] = UNIDENTIFIED_CLIENT]
             /\ n.invalid = m.invalid \ {c} /\ n.managed = m.managed \ {c}
             /\ n.client_array = m.client_array /\ n.listed = m.listed
<1> DEFINE n == C!NewClient(m, c)
<1>1. n \in C!CMState
  BY DEF C!CMState, C!NewClient, C!AllIds
<1>2. /\ n.live = m.live \cup {c} /\ n.id = [m.id EXCEPT ![c] = UNIDENTIFIED_CLIENT]
      /\ n.invalid = m.invalid \ {c} /\ n.managed = m.managed \ {c}
      /\ n.client_array = m.client_array /\ n.listed = m.listed
  BY DEF C!CMState, C!NewClient
<1> QED
  BY <1>1, <1>2

LEMMA FreeFields ==
  ASSUME NEW m \in C!CMState
  PROVE  LET n == C!free_invalid_clients(m)
             S == C!Listed(m)
         IN  /\ n \in C!CMState
             /\ n.live = m.live \ S
             /\ n.id = [c \in Clients |-> IF c \in S THEN UNIDENTIFIED_CLIENT ELSE m.id[c]]
             /\ n.invalid = m.invalid \ S /\ n.managed = m.managed \ S
             /\ n.client_array = m.client_array
             /\ n.listed = [c \in Clients |-> 0]
<1> DEFINE n == C!free_invalid_clients(m)
           S == C!Listed(m)
<1>1. S \subseteq Clients
  BY DEF C!Listed
<1> HIDE DEF S
<1>2. n = [m EXCEPT !.live    = @ \ S,
                    !.id      = [c \in Clients |->
                                   IF c \in S THEN UNIDENTIFIED_CLIENT ELSE @[c]],
                    !.invalid = @ \ S,
                    !.managed = @ \ S,
                    !.listed  = [c \in Clients |-> 0]]
  BY DEF C!free_invalid_clients, S
<1> HIDE DEF n
<1>3. /\ n.live = m.live \ S
      /\ n.id = [c \in Clients |-> IF c \in S THEN UNIDENTIFIED_CLIENT ELSE m.id[c]]
      /\ n.invalid = m.invalid \ S /\ n.managed = m.managed \ S
      /\ n.client_array = m.client_array
      /\ n.listed = [c \in Clients |-> 0]
  BY <1>2 DEF C!CMState
<1>4. n \in C!CMState
  BY <1>1, <1>2 DEF C!CMState, C!AllIds
<1> QED
  BY <1>3, <1>4 DEF n, S

Entered(m, c, i) == [m EXCEPT !.client_array[i] = c, !.managed = @ \cup {c}]

LEMMA EnteredFields ==
  ASSUME NEW m \in C!CMState, NEW c \in Clients, NEW i \in C!AllIds
  PROVE  LET n == Entered(m, c, i)
         IN  /\ n \in C!CMState
             /\ n.live = m.live /\ n.id = m.id /\ n.invalid = m.invalid
             /\ n.managed = m.managed \cup {c}
             /\ n.client_array = [m.client_array EXCEPT ![i] = c]
             /\ n.listed = m.listed
  BY DEF C!CMState, Entered

\* An allocation is a Connect: what ClientMgr's constructor sets is so already.
LEMMA AcceptConnects ==
  ASSUME V4Inv, V4Inv', NEW e \in cev, Accept(e)
  PROVE  \E c \in Clients : C!Connect(c)
<1>1. PICK c \in Clients \ live : live' = live \cup {c}
  BY DEF Accept, Backlog
<1>2. UNCHANGED <<id, invalid, client_array, invalid_client_list>>
  BY DEF Accept
<1>3. CmgrTyped /\ TableInv /\ CmgrTyped' /\ TableInv'
  BY CmgrFacts DEF V4Inv, TypeOK, CmgrTyped
<1>4. c \notin invalid /\ id[c] = UNIDENTIFIED_CLIENT
  BY <1>3 DEF TableInv
<1>5. Tally' = Tally /\ Managed' = Managed
  BY <1>2 DEF Tally, Managed
<1>6. View' = [live |-> live', id |-> id, invalid |-> invalid, managed |-> Managed,
               client_array |-> client_array, listed |-> Tally]
  BY <1>2, <1>5 DEF View
<1> DEFINE n == C!NewClient(View, c)
           v == View'
<1>7. /\ n \in C!CMState
      /\ n.live = live \cup {c} /\ n.id = [id EXCEPT ![c] = UNIDENTIFIED_CLIENT]
      /\ n.invalid = invalid \ {c} /\ n.managed = Managed \ {c}
      /\ n.client_array = client_array /\ n.listed = Tally
  <2> DEFINE m == View
  <2>1. /\ m \in C!CMState
        /\ m.live = live /\ m.id = id /\ m.invalid = invalid /\ m.managed = Managed
        /\ m.client_array = client_array /\ m.listed = Tally
    BY <1>3, ViewTyped DEF View
  <2> HIDE DEF m
  <2>2. LET k == C!NewClient(m, c)
        IN  /\ k \in C!CMState
            /\ k.live = m.live \cup {c} /\ k.id = [m.id EXCEPT ![c] = UNIDENTIFIED_CLIENT]
            /\ k.invalid = m.invalid \ {c} /\ k.managed = m.managed \ {c}
            /\ k.client_array = m.client_array /\ k.listed = m.listed
    BY <2>1, NewClientFields
  <2> QED
    BY <2>1, <2>2 DEF m
<1>8. /\ [id EXCEPT ![c] = UNIDENTIFIED_CLIENT] = id
      /\ invalid \ {c} = invalid /\ Managed \ {c} = Managed
  BY <1>3, <1>4 DEF CmgrTyped, Managed
<1>11. /\ v \in C!CMState
       /\ v.live = live \cup {c} /\ v.id = id /\ v.invalid = invalid /\ v.managed = Managed
       /\ v.client_array = client_array /\ v.listed = Tally
  <2>1. (CmgrTyped /\ TableInv => View \in C!CMState)'
    BY ViewTyped, PTL
  <2>2. v \in C!CMState
    BY <1>3, <2>1 DEF C!CMState
  <2> QED
    BY <1>1, <1>6, <2>2
<1>9. View' = C!NewClient(View, c)
  <2> HIDE DEF n, v
  <2>1. v = n
    BY <1>7, <1>8, <1>11, SameFields, ZenonT(40)
  <2> QED
    BY <2>1 DEF n, v
<1>10. C!Connect(c)
  BY <1>1, <1>9 DEF C!Connect, View, Tally, Managed
<1> QED
  BY <1>10

\* A failure is a Reject.
LEMMA FailRejects ==
  ASSUME V4Inv, V4Inv', NEW e \in cev, ReadFails(e) \/ WriteFails(e)
  PROVE  \E c \in Clients, i \in AllIds : C!Reject(c, i)
<1> DEFINE c == e.ptr
<1>1. c \in Clients /\ c \in live \ invalid /\ mark_client_as_invalid(c)
  BY EventClient DEF ReadFails, WriteFails, Reads, ReadEvent, WriteEvent, Stale
<1> HIDE DEF c
<1>2. CmgrTyped /\ TableInv /\ CmgrTyped' /\ TableInv'
  BY CmgrFacts DEF V4Inv, TypeOK, CmgrTyped
<1>3. /\ live' = live /\ id' = id /\ invalid' = invalid \cup {c}
      /\ client_array' = Unlist(c)
  BY <1>1 DEF mark_client_as_invalid
<1>4. /\ Tally = [d \in Clients |-> IF d \in invalid THEN 1 ELSE 0]
      /\ Tally' = [d \in Clients |-> IF d \in invalid' THEN 1 ELSE 0]
  BY <1>2, TallyOnce, TallyNext
<1>5. Tally' = [Tally EXCEPT ![c] = @ + 1]
  BY <1>1, <1>3, <1>4
<1>6. View' = [live |-> live, id |-> id, invalid |-> invalid \cup {c}, managed |-> Managed,
               client_array |-> Unlist(c), listed |-> [Tally EXCEPT ![c] = @ + 1]]
  BY <1>3, <1>5 DEF View, Managed
<1>7. PICK i \in AllIds : i = id[c]
  BY <1>1, <1>2 DEF CmgrTyped
<1> DEFINE s == C!SetId(View, c, i)
<1>12. s = View
  BY <1>1, <1>2, <1>7 DEF CmgrTyped, C!SetId, View
<1>8. C!Unlist(View, c) = Unlist(c)
  BY DEF C!Unlist, C!AllIds, AllIds, Unlist, View
<1>9. C!mark_client_as_invalid(View, c) =
        [live |-> live, id |-> id, invalid |-> invalid \cup {c}, managed |-> Managed,
         client_array |-> C!Unlist(View, c), listed |-> [Tally EXCEPT ![c] = @ + 1]]
  BY <1>1, PacketFacts DEF C!mark_client_as_invalid, View
<1>10. View' = C!mark_client_as_invalid(s, c)
  BY <1>6, <1>8, <1>9, <1>12
<1>11. C!Reject(c, i)
  BY <1>1, <1>7, <1>10 DEF C!Reject, View, Tally, Managed
<1> QED
  BY <1>1, <1>7, <1>11

\* The packet that names its client is an Admit; a later one changes nothing.
LEMMA ProcessAdmits ==
  ASSUME V4Inv, V4Inv', ProcessPacket
  PROVE  (\E c \in Clients, i \in Ids : C!Admit(c, i)) \/ View' = View
<1>1. CASE UNCHANGED cmgrVars
  BY <1>1 DEF cmgrVars, View, Tally, Managed
<1>2. ASSUME NEW c \in Clients, c \in live \ invalid, id[c] = UNIDENTIFIED_CLIENT,
             NEW i \in Ids, add_new_client_to_array(c, i)
      PROVE  C!Admit(c, i)
  <2> DEFINE p == client_array[i]
             s == C!SetId(View, c, i)
  <2>1. CmgrTyped /\ TableInv /\ CmgrTyped' /\ TableInv'
    BY CmgrFacts DEF V4Inv, TypeOK, CmgrTyped
  <2>2. /\ live' = live /\ id' = [id EXCEPT ![c] = i]
        /\ client_array' = [client_array EXCEPT ![i] = c]
        /\ p # c
        /\ p # NULL => p \in live \ invalid /\ id[p] = i
        /\ invalid' = IF p = NULL THEN invalid ELSE invalid \cup {p}
    BY <1>2, <2>1, AddTable
  <2>3. /\ Tally = [d \in Clients |-> IF d \in invalid THEN 1 ELSE 0]
        /\ Tally' = [d \in Clients |-> IF d \in invalid' THEN 1 ELSE 0]
    BY <2>1, TallyOnce, TallyNext
  <2>4. p \in Clients \cup {NULL} /\ i \in AllIds /\ i # UNIDENTIFIED_CLIENT
    BY <2>1, PacketFacts DEF CmgrTyped, AllIds
  <2>5. s = [live |-> live, id |-> id', invalid |-> invalid, managed |-> Managed,
             client_array |-> client_array, listed |-> Tally]
    BY <2>2 DEF C!SetId, View
  <2>6. /\ s.live = live /\ s.id = id' /\ s.invalid = invalid /\ s.managed = Managed
        /\ s.client_array = client_array /\ s.listed = Tally /\ s.id[c] = i
    BY <1>2, <2>1, <2>2, <2>5 DEF CmgrTyped
  <2>7. c \notin s.managed /\ Managed' = Managed \cup {c}
    <3>1. id \in [Clients -> AllIds]
      BY <2>1 DEF CmgrTyped
    <3> QED
      BY <1>2, <2>2, <2>4, <2>6, <3>1 DEF Managed
  <2> HIDE DEF s, p
  <2> DEFINE k == C!mark_client_as_invalid(s, p)
  <2>8. C!manage(s, c) = [k EXCEPT !.client_array[i] = c, !.managed = @ \cup {c}]
    BY <2>6, <2>7 DEF C!manage, C!find_client_by_id, p
  <2>9. /\ k = [live |-> live, id |-> id', invalid |-> invalid', managed |-> Managed,
                client_array |-> k.client_array, listed |-> Tally']
        /\ [k.client_array EXCEPT ![i] = c] = client_array'
    <3>1. CASE p = NULL
      <4>1. k = s
        BY <3>1 DEF C!mark_client_as_invalid
      <4>2. Tally' = Tally /\ invalid' = invalid
        BY <2>2, <2>3, <3>1
      <4> HIDE DEF k
      <4> QED
        BY <2>2, <2>5, <2>6, <4>1, <4>2
    <3>2. CASE p # NULL
      <4>1. k = [s EXCEPT !.invalid = @ \cup {p}, !.client_array = C!Unlist(s, p),
                          !.listed[p] = @ + 1]
        BY <3>2 DEF C!mark_client_as_invalid
      <4>2. p \in Clients /\ p \notin invalid /\ invalid' = invalid \cup {p}
        BY <2>2, <2>4, <3>2
      <4>3. Tally' = [Tally EXCEPT ![p] = @ + 1]
        BY <2>3, <4>2
      <4>4. k = [live |-> live, id |-> id', invalid |-> invalid \cup {p}, managed |-> Managed,
                 client_array |-> C!Unlist(s, p), listed |-> [Tally EXCEPT ![p] = @ + 1]]
        BY <2>5, <4>1
      <4>5. [C!Unlist(s, p) EXCEPT ![i] = c] = client_array'
        <5>1. id'[p] = i
          BY <2>1, <2>2, <3>2, <4>2 DEF CmgrTyped
        <5>2. C!Unlist(s, p) = [j \in AllIds |-> IF /\ j = i
                                                   /\ j # UNIDENTIFIED_CLIENT
                                                   /\ client_array[j] = p
                                                  THEN NULL ELSE client_array[j]]
          BY <2>6, <5>1 DEF C!Unlist, C!AllIds, AllIds
        <5>3. client_array \in [AllIds -> Clients \cup {NULL}]
          BY <2>1 DEF CmgrTyped
        <5> QED
          BY <2>2, <2>4, <5>2, <5>3
      <4> HIDE DEF k
      <4> QED
        BY <4>2, <4>3, <4>4, <4>5
    <3> QED
      BY <3>1, <3>2
  <2>13. k.client_array \in [AllIds -> Clients \cup {NULL}] /\ Tally' \in [Clients -> Nat]
    <3>1. client_array \in [AllIds -> Clients \cup {NULL}]
      BY <2>1 DEF CmgrTyped
    <3>2. k = s \/ k.client_array = C!Unlist(s, p)
      BY <2>5 DEF C!mark_client_as_invalid
    <3> QED
      BY <2>3, <2>6, <3>1, <3>2 DEF C!Unlist, C!AllIds, AllIds
  <2> HIDE DEF k
  <2>10. View' = [live |-> live, id |-> id', invalid |-> invalid', managed |-> Managed \cup {c},
                  client_array |-> client_array', listed |-> Tally']
    BY <2>2, <2>7 DEF View
  <2>11. View' = C!manage(s, c)
    <3> DEFINE n == Entered(k, c, i)
               v == View'
    <3>1. /\ v \in C!CMState
          /\ v.live = live /\ v.id = id' /\ v.invalid = invalid'
          /\ v.managed = Managed \cup {c}
          /\ v.client_array = client_array' /\ v.listed = Tally'
      <4>1. (CmgrTyped /\ TableInv => View \in C!CMState)'
        BY ViewTyped, PTL
      <4>2. v \in C!CMState
        BY <2>1, <4>1 DEF C!CMState
      <4> QED
        BY <2>10, <4>2
    <3>2. /\ k.live = live /\ k.id = id' /\ k.invalid = invalid'
          /\ k.managed = Managed /\ k.listed = Tally'
          /\ [k.client_array EXCEPT ![i] = c] = client_array'
      BY <2>9
    <3>3. k \in C!CMState
      BY <2>1, <2>4, <2>9, <2>13 DEF C!CMState, C!AllIds, AllIds, CmgrTyped, Managed
    <3> QED
      <4>1. i \in C!AllIds
        BY <2>4 DEF C!AllIds, AllIds
      <4>2. /\ n \in C!CMState
            /\ n.live = k.live /\ n.id = k.id /\ n.invalid = k.invalid
            /\ n.managed = k.managed \cup {c}
            /\ n.client_array = [k.client_array EXCEPT ![i] = c]
            /\ n.listed = k.listed
        BY <3>3, <4>1, EnteredFields
      <4> HIDE DEF n, v
      <4> HIDE DEF k
      <4>3. /\ v.live = n.live /\ v.id = n.id /\ v.invalid = n.invalid
            /\ v.managed = n.managed /\ v.client_array = n.client_array
            /\ v.listed = n.listed
        BY <3>1, <3>2, <4>2
      <4>4. v = n
        BY <3>1, <4>2, <4>3, SameFields
      <4> QED
        BY <2>8, <4>4 DEF n, v, Entered
  <2>12. View' = C!manage(C!SetId(View, c, i), c)
    BY <2>11 DEF s
  <2> QED
    BY <1>2, <2>12 DEF C!Admit, View, Tally, Managed
<1> QED
  BY <1>1, <1>2, ProcessTable

\* The end of a batch is a Reap.
LEMMA EndReaps ==
  ASSUME V4Inv, V4Inv', EndOfBatch
  PROVE  C!Reap
<1>1. CmgrTyped /\ TableInv /\ CmgrTyped' /\ TableInv'
  BY CmgrFacts DEF V4Inv, TypeOK, CmgrTyped
<1>2. /\ live' = live \ invalid /\ invalid' = {} /\ client_array' = client_array
      /\ id' = [c \in Clients |-> IF c \in invalid THEN UNIDENTIFIED_CLIENT ELSE id[c]]
  BY Ended
<1>3. /\ Tally = [d \in Clients |-> IF d \in invalid THEN 1 ELSE 0]
      /\ Tally' = [d \in Clients |-> 0]
  BY <1>1, <1>2, TallyOnce, TallyNext
<1>4. C!Listed(View) = invalid
  <2>1. C!Listed(View) = {c \in Clients : Tally[c] > 0}
    BY DEF C!Listed, View
  <2> QED
    BY <1>1, <1>3, <2>1 DEF CmgrTyped
<1>5. Managed' = Managed \ invalid
  BY <1>1, <1>2 DEF Managed, CmgrTyped
<1>6. View' = [live |-> live \ invalid, id |-> id', invalid |-> {}, managed |-> Managed \ invalid,
               client_array |-> client_array, listed |-> [d \in Clients |-> 0]]
  BY <1>2, <1>3, <1>5 DEF View
<1> DEFINE n == C!free_invalid_clients(View)
           v == View'
<1>7. /\ n \in C!CMState
      /\ n.live = live \ invalid /\ n.id = id'
      /\ n.invalid = {} /\ n.managed = Managed \ invalid
      /\ n.client_array = client_array /\ n.listed = [d \in Clients |-> 0]
  <2> DEFINE m == View
  <2>1. /\ m \in C!CMState /\ C!Listed(m) = invalid
        /\ m.live = live /\ m.id = id /\ m.invalid = invalid /\ m.managed = Managed
        /\ m.client_array = client_array /\ m.listed = Tally
    BY <1>1, <1>4, ViewTyped DEF View
  <2> HIDE DEF m
  <2>2. LET k == C!free_invalid_clients(m)
            S == C!Listed(m)
        IN  /\ k \in C!CMState
            /\ k.live = m.live \ S
            /\ k.id = [c \in Clients |-> IF c \in S THEN UNIDENTIFIED_CLIENT ELSE m.id[c]]
            /\ k.invalid = m.invalid \ S /\ k.managed = m.managed \ S
            /\ k.client_array = m.client_array
            /\ k.listed = [c \in Clients |-> 0]
    BY <2>1, FreeFields
  <2> QED
    BY <1>2, <2>1, <2>2 DEF m
<1>9. /\ v \in C!CMState
      /\ v.live = live \ invalid /\ v.id = id' /\ v.invalid = {}
      /\ v.managed = Managed \ invalid
      /\ v.client_array = client_array /\ v.listed = [d \in Clients |-> 0]
  <2>1. (CmgrTyped /\ TableInv => View \in C!CMState)'
    BY ViewTyped, PTL
  <2>2. v \in C!CMState
    BY <1>1, <2>1 DEF C!CMState
  <2> QED
    BY <1>6, <2>2
<1>8. View' = C!free_invalid_clients(View)
  <2> HIDE DEF n, v
  <2>1. v = n
    BY <1>7, <1>9, SameFields, ZenonT(60)
  <2> QED
    BY <2>1 DEF n, v
<1> QED
  BY <1>8 DEF C!Reap, View, Tally, Managed

\* Every step is one that ClientMgr's contract allows, or none of its business.
LEMMA StepMeetsContract ==
  ASSUME V4Inv, V4Inv', [Next]_vars
  PROVE  C!CMNext \/ View' = View
<1>1. CASE UNCHANGED cmgrVars
  BY <1>1 DEF cmgrVars, View, Tally, Managed
<1>2. ASSUME NEW e \in cev, handle_event(e)
      PROVE  C!CMNext \/ UNCHANGED cmgrVars
  <2>1. CASE Accept(e)
    BY <2>1, AcceptConnects DEF C!CMNext
  <2>2. CASE ReadFails(e) \/ WriteFails(e)
    <3>1. \E c \in Clients, i \in AllIds : C!Reject(c, i)
      BY <2>2, FailRejects
    <3> QED
      BY <3>1 DEF C!CMNext, C!AllIds, AllIds
  <2>3. CASE \/ AcceptFails(e) \/ StaleEvent(e) \/ ReadPackets(e) \/ ReadPartial(e)
             \/ ReadAborts(e) \/ WriteNothing(e) \/ WriteSome(e)
    BY <2>3 DEF AcceptFails, StaleEvent, ReadPackets, ReadPartial, ReadAborts,
                WriteNothing, WriteSome
  <2> QED
    BY <1>2, <2>1, <2>2, <2>3 DEF handle_event, accept_connection
<1>3. CASE ProcessPacket
  BY <1>3, ProcessAdmits DEF C!CMNext
<1>4. CASE EndOfBatch
  BY <1>4, EndReaps DEF C!CMNext
<1>5. CASE PollWait \/ ProcessStops
  BY <1>1, <1>5 DEF PollWait, ProcessStops
<1>6. ASSUME NEW c \in Clients, Peer(c) PROVE UNCHANGED cmgrVars
  BY <1>6 DEF Peer, PeerConnect, PeerSend, PeerRead, PeerGoes, serverVars
<1>7. CASE UNCHANGED vars
  BY <1>1, <1>7 DEF vars, serverVars
<1> QED
  BY <1>1, <1>2, <1>3, <1>4, <1>5, <1>6, <1>7 DEF Next, do_poll

\* v4's table and list are driven only as ClientMgr's contract allows, whatever
\* the order of events, packets and failures (client.c, v6's ClientMgr).
THEOREM V4MeetsContract == Spec => CMSpec
<1>1. Init => C!CMInit
  <2> SUFFICES ASSUME Init PROVE C!CMInit
    OBVIOUS
  <2>1. CmgrTyped /\ TableInv
    BY V4InitInv, CmgrFacts
  <2>2. Tally = [c \in Clients |-> 0] /\ Managed = {}
    BY <2>1, TallyOnce DEF Init, Managed
  <2>3. View = C!CMInitState
    BY <2>2 DEF Init, View, C!CMInitState, C!AllIds, AllIds
  <2> QED
    BY <2>3 DEF C!CMInit, View, Tally, Managed
<1>2. V4Inv /\ V4Inv' /\ [Next]_vars =>
        [C!CMNext]_[live         |-> live,
                    id           |-> id,
                    invalid      |-> invalid,
                    managed      |-> {c \in Clients : id[c] # UNIDENTIFIED_CLIENT},
                    client_array |-> client_array,
                    listed       |-> [c \in Clients |->
                      Cardinality({k \in 1 .. Len(invalid_client_list) :
                                     invalid_client_list[k] = c})]]
  BY StepMeetsContract DEF View, Tally, Managed
<1> QED
  BY <1>1, <1>2, V4Invariance, PTL DEF Spec, CMSpec, C!CMSpec

-----------------------------------------------------------------------------
(* The server implements the relay.                                         *)

\* What the relay is given to see; the session is V4Server's own operator.
Owner   == [i \in Ids |-> client_array[i]]
Mailbox == [c \in Clients |-> wire[c] \o queue[c]]
Data    == {p \in Packets : p.kind = "DATA"}

Unseen == UNCHANGED <<session, Owner, Mailbox>>

LEMMA Sessions ==
  \A c \in Clients :
    /\ session[c] = IF c \notin live THEN "absent"
                    ELSE IF c \in invalid THEN "gone"
                    ELSE IF id[c] # UNIDENTIFIED_CLIENT THEN "bound"
                    ELSE "fresh"
    /\ Mailbox[c] = wire[c] \o queue[c]
BY DEF session, Mailbox

\* A step that touches neither the table nor the packets under way.
LEMMA RelayStutters ==
  ASSUME UNCHANGED cmgrVars
  PROVE  /\ session' = session /\ Owner' = Owner
         /\ UNCHANGED <<wire, queue>> => Mailbox' = Mailbox
BY DEF cmgrVars, session, Owner, Mailbox

LEMMA AcceptRefines ==
  ASSUME V4Inv, NEW e \in cev, accept_connection(e)
  PROVE  (\E c \in Clients : R!Accept(c)) \/ Unseen
<1>1. UNCHANGED <<wire, queue>>
  BY DEF accept_connection, Accept, AcceptFails, peerVars, writeVars
<1>2. CASE UNCHANGED cmgrVars
  BY <1>1, <1>2, RelayStutters DEF Unseen
<1>3. ASSUME NEW c \in Clients \ live, live' = live \cup {c},
             UNCHANGED <<id, invalid, client_array, invalid_client_list>>
      PROVE  R!Accept(c)
  <2>1. c \notin invalid /\ id[c] = UNIDENTIFIED_CLIENT
    BY DEF V4Inv, TableInv
  <2>2. session[c] = "absent" /\ session' = [session EXCEPT ![c] = "fresh"]
    BY <1>3, <2>1 DEF session
  <2>3. Owner' = Owner /\ Mailbox' = Mailbox
    BY <1>1, <1>3 DEF Owner, Mailbox
  <2> QED
    BY <2>2, <2>3 DEF R!Accept, Owner, Mailbox
<1> QED
  BY <1>2, <1>3 DEF accept_connection, Accept, AcceptFails, Backlog

\* A client that fails hangs up.
LEMMA FailRefines ==
  ASSUME V4Inv, NEW e \in cev, ReadFails(e) \/ WriteFails(e)
  PROVE  \E c \in Clients : R!Hangup(c)
<1> DEFINE c == e.ptr
<1>1. /\ c \in Clients /\ c \in live \ invalid /\ mark_client_as_invalid(c)
      /\ UNCHANGED <<wire, queue>>
  BY EventClient DEF ReadFails, WriteFails, Reads, ReadEvent, WriteEvent, Stale,
                     peerVars, writeVars
<1> HIDE DEF c
<1>2. /\ live' = live /\ id' = id /\ invalid' = invalid \cup {c}
      /\ client_array' =
           [i \in AllIds |-> IF client_array[i] = c THEN NULL ELSE client_array[i]]
  BY <1>1, CmgrFacts, MarkTable
<1>3. session[c] \in {"fresh", "bound"} /\ session' = [session EXCEPT ![c] = "gone"]
  BY <1>1, <1>2 DEF session
<1>4. Owner' = [n \in Ids |-> IF Owner[n] = c THEN NULL ELSE Owner[n]]
  <2>1. \A n \in Ids : n \in AllIds
    BY DEF AllIds
  <2> QED
    BY <1>2, <2>1 DEF Owner
<1>5. Mailbox' = Mailbox
  BY <1>1 DEF Mailbox
<1>6. R!Hangup(c)
  BY <1>3, <1>4, <1>5 DEF R!Hangup, Owner, Mailbox
<1> QED
  BY <1>1, <1>6

\* One turn of process_packets is the client speaking: under the name it takes
\* with its first packet, and under that name from then on.
LEMMA ProcessSpeaks ==
  ASSUME V4Inv, ProcessPacket
  PROVE  \E n \in Ids :
           /\ R!Speak(current, n)
           /\ id[current] = UNIDENTIFIED_CLIENT =>
                n = NextPacket.src /\ session[current] = "fresh"
           /\ id[current] # UNIDENTIFIED_CLIENT =>
                session[current] = "bound" /\ UNCHANGED cmgrVars
<1> DEFINE c == current
           s == NextPacket.src
<1>1. /\ c \in Clients /\ c \in live \ invalid
      /\ \/ id[c] # UNIDENTIFIED_CLIENT /\ UNCHANGED cmgrVars
         \/ /\ id[c] = UNIDENTIFIED_CLIENT
            /\ s \in Ids
            /\ add_new_client_to_array(c, s)
  BY ProcessTable
<1> HIDE DEF c, s
<1>2. CmgrTyped /\ TableInv
  BY CmgrFacts
<1>3. CASE id[c] # UNIDENTIFIED_CLIENT
  <2>1. PICK n \in Ids : n = id[c]
    BY <1>1, <1>2, <1>3 DEF CmgrTyped, AllIds
  <2>2. session[c] = "bound"
    BY <1>1, <1>3, Sessions
  <2>3. Owner[n] = c
    BY <1>1, <1>2, <1>3, <2>1 DEF Owner, TableInv, AllIds
  <2>4. UNCHANGED cmgrVars
    BY <1>1, <1>3
  <2>5. session' = session /\ Owner' = Owner
    BY <2>4, RelayStutters
  <2>6. R!Speak(c, n)
    BY <2>2, <2>3, <2>5 DEF R!Speak, Owner
  <2> QED
    BY <1>3, <2>2, <2>4, <2>6 DEF c
<1>4. CASE id[c] = UNIDENTIFIED_CLIENT
  <2> DEFINE p == client_array[s]
  <2>1. s \in Ids /\ add_new_client_to_array(c, s)
    BY <1>1, <1>4
  <2>2. /\ live' = live /\ id' = [id EXCEPT ![c] = s]
        /\ client_array' = [client_array EXCEPT ![s] = c]
        /\ p # c
        /\ p # NULL => p \in live \ invalid /\ id[p] = s
        /\ invalid' = IF p = NULL THEN invalid ELSE invalid \cup {p}
    BY <1>1, <1>2, <1>4, <2>1, AddTable
  <2>3. PICK n \in Ids : n = s
    BY <2>1
  <2>4. Owner[n] = p /\ NULL \notin Clients /\ n # UNIDENTIFIED_CLIENT
    BY <2>1, <2>3, PacketFacts DEF Owner
  <2> HIDE DEF p
  <2>5. session[c] = "fresh"
    BY <1>1, <1>4, Sessions
  <2>6. session' = [d \in Clients |-> IF d = c             THEN "bound"
                                      ELSE IF d = Owner[n] THEN "gone"
                                      ELSE session[d]]
    <3>1. id \in [Clients -> AllIds]
      BY <1>2 DEF CmgrTyped
    <3> QED
      BY <1>1, <2>2, <2>3, <2>4, <3>1 DEF session
  <2>7. Owner' = [Owner EXCEPT ![n] = c]
    BY <1>2, <2>1, <2>2, <2>3 DEF Owner, CmgrTyped, AllIds
  <2>8. R!Speak(c, n)
    BY <2>5, <2>6, <2>7 DEF R!Speak, Owner
  <2> QED
    BY <1>4, <2>3, <2>5, <2>8 DEF c, s
<1> QED
  BY <1>3, <1>4

\* A packet that is relayed goes to the mailbox of whoever owns its
\* destination by then.
LEMMA ProcessRelays ==
  ASSUME V4Inv, ProcessPacket, NextPacket.kind = "DATA"
  PROVE  LET p == NextPacket
             d == IF p.dst \in Ids THEN Owner'[p.dst] ELSE NULL
         IN  \/ d # NULL /\ Mailbox' = [Mailbox EXCEPT ![d] = Append(@, p)]
             \/ (d = NULL \/ Len(Mailbox[d]) >= WriteQueue) /\ Mailbox' = Mailbox
<1> DEFINE p == NextPacket
           d == client_array'[p.dst]
<1>1. p \in Packets /\ CmgrTyped' /\ TableInv' /\ wire' = wire
  BY ProcessTable DEF ProcessPacket, peerVars
<1>2. IF d = NULL \/ Len(queue[d]) >= WriteQueue
        THEN queue' = queue
        ELSE queue' = [queue EXCEPT ![d] = Append(queue[d], p)]
  BY DEF ProcessPacket, send_data_to_client, writeVars
<1>3. p.dst \in AllIds /\ WriteQueue \in Nat
  BY <1>1, PacketFacts
<1>4. d \in Clients \cup {NULL}
  BY <1>1, <1>3 DEF CmgrTyped
<1>5. d = IF p.dst \in Ids THEN Owner'[p.dst] ELSE NULL
  <2>1. CASE p.dst \in Ids
    BY <2>1 DEF Owner
  <2>2. CASE p.dst \notin Ids
    BY <1>1, <1>3, <1>4, <2>2 DEF AllIds, TableInv
  <2> QED
    BY <2>1, <2>2
<1> HIDE DEF d
<1>6. \/ d # NULL /\ Mailbox' = [Mailbox EXCEPT ![d] = Append(@, p)]
      \/ (d = NULL \/ Len(Mailbox[d]) >= WriteQueue) /\ Mailbox' = Mailbox
  <2> HIDE DEF p
  <2>1. CASE d = NULL
    BY <1>1, <1>2, <2>1 DEF Mailbox
  <2>2. CASE d # NULL
    <3>1. /\ d \in Clients /\ queue \in [Clients -> Seq(Packets)]
          /\ wire[d] \in Seq(Packets) /\ queue[d] \in Seq(Packets)
      BY <1>4, <2>2 DEF V4Inv, TypeOK
    <3> DEFINE l == Len(Mailbox[d])
               w == Len(wire[d])
               q == Len(queue[d])
    <3>2. w \in Nat /\ q \in Nat /\ l = w + q
      BY <3>1, LenProperties, ConcatProperties DEF Mailbox
    <3>3. CASE q >= WriteQueue
      <4>1. queue' = queue
        BY <1>2, <3>3
      <4> HIDE DEF l, w, q
      <4>2. l >= WriteQueue
        BY <1>3, <3>2, <3>3
      <4> QED
        BY <1>1, <4>1, <4>2 DEF Mailbox, l
    <3>4. CASE ~(q >= WriteQueue)
      <4>1. queue' = [queue EXCEPT ![d] = Append(queue[d], p)]
        BY <1>2, <2>2, <3>4
      <4>2. wire[d] \o Append(queue[d], p) = Append(wire[d] \o queue[d], p)
        <5>1. \A u, v \in Seq(Packets), r \in Packets :
                u \o Append(v, r) = Append(u \o v, r)
          BY Adding
        <5> QED
          BY <1>1, <3>1, <5>1, Zenon
      <4>3. Mailbox' = [Mailbox EXCEPT ![d] = Append(wire[d] \o queue[d], p)]
        BY <1>1, <3>1, <4>1, <4>2 DEF Mailbox
      <4> QED
        BY <2>2, <3>1, <4>3 DEF Mailbox
    <3> QED
      BY <3>3, <3>4
  <2> QED
    BY <2>1, <2>2
<1> QED
  BY <1>5, <1>6

LEMMA ProcessRefines ==
  ASSUME V4Inv, ProcessPacket
  PROVE  \/ \E c \in Clients, n \in Ids : R!Bind(c, n)
         \/ \E c \in Clients, p \in Data : R!Submit(c, p)
         \/ Unseen
<1>1. PICK c \in Clients, p \in Packets : c = current /\ p = NextPacket
  BY ProcessTable
<1>2. PICK n \in Ids :
        /\ R!Speak(c, n)
        /\ id[c] = UNIDENTIFIED_CLIENT => n = p.src /\ session[c] = "fresh"
        /\ id[c] # UNIDENTIFIED_CLIENT => session[c] = "bound" /\ UNCHANGED cmgrVars
  BY <1>1, ProcessSpeaks
<1>3. CASE p.kind = "DATA"
  <2>1. LET d == IF p.dst \in Ids THEN Owner'[p.dst] ELSE NULL
        IN  \/ d # NULL /\ Mailbox' = [Mailbox EXCEPT ![d] = Append(@, p)]
            \/ (d = NULL \/ Len(Mailbox[d]) >= WriteQueue) /\ Mailbox' = Mailbox
    BY <1>1, <1>3, ProcessRelays
  <2>2. \E m \in Ids : (m # p.src => ~FALSE /\ session[c] = "bound") /\ R!Speak(c, m)
    BY <1>2, Zenon
  <2>3. R!Submit(c, p)
    BY <2>1, <2>2 DEF R!Submit, Owner, Mailbox
  <2>4. p \in Data
    BY <1>1, <1>3 DEF Data
  <2> QED
    BY <1>1, <2>3, <2>4
<1>4. CASE p.kind # "DATA"
  <2>1. UNCHANGED <<wire, queue>>
    BY <1>1, <1>4 DEF ProcessPacket, writeVars, peerVars
  <2>2. Mailbox' = Mailbox
    BY <2>1 DEF Mailbox
  <2>3. CASE id[c] = UNIDENTIFIED_CLIENT
    BY <1>2, <2>2, <2>3 DEF R!Bind, Mailbox
  <2>4. CASE id[c] # UNIDENTIFIED_CLIENT
    BY <1>2, <2>2, <2>4, RelayStutters DEF Unseen
  <2> QED
    BY <2>3, <2>4
<1> QED
  BY <1>3, <1>4

\* write() moves packets within the mailbox.
LEMMA WriteRefines ==
  ASSUME V4Inv, NEW e \in cev, WriteSome(e)
  PROVE  Unseen
<1> DEFINE c == e.ptr
           room == SndBuf - Len(wire[c])
           n    == IF Len(queue[c]) <= room THEN Len(queue[c]) ELSE room
           w == wire[c] \o SubSeq(queue[c], 1, n)
           q == SubSeq(queue[c], n + 1, Len(queue[c]))
<1>1. /\ UNCHANGED cmgrVars
      /\ wire' = [wire EXCEPT ![c] = w]
      /\ queue' = [queue EXCEPT ![c] = q]
      /\ c \in Clients
  BY EventClient DEF WriteSome, WriteEvent
<1>2. n \in 0 .. Len(queue[c])
  BY <1>1, Moved
<1>3. wire[c] \in Seq(Packets) /\ queue[c] \in Seq(Packets)
  BY <1>1 DEF V4Inv, TypeOK
<1> HIDE DEF n, c
<1>4. w \o q = wire[c] \o queue[c]
  BY <1>2, <1>3, Moving
<1> HIDE DEF w, q
<1>5. Mailbox' = Mailbox
  BY <1>1, <1>4 DEF Mailbox, V4Inv, TypeOK
<1> QED
  BY <1>1, <1>5, RelayStutters DEF Unseen

\* The peers: only what they read is seen by the relay.
LEMMA PeerRefines ==
  ASSUME V4Inv, NEW c \in Clients, Peer(c)
  PROVE  R!Receive(c) \/ Unseen
<1>1. UNCHANGED cmgrVars /\ queue' = queue
  BY DEF Peer, PeerConnect, PeerSend, PeerRead, PeerGoes, serverVars, writeVars
<1>2. CASE PeerRead(c)
  <2>1. wire[c] # <<>> /\ wire' = [wire EXCEPT ![c] = Tail(@)]
    BY <1>2 DEF PeerRead
  <2>2. /\ wire[c] \in Seq(Packets) /\ queue[c] \in Seq(Packets)
        /\ id[c] # UNIDENTIFIED_CLIENT /\ c \in live
    BY <2>1 DEF V4Inv, TypeOK, ConnInv, TableInv
  <2>3. session[c] \in {"bound", "gone"}
    BY <2>2, Sessions
  <2>4. Mailbox[c] # <<>> /\ Tail(Mailbox[c]) = Tail(wire[c]) \o queue[c]
    <3>1. \A w, q \in Seq(Packets) :
            w # <<>> => w \o q # <<>> /\ Tail(w \o q) = Tail(w) \o q
      BY Taking
    <3>2. /\ wire[c] \o queue[c] # <<>>
          /\ Tail(wire[c] \o queue[c]) = Tail(wire[c]) \o queue[c]
      BY <2>1, <2>2, <3>1, Zenon
    <3> QED
      BY <3>2, Sessions
  <2>5. Mailbox' = [Mailbox EXCEPT ![c] = Tail(@)]
    BY <1>1, <2>1, <2>4 DEF Mailbox, V4Inv, TypeOK
  <2> QED
    BY <1>1, <2>3, <2>4, <2>5, RelayStutters DEF R!Receive, Owner, Mailbox
<1>3. CASE ~PeerRead(c)
  <2>1. wire' = wire
    BY <1>3 DEF Peer, PeerConnect, PeerSend, PeerGoes
  <2> QED
    BY <1>1, <2>1, RelayStutters DEF Unseen
<1> QED
  BY <1>2, <1>3

\* The freed clients' connections are over; nobody else's is touched.
LEMMA EndRefines ==
  ASSUME V4Inv, EndOfBatch
  PROVE  \E S \in SUBSET Clients : R!Discard(S)
<1>1. PICK S \in SUBSET Clients : S = invalid /\ S \subseteq live
  BY DEF V4Inv, TypeOK, TableInv
<1>2. /\ live' = live \ S /\ invalid' = {} /\ client_array' = client_array
      /\ id' = [c \in Clients |-> IF c \in S THEN UNIDENTIFIED_CLIENT ELSE id[c]]
      /\ queue' = [c \in Clients |-> IF c \in S THEN <<>> ELSE queue[c]]
      /\ wire' = [c \in Clients |-> IF c \in S THEN <<>> ELSE wire[c]]
  BY <1>1, Ended
<1>3. \A c \in S : session[c] = "gone"
  BY <1>1, Sessions
<1>4. session' = [c \in Clients |-> IF c \in S THEN "absent" ELSE session[c]]
  BY <1>1, <1>2 DEF session
<1>5. <<>> \o <<>> = <<>>
  BY EmptySeq, ConcatEmptySeq
<1>6. Mailbox' = [c \in Clients |-> IF c \in S THEN <<>> ELSE Mailbox[c]]
  BY <1>2, <1>5 DEF Mailbox
<1>7. Owner' = Owner
  BY <1>2 DEF Owner
<1>8. R!Discard(S)
  BY <1>3, <1>4, <1>6, <1>7 DEF R!Discard, Owner, Mailbox
<1> QED
  BY <1>8

LEMMA StepRefines ==
  ASSUME V4Inv, [Next]_vars
  PROVE  R!Next \/ Unseen
<1>1. ASSUME NEW e \in cev, handle_event(e) PROVE R!Next \/ Unseen
  <2>1. CASE accept_connection(e)
    BY <2>1, AcceptRefines DEF R!Next
  <2>2. CASE ReadFails(e) \/ WriteFails(e)
    BY <2>2, FailRefines DEF R!Next
  <2>3. CASE WriteSome(e)
    BY <2>3, WriteRefines
  <2>4. CASE \/ StaleEvent(e) \/ ReadPackets(e) \/ ReadPartial(e)
             \/ ReadAborts(e) \/ WriteNothing(e)
    <3>1. UNCHANGED cmgrVars /\ UNCHANGED <<wire, queue>>
      BY <2>4 DEF StaleEvent, ReadPackets, ReadPartial, ReadAborts, WriteNothing,
                  writeVars, peerVars
    <3> QED
      BY <3>1, RelayStutters DEF Unseen
  <2> QED
    BY <1>1, <2>1, <2>2, <2>3, <2>4 DEF handle_event
<1>2. CASE ProcessPacket
  BY <1>2, ProcessRefines DEF R!Next, Data
<1>3. CASE PollWait \/ ProcessStops
  <2>1. UNCHANGED cmgrVars /\ UNCHANGED <<wire, queue>>
    BY <1>3 DEF PollWait, ProcessStops, writeVars, peerVars
  <2> QED
    BY <2>1, RelayStutters DEF Unseen
<1>4. CASE EndOfBatch
  BY <1>4, EndRefines DEF R!Next
<1>5. ASSUME NEW c \in Clients, Peer(c) PROVE R!Next \/ Unseen
  BY <1>5, PeerRefines DEF R!Next
<1>6. CASE UNCHANGED vars
  <2>1. UNCHANGED cmgrVars /\ UNCHANGED <<wire, queue>>
    BY <1>6 DEF vars, serverVars, writeVars, peerVars
  <2> QED
    BY <2>1, RelayStutters DEF Unseen
<1> QED
  BY <1>1, <1>2, <1>3, <1>4, <1>5, <1>6 DEF Next, do_poll

\* The server implements the relay although one event may bring it several
\* packets: each is put once, in order, into the mailbox of whoever owns its
\* destination when its turn comes, and dropped only if nobody does or the
\* mailbox is full; but a named connection may send under any name
\* (event.c:250).
THEOREM V4ImplementsRelay == Spec => RelaySpec
<1>1. Init => R!Init
  <2> SUFFICES ASSUME Init PROVE R!Init
    OBVIOUS
  <2>1. session = [c \in Clients |-> "absent"] /\ Owner = [n \in Ids |-> NULL]
    BY DEF Init, session, Owner, AllIds
  <2>2. <<>> \o <<>> = <<>>
    BY EmptySeq, ConcatEmptySeq
  <2>3. Mailbox = [c \in Clients |-> <<>>]
    BY <2>2 DEF Init, Mailbox
  <2> QED
    BY <2>1, <2>3 DEF R!Init, Owner, Mailbox
<1>2. V4Inv /\ [Next]_vars => [R!Next]_(R!relayVars)
  BY StepRefines DEF Unseen, R!relayVars, Owner, Mailbox
<1> QED
  BY <1>1, <1>2, V4Invariance, PTL DEF Spec, RelaySpec, R!Spec
=============================================================================
