----------------------------- MODULE ClientMgr -----------------------------
(***************************************************************************)
(* The server's owner of Client objects: v6/cmgr.cpp and the fields of     *)
(* v6/client.hpp it reads and writes (v5/cmgr.cpp is the same code).       *)
(*                                                                         *)
(* A Client is named by its address.  Addresses are reused: once a Client  *)
(* is freed, `new` may hand the same address (and the kernel the same      *)
(* descriptor) to the next connection.                                     *)
(*                                                                         *)
(* The state of the component is one record, so that a module that calls   *)
(* several methods in one step composes the operators below in the order   *)
(* of the calls.  CMSpec is the contract: the ways the server is allowed   *)
(* to drive the component.                                                 *)
(***************************************************************************)
EXTENDS Naturals, FiniteSets

CONSTANTS Clients,              \* addresses at which a Client can be allocated
          Ids,                  \* identifiers a peer can claim
          UNIDENTIFIED_CLIENT,  \* the id of a Client that has claimed none
          NULL                  \* the null Client pointer

ASSUME CMAssumption ==
  /\ UNIDENTIFIED_CLIENT \notin Ids
  /\ NULL \notin Clients

\* The indices of client_array: every uint16_t, the reserved one included.
AllIds == Ids \cup {UNIDENTIFIED_CLIENT}

VARIABLE cmgr

\* live: allocated and not yet deleted; listed: how many times the pointer
\* is on invalid_client_list; the rest are fields of Client and ClientMgr.
CMState ==
  [live         : SUBSET Clients,
   id           : [Clients -> AllIds],
   invalid      : SUBSET Clients,
   managed      : SUBSET Clients,
   client_array : [AllIds -> Clients \cup {NULL}],
   listed       : [Clients -> Nat]]

CMInitState ==
  [live         |-> {},
   id           |-> [c \in Clients |-> UNIDENTIFIED_CLIENT],
   invalid      |-> {},
   managed      |-> {},
   client_array |-> [i \in AllIds |-> NULL],
   listed       |-> [c \in Clients |-> 0]]

-----------------------------------------------------------------------------
(* The operations.  m is the component's state, c a Client.  An operator    *)
(* whose name starts with Faulty is not the code: it is the operation that  *)
(* follows it with a bug put in, to see that a property would notice.       *)

\* new Client(fd): the constructor sets every field.
NewClient(m, c) ==
  [m EXCEPT !.live    = @ \cup {c},
            !.id[c]   = UNIDENTIFIED_CLIENT,
            !.invalid = @ \ {c},
            !.managed = @ \ {c}]

\* validate_packet's assignments to Client::id.
SetId(m, c, i) == [m EXCEPT !.id[c] = i]

find_client_by_id(m, i) == m.client_array[i]

\* Fault: the entry under c's id is cleared whoever owns it.
FaultyUnlist(m, c) ==
  [i \in AllIds |-> IF i = m.id[c] THEN NULL ELSE m.client_array[i]]

\* The table after c gave up its entry: only if the entry is really c's.
Unlist(m, c) ==
  [i \in AllIds |-> IF /\ i = m.id[c]
                       /\ i # UNIDENTIFIED_CLIENT
                       /\ m.client_array[i] = c
                      THEN NULL
                      ELSE m.client_array[i]]

\* Fault: an invalid Client keeps its entry in the table.
FaultyMark(m, c) ==
  IF c = NULL
    THEN m
    ELSE [m EXCEPT !.invalid = @ \cup {c}, !.listed[c] = @ + 1]

\* Fault: the Client is freed at once and not at the end of the batch.
FaultyMarkFrees(m, c) ==
  IF c = NULL
    THEN m
    ELSE [m EXCEPT !.live         = @ \ {c},
                   !.managed      = @ \ {c},
                   !.id[c]        = UNIDENTIFIED_CLIENT,
                   !.client_array = Unlist(m, c)]

mark_client_as_invalid(m, c) ==
  IF c = NULL
    THEN m
    ELSE [m EXCEPT !.invalid      = @ \cup {c},
                   !.client_array = Unlist(m, c),
                   !.listed[c]    = @ + 1]

\* Fault: the previous owner is overwritten and forgotten.
FaultyManage(m, c) ==
  IF c \in m.managed
    THEN m
    ELSE [m EXCEPT !.client_array[m.id[c]] = c, !.managed = @ \cup {c}]

\* Enters c in the table under its id; the previous owner, if any, is kicked.
manage(m, c) ==
  IF c \in m.managed
    THEN m
    ELSE [mark_client_as_invalid(m, find_client_by_id(m, m.id[c]))
            EXCEPT !.client_array[m.id[c]] = c,
                   !.managed               = @ \cup {c}]

Listed(m) == {c \in Clients : m.listed[c] > 0}

\* Deletes every Client on the list and clears it.  The fields of a deleted
\* Client are garbage; they are reset so that equal states stay equal.
free_invalid_clients(m) ==
  [m EXCEPT !.live    = @ \ Listed(m),
            !.id      = [c \in Clients |->
                           IF c \in Listed(m) THEN UNIDENTIFIED_CLIENT ELSE @[c]],
            !.invalid = @ \ Listed(m),
            !.managed = @ \ Listed(m),
            !.listed  = [c \in Clients |-> 0]]

\* How many times ~ClientMgr deletes c if it runs in state m: once for every
\* entry of the table and once for every occurrence on the list.
DestructorDeletes(m, c) ==
  Cardinality({i \in AllIds : m.client_array[i] = c}) + m.listed[c]

-----------------------------------------------------------------------------
(* The contract. *)

CMInit == cmgr = CMInitState

\* A connection was accepted.
Connect(c) ==
  /\ c \notin cmgr.live
  /\ cmgr' = NewClient(cmgr, c)

\* c named itself i in an acceptable packet, or repeats the id it has.
Admit(c, i) ==
  /\ c \in cmgr.live \ cmgr.invalid
  /\ cmgr.id[c] \in {UNIDENTIFIED_CLIENT, i}
  /\ cmgr' = manage(SetId(cmgr, c, i), c)

\* c broke the protocol (perhaps after naming itself i), closed or failed.
Reject(c, i) ==
  /\ c \in cmgr.live \ cmgr.invalid
  /\ cmgr.id[c] \in {UNIDENTIFIED_CLIENT, i}
  /\ cmgr' = mark_client_as_invalid(SetId(cmgr, c, i), c)

\* The end of an iteration of the event loop.
Reap == cmgr' = free_invalid_clients(cmgr)

CMNext ==
  \/ \E c \in Clients : Connect(c)
  \/ \E c \in Clients, i \in Ids : Admit(c, i)
  \/ \E c \in Clients, i \in AllIds : Reject(c, i)
  \/ Reap

CMSpec == CMInit /\ [][CMNext]_cmgr

-----------------------------------------------------------------------------
(* What the component promises. *)

\* Type correctness of the component's state.
CMTypeOK == cmgr \in CMState

\* A Client is marked, listed for deletion once, or neither: the list that
\* free_invalid_clients walks is exactly the set of the invalid Clients.
ListedOnce(m) ==
  /\ m.invalid \subseteq m.live
  /\ \A c \in Clients : m.listed[c] = IF c \in m.invalid THEN 1 ELSE 0

\* The table and the Clients agree: i's entry is c exactly when c is managed
\* under i and has not been invalidated.  In particular no entry points to a
\* freed or an invalid Client, and no managed Client is out of the table's
\* reach (it could never be sent anything, nor kicked).
Consistent(m) ==
  /\ m.managed \subseteq m.live
  /\ \A c \in Clients, i \in AllIds :
       m.client_array[i] = c <=> /\ c \in m.managed \ m.invalid
                                 /\ m.id[c] = i
  /\ m.client_array[UNIDENTIFIED_CLIENT] = NULL

\* find_client_by_id never returns a stale pointer, in spite of kicks,
\* rejections of Clients that claimed somebody's id, and address reuse.
TableConsistent == Consistent(cmgr)

\* No delete runs twice on one Client, whether free_invalid_clients runs in
\* this state or the destructor does.
NoDoubleFree == \A c \in Clients : DestructorDeletes(cmgr, c) <= 1

\* Only marking it invalid takes a Client out of the table: an owner that is
\* replaced by another connection is on its way to be freed, never leaked.
EvictedIsDoomed ==
  [][\A i \in AllIds :
       LET c == cmgr.client_array[i]
       IN  c # NULL /\ cmgr'.client_array[i] # c => c \in cmgr'.invalid]_cmgr

\* A Client that was never admitted cannot disturb the table by failing, even
\* when the packet that made it fail claimed the id of an admitted Client.
RejectedIsHarmless ==
  [][\A c \in Clients :
       /\ c \in cmgr'.invalid \ cmgr.invalid
       /\ c \notin cmgr.managed
       => cmgr'.client_array = cmgr.client_array]_cmgr
=============================================================================
