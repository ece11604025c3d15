-------------------------- MODULE ClientMgrProofs --------------------------
(***************************************************************************)
(* Proofs about ClientMgr, for any set of addresses and identifiers.       *)
(*                                                                         *)
(* The inductive invariant relates the three places where the fate of a    *)
(* Client is recorded: its own flags, the table and the list.  It is       *)
(* proved for the operators, on any record m, so that the modules that     *)
(* compose the operators can use the lemmas on their own steps.            *)
(***************************************************************************)
EXTENDS ClientMgr, FiniteSetTheorems, TLAPS

CMInv(m) == m \in CMState /\ ListedOnce(m) /\ Consistent(m)

-----------------------------------------------------------------------------
(* The operators preserve the invariant. *)

\* The state the constructor builds.
LEMMA InitStateInv == CMInv(CMInitState)
  BY CMAssumption DEF CMInv, CMInitState, CMState, ListedOnce, Consistent, AllIds

\* A Client is allocated at a free address.
LEMMA NewClientInv ==
  ASSUME NEW m, CMInv(m), NEW c \in Clients, c \notin m.live
  PROVE  CMInv(NewClient(m, c))
<1> DEFINE n == NewClient(m, c)
<1>1. n \in CMState
  BY DEF CMInv, CMState, NewClient, AllIds
<1>2. ListedOnce(n)
  BY DEF CMInv, CMState, NewClient, ListedOnce
<1>3. Consistent(n)
  BY DEF CMInv, CMState, NewClient, ListedOnce, Consistent, AllIds
<1> QED
  BY <1>1, <1>2, <1>3 DEF CMInv

\* validate_packet names a valid Client, once.
LEMMA SetIdInv ==
  ASSUME NEW m, CMInv(m), NEW c \in m.live \ m.invalid, NEW i \in AllIds,
         m.id[c] \in {UNIDENTIFIED_CLIENT, i}
  PROVE  CMInv(SetId(m, c, i))
<1> DEFINE n == SetId(m, c, i)
<1>1. c \in Clients
  BY DEF CMInv, CMState
<1>2. n \in CMState /\ ListedOnce(n)
  BY <1>1 DEF CMInv, CMState, SetId, ListedOnce
<1>3. c \in m.managed => m.id[c] = i
  BY <1>1, CMAssumption DEF CMInv, CMState, Consistent, AllIds
<1>4. Consistent(n)
  BY <1>1, <1>3 DEF CMInv, CMState, SetId, Consistent, AllIds
<1> QED
  BY <1>2, <1>4 DEF CMInv

\* A valid Client is invalidated, managed or not.
LEMMA MarkInv ==
  ASSUME NEW m, CMInv(m), NEW c \in m.live \ m.invalid
  PROVE  CMInv(mark_client_as_invalid(m, c))
<1> DEFINE n == mark_client_as_invalid(m, c)
<1>1. c \in Clients /\ c # NULL
  BY CMAssumption DEF CMInv, CMState
<1>2. n = [m EXCEPT !.invalid      = @ \cup {c},
                    !.client_array = Unlist(m, c),
                    !.listed[c]    = @ + 1]
  BY <1>1 DEF mark_client_as_invalid
<1>3. n \in CMState
  <2>1. Unlist(m, c) \in [AllIds -> Clients \cup {NULL}]
    BY DEF CMInv, CMState, Unlist
  <2>2. [m.listed EXCEPT ![c] = @ + 1] \in [Clients -> Nat]
    BY <1>1 DEF CMInv, CMState
  <2> HIDE DEF n
  <2>3. n \in CMState
    BY <1>1, <1>2, <2>1, <2>2 DEF CMInv, CMState
  <2> QED
    BY <2>3
<1>4. ListedOnce(n)
  BY <1>1, <1>2 DEF CMInv, CMState, ListedOnce
<1>5. Consistent(n)
  BY <1>1, <1>2, CMAssumption DEF CMInv, CMState, Consistent, Unlist, AllIds
<1> QED
  BY <1>3, <1>4, <1>5 DEF CMInv

\* A valid Client that is not managed yet enters the table under its id; the
\* entry's previous owner is kicked.
LEMMA ManageInv ==
  ASSUME NEW m, CMInv(m), NEW c \in m.live \ m.invalid,
         m.id[c] # UNIDENTIFIED_CLIENT
  PROVE  CMInv(manage(m, c))
<1>1. CASE c \in m.managed
  BY <1>1 DEF manage
<1>2. CASE c \notin m.managed
  <2> DEFINE p == find_client_by_id(m, m.id[c])
             k == mark_client_as_invalid(m, p)
             n == [k EXCEPT !.client_array[m.id[c]] = c,
                            !.managed               = @ \cup {c}]
  <2>1. c \in Clients /\ m.id[c] \in AllIds /\ p \in Clients \cup {NULL}
    BY DEF CMInv, CMState, find_client_by_id
  <2>2. p # NULL => p \in m.live \ m.invalid /\ p # c
    BY <1>2, <2>1, CMAssumption DEF CMInv, CMState, Consistent, find_client_by_id
  <2>3. /\ CMInv(k)
        /\ k.live = m.live /\ k.id = m.id /\ k.managed = m.managed
        /\ c \notin k.invalid
        /\ k.client_array[m.id[c]] = NULL
    <3>1. CASE p = NULL
      BY <3>1, <2>1, SMTT(60) DEF mark_client_as_invalid, find_client_by_id, CMInv, CMState
    <3>2. CASE p # NULL
      <4>1. CMInv(k)
        BY <3>2, <2>2, MarkInv
      <4>2. k = [m EXCEPT !.invalid      = @ \cup {p},
                          !.client_array = Unlist(m, p),
                          !.listed[p]    = @ + 1]
        BY <3>2 DEF mark_client_as_invalid
      <4>3. m.id[p] = m.id[c] /\ m.client_array[m.id[c]] = p
        BY <3>2, <2>1 DEF CMInv, CMState, Consistent, find_client_by_id
      <4> HIDE DEF k, p
      <4> QED
        BY <4>1, <4>2, <4>3, <2>1, <2>2, <3>2, ZenonT(60) DEF Unlist, CMInv, CMState
    <3> QED
      BY <3>1, <3>2
  <2> HIDE DEF k, p
  <2>4. n \in CMState /\ ListedOnce(n)
    BY <2>1, <2>3 DEF CMInv, CMState, ListedOnce
  <2>5. Consistent(n)
    BY <1>2, <2>1, <2>3, CMAssumption DEF CMInv, CMState, Consistent
  <2> QED
    BY <1>2, <2>4, <2>5 DEF CMInv, manage, k, p
<1> QED
  BY <1>1, <1>2

\* The invalid Clients are freed.
LEMMA FreeInv ==
  ASSUME NEW m, CMInv(m)
  PROVE  /\ CMInv(free_invalid_clients(m))
         /\ Listed(m) = m.invalid
         /\ free_invalid_clients(m).invalid = {}
<1> DEFINE n == free_invalid_clients(m)
<1>1. Listed(m) = m.invalid
  BY SMTT(40) DEF CMInv, CMState, ListedOnce, Listed
<1>2. n \in CMState /\ ListedOnce(n) /\ n.invalid = {}
  BY <1>1 DEF CMInv, CMState, ListedOnce, free_invalid_clients, AllIds
<1>3. Consistent(n)
  BY <1>1, CMAssumption DEF CMInv, CMState, Consistent, free_invalid_clients, AllIds
<1> QED
  BY <1>1, <1>2, <1>3 DEF CMInv

-----------------------------------------------------------------------------
(* The contract. *)

\* A managed Client has an entry of its own, so that the destructor and the
\* list together delete it at most once.
LEMMA DeletedOnce ==
  ASSUME NEW m, CMInv(m), NEW c \in Clients
  PROVE  DestructorDeletes(m, c) <= 1
<1> DEFINE E == {i \in AllIds : m.client_array[i] = c}
<1>1. CASE c \in m.invalid
  <2>1. E = {} /\ m.listed[c] = 1
    BY <1>1 DEF CMInv, ListedOnce, Consistent
  <2> QED
    BY <2>1, FS_EmptySet DEF DestructorDeletes
<1>2. CASE c \notin m.invalid
  <2>1. E \subseteq {m.id[c]} /\ m.listed[c] = 0
    BY <1>2 DEF CMInv, ListedOnce, Consistent
  <2>2. E = {} \/ E = {m.id[c]}
    BY <2>1
  <2> HIDE DEF E
  <2>3. CASE E = {}
    BY <2>1, <2>3, FS_EmptySet DEF DestructorDeletes, E
  <2>4. CASE E = {m.id[c]}
    <3>1. Cardinality(E) = 1
      BY <2>4, FS_Singleton
    <3> QED
      BY <2>1, <3>1 DEF DestructorDeletes, E
  <2> QED
    BY <2>2, <2>3, <2>4
<1> QED
  BY <1>1, <1>2

\* One step of the contract preserves the invariant.
LEMMA CMStep ==
  ASSUME CMInv(cmgr), [CMNext]_cmgr
  PROVE  CMInv(cmgr)'
<1> SUFFICES CMInv(cmgr')
  BY DEF CMInv, ListedOnce, Consistent
<1>1. ASSUME NEW c \in Clients, Connect(c) PROVE CMInv(cmgr')
  BY <1>1, NewClientInv DEF Connect
<1>2. ASSUME NEW c \in Clients, NEW i \in Ids, Admit(c, i) PROVE CMInv(cmgr')
  <2> DEFINE n == SetId(cmgr, c, i)
  <2>1. CMInv(n)
    BY <1>2, SetIdInv DEF Admit, AllIds
  <2>2. c \in n.live \ n.invalid /\ n.id[c] # UNIDENTIFIED_CLIENT
    BY <1>2, CMAssumption DEF Admit, SetId, CMInv, CMState
  <2> HIDE DEF n
  <2>3. CMInv(manage(n, c))
    BY <2>1, <2>2, ManageInv
  <2> QED
    BY <1>2, <2>3 DEF Admit, n
<1>3. ASSUME NEW c \in Clients, NEW i \in AllIds, Reject(c, i) PROVE CMInv(cmgr')
  <2> DEFINE n == SetId(cmgr, c, i)
  <2>1. CMInv(n)
    BY <1>3, SetIdInv DEF Reject
  <2>2. c \in n.live \ n.invalid
    BY <1>3 DEF Reject, SetId, CMInv, CMState
  <2> HIDE DEF n
  <2>3. CMInv(mark_client_as_invalid(n, c))
    BY <2>1, <2>2, MarkInv
  <2> QED
    BY <1>3, <2>3 DEF Reject, n
<1>4. CASE Reap
  BY <1>4, FreeInv DEF Reap
<1>5. CASE UNCHANGED cmgr
  BY <1>5
<1> QED
  BY <1>1, <1>2, <1>3, <1>4, <1>5 DEF CMNext

\* What the two kinds of step that a packet can cause do to the flags.
LEMMA AdmitEffect ==
  ASSUME CMInv(cmgr), NEW c \in Clients, NEW i \in Ids, Admit(c, i)
  PROVE  /\ cmgr'.live = cmgr.live
         /\ cmgr'.managed = cmgr.managed \cup {c}
         /\ cmgr'.id = [cmgr.id EXCEPT ![c] = i]
         /\ cmgr.invalid \subseteq cmgr'.invalid
         /\ cmgr'.invalid \subseteq cmgr.invalid \cup cmgr.managed
         /\ c \in cmgr.managed => cmgr.id[c] = i
<1> DEFINE s == SetId(cmgr, c, i)
<1>1. /\ s \in CMState /\ s.live = cmgr.live /\ s.managed = cmgr.managed
      /\ s.invalid = cmgr.invalid /\ s.client_array = cmgr.client_array
      /\ s.id = [cmgr.id EXCEPT ![c] = i] /\ s.id[c] = i
  BY DEF SetId, CMInv, CMState, AllIds
<1>2. cmgr' = manage(s, c) /\ c \in cmgr.live \ cmgr.invalid
  BY DEF Admit
<1>3. c \in cmgr.managed => cmgr.id[c] = i
  BY <1>2, CMAssumption DEF Admit, CMInv, CMState, Consistent, AllIds
<1> HIDE DEF s
<1>4. CASE c \in s.managed
  BY <1>1, <1>2, <1>3, <1>4 DEF manage
<1>5. CASE c \notin s.managed
  <2> DEFINE p == find_client_by_id(s, s.id[c])
             k == mark_client_as_invalid(s, p)
  <2>1. p # NULL => p \in cmgr.managed
    BY <1>1 DEF find_client_by_id, CMInv, CMState, Consistent, AllIds
  <2>2. /\ k.live = s.live /\ k.id = s.id /\ k.managed = s.managed
        /\ k.invalid \in {s.invalid, s.invalid \cup {p}}
        /\ p = NULL => k.invalid = s.invalid
        /\ k = [live |-> k.live, id |-> k.id, invalid |-> k.invalid,
                managed |-> k.managed, client_array |-> k.client_array,
                listed |-> k.listed]
    BY <1>1 DEF mark_client_as_invalid, CMState
  <2> HIDE DEF k, p
  <2>3. cmgr' = [k EXCEPT !.client_array[s.id[c]] = c, !.managed = @ \cup {c}]
    BY <1>2, <1>5 DEF manage, k, p
  <2>4. /\ cmgr'.live = k.live /\ cmgr'.id = k.id /\ cmgr'.invalid = k.invalid
        /\ cmgr'.managed = k.managed \cup {c}
    BY <2>2, <2>3
  <2> QED
    BY <1>1, <1>3, <2>1, <2>2, <2>4
<1> QED
  BY <1>4, <1>5

LEMMA RejectEffect ==
  ASSUME CMInv(cmgr), NEW c \in Clients, NEW i \in AllIds, Reject(c, i)
  PROVE  /\ cmgr'.live = cmgr.live
         /\ cmgr'.managed = cmgr.managed
         /\ cmgr'.id = [cmgr.id EXCEPT ![c] = i]
         /\ cmgr'.invalid = cmgr.invalid \cup {c}
         /\ c \in cmgr.managed => cmgr.id[c] = i
<1> DEFINE s == SetId(cmgr, c, i)
<1>1. /\ s \in CMState /\ s.live = cmgr.live /\ s.managed = cmgr.managed
      /\ s.invalid = cmgr.invalid /\ s.id = [cmgr.id EXCEPT ![c] = i]
  BY DEF SetId, CMInv, CMState
<1>2. cmgr' = mark_client_as_invalid(s, c) /\ c \in cmgr.live \ cmgr.invalid
  BY DEF Reject
<1>3. c \in cmgr.managed => cmgr.id[c] = i
  BY <1>2, CMAssumption DEF Reject, CMInv, CMState, Consistent, AllIds
<1> HIDE DEF s
<1> QED
  BY <1>1, <1>2, <1>3, CMAssumption DEF mark_client_as_invalid, CMState

\* The inductive invariant holds whenever the component is driven as the
\* contract allows.
THEOREM CMInvariance == CMSpec => []CMInv(cmgr)
<1>1. CMInit => CMInv(cmgr)
  BY InitStateInv DEF CMInit
<1>2. CMInv(cmgr) /\ [CMNext]_cmgr => CMInv(cmgr)'
  BY CMStep
<1> QED
  BY <1>1, <1>2, PTL DEF CMSpec

\* The state of the component is well typed.
THEOREM CMTyped == CMSpec => []CMTypeOK
<1>1. CMInv(cmgr) => CMTypeOK
  BY DEF CMInv, CMTypeOK
<1> QED
  BY <1>1, CMInvariance, PTL

\* The table holds exactly the valid managed Clients, each under its own id.
THEOREM CMTableConsistent == CMSpec => []TableConsistent
<1>1. CMInv(cmgr) => TableConsistent
  BY DEF CMInv, TableConsistent
<1> QED
  BY <1>1, CMInvariance, PTL

\* No Client is deleted twice.
THEOREM CMNoDoubleFree == CMSpec => []NoDoubleFree
<1>1. CMInv(cmgr) => NoDoubleFree
  BY DeletedOnce DEF NoDoubleFree
<1> QED
  BY <1>1, CMInvariance, PTL

\* The table after each operation: marking removes one entry, that of a
\* Client that becomes invalid; managing replaces one, and its owner too.
LEMMA TableChanges ==
  ASSUME NEW m, CMInv(m), NEW c \in m.live \ m.invalid, NEW i \in AllIds,
         m.id[c] \in {UNIDENTIFIED_CLIENT, i},
         NEW n, \/ i \in Ids /\ n = manage(SetId(m, c, i), c)
                \/ n = mark_client_as_invalid(SetId(m, c, i), c),
         NEW j \in AllIds, NEW d \in Clients, m.client_array[j] = d,
         n.client_array[j] # d
  PROVE  d \in n.invalid
<1> DEFINE s == SetId(m, c, i)
<1>1. /\ c \in Clients
      /\ s \in CMState
      /\ s.client_array = m.client_array /\ s.managed = m.managed
      /\ s.id[c] = i
  BY DEF CMInv, CMState, SetId
<1> HIDE DEF s
<1>2. CASE n = mark_client_as_invalid(s, c)
  <2>1. /\ n.client_array = Unlist(s, c)
        /\ c \in n.invalid
    BY <1>1, <1>2, CMAssumption DEF mark_client_as_invalid, CMState
  <2> QED
    BY <1>1, <2>1 DEF Unlist
<1>3. CASE i \in Ids /\ n = manage(s, c)
  <2>1. c \notin s.managed
    BY <1>1, <1>3 DEF manage
  <2> DEFINE p == find_client_by_id(s, s.id[c])
             k == mark_client_as_invalid(s, p)
  <2>2. p = m.client_array[i] /\ p \in Clients \cup {NULL}
    BY <1>1 DEF find_client_by_id, CMState
  <2>3. CASE p = NULL
    <3>1. k = s
      BY <2>3 DEF mark_client_as_invalid
    <3>2. n.client_array = [s.client_array EXCEPT ![i] = c]
      BY <1>1, <1>3, <2>1, <3>1 DEF manage, CMState
    <3> QED
      BY <1>1, <2>2, <2>3, <3>2, CMAssumption, ZenonT(60) DEF CMState
  <2>4. CASE p # NULL
    <3>1. k = [s EXCEPT !.invalid      = @ \cup {p},
                        !.client_array = Unlist(s, p),
                        !.listed[p]    = @ + 1]
      BY <2>4 DEF mark_client_as_invalid
    <3>2. n = [k EXCEPT !.client_array[i] = c, !.managed = @ \cup {c}]
      BY <1>1, <1>3, <2>1 DEF manage
    <3> HIDE DEF k, p
    <3>3. k.invalid = s.invalid \cup {p} /\ k.client_array = Unlist(s, p)
      BY <1>1, <3>1 DEF CMState
    <3>4. n.invalid = k.invalid
      BY <1>1, <3>1, <3>2 DEF CMState
    <3>5. n.client_array = [k.client_array EXCEPT ![i] = c]
      BY <1>1, <3>1, <3>2 DEF CMState
    <3>6. p \in n.invalid
      BY <3>3, <3>4
    <3>7. d = p
      <4>1. CASE j = i
        BY <4>1, <2>2
      <4>2. CASE j # i
        <5>1. n.client_array[j] = Unlist(s, p)[j]
          BY <3>3, <3>5, <4>2 DEF Unlist
        <5> QED
          BY <1>1, <5>1, <3>3, <3>5, <4>2 DEF Unlist
      <4> QED
        BY <4>1, <4>2
    <3> QED
      BY <3>6, <3>7
  <2> QED
    BY <2>3, <2>4
<1> QED
  BY <1>2, <1>3 DEF s

\* No owner is silently replaced or removed.
THEOREM CMEvictedIsDoomed == CMSpec => EvictedIsDoomed
<1> DEFINE A == \A i \in AllIds :
                  LET c == cmgr.client_array[i]
                  IN  c # NULL /\ cmgr'.client_array[i] # c => c \in cmgr'.invalid
<1>1. CMInv(cmgr) /\ CMNext => A
  <2> SUFFICES ASSUME CMInv(cmgr), CMNext, NEW j \in AllIds,
                      cmgr.client_array[j] # NULL,
                      cmgr'.client_array[j] # cmgr.client_array[j]
               PROVE  cmgr.client_array[j] \in cmgr'.invalid
    OBVIOUS
  <2>1. cmgr.client_array[j] \in Clients
    BY DEF CMInv, CMState
  <2>2. ASSUME NEW c \in Clients, Connect(c) PROVE FALSE
    BY <2>2 DEF Connect, NewClient, CMInv, CMState
  <2>3. ASSUME NEW c \in Clients, NEW i \in Ids, Admit(c, i)
        PROVE  cmgr.client_array[j] \in cmgr'.invalid
    BY <2>1, <2>3, TableChanges DEF Admit, AllIds
  <2>4. ASSUME NEW c \in Clients, NEW i \in AllIds, Reject(c, i)
        PROVE  cmgr.client_array[j] \in cmgr'.invalid
    BY <2>1, <2>4, TableChanges DEF Reject
  <2>5. CASE Reap
    BY <2>5 DEF Reap, free_invalid_clients, CMInv, CMState
  <2> QED
    BY <2>2, <2>3, <2>4, <2>5 DEF CMNext
<1>2. CMInv(cmgr) /\ [CMNext]_cmgr => [A]_cmgr
  BY <1>1
<1> QED
  BY <1>2, CMInvariance, PTL DEF CMSpec, EvictedIsDoomed

\* A Client rejected before it was managed leaves the table alone.
THEOREM CMRejectedIsHarmless == CMSpec => RejectedIsHarmless
<1> DEFINE A == \A c \in Clients :
                  /\ c \in cmgr'.invalid \ cmgr.invalid
                  /\ c \notin cmgr.managed
                  => cmgr'.client_array = cmgr.client_array
<1>1. CMInv(cmgr) /\ CMNext => A
  <2> SUFFICES ASSUME CMInv(cmgr), CMNext, NEW c \in Clients,
                      c \in cmgr'.invalid, c \notin cmgr.invalid,
                      c \notin cmgr.managed
               PROVE  cmgr'.client_array = cmgr.client_array
    OBVIOUS
  <2>1. ASSUME NEW d \in Clients, Connect(d) PROVE FALSE
    BY <2>1 DEF Connect, NewClient, CMInv, CMState
  <2>2. ASSUME NEW d \in Clients, NEW i \in Ids, Admit(d, i) PROVE FALSE
    <3> DEFINE s == SetId(cmgr, d, i)
               p == find_client_by_id(s, s.id[d])
    <3>1. /\ s \in CMState /\ s.invalid = cmgr.invalid /\ s.id[d] = i
          /\ s.client_array = cmgr.client_array /\ s.managed = cmgr.managed
      BY DEF SetId, CMInv, CMState, AllIds
    <3>2. p = cmgr.client_array[i]
      BY <3>1 DEF find_client_by_id
    <3>3. p # c
      BY <3>2 DEF CMInv, Consistent, AllIds
    <3> HIDE DEF s
    <3>4. manage(s, d).invalid \subseteq s.invalid \cup {p}
      BY <3>1 DEF manage, mark_client_as_invalid, CMState
    <3> QED
      BY <2>2, <3>1, <3>3, <3>4 DEF Admit, s
  <2>3. ASSUME NEW d \in Clients, NEW i \in AllIds, Reject(d, i)
        PROVE  cmgr'.client_array = cmgr.client_array
    <3> DEFINE s == SetId(cmgr, d, i)
    <3>1. /\ s \in CMState /\ s.invalid = cmgr.invalid
          /\ s.client_array = cmgr.client_array
      BY <2>3 DEF SetId, CMInv, CMState
    <3> HIDE DEF s
    <3>2. /\ mark_client_as_invalid(s, d).invalid = s.invalid \cup {d}
          /\ mark_client_as_invalid(s, d).client_array = Unlist(s, d)
      BY <3>1, CMAssumption DEF mark_client_as_invalid, CMState
    <3>3. d = c
      BY <2>3, <3>1, <3>2 DEF Reject, s
    <3>4. \A j \in AllIds : cmgr.client_array[j] # d
      BY <3>3 DEF CMInv, Consistent
    <3>5. Unlist(s, d) = cmgr.client_array
      BY <3>1, <3>4 DEF Unlist, CMInv, CMState
    <3> QED
      BY <2>3, <3>2, <3>5 DEF Reject, s
  <2>4. CASE Reap
    BY <2>4 DEF Reap, free_invalid_clients
  <2> QED
    BY <2>1, <2>2, <2>3, <2>4 DEF CMNext
<1>2. CMInv(cmgr) /\ [CMNext]_cmgr => [A]_cmgr
  BY <1>1
<1> QED
  BY <1>2, CMInvariance, PTL DEF CMSpec, RejectedIsHarmless
-----------------------------------------------------------------------------
(* What the servers' refinements of the relay need to know of the table. *)

\* Admitting a Client puts it in the table and kicks whom it replaces there;
\* a Client that is managed already changes nothing.
LEMMA AdmitTable ==
  ASSUME CMInv(cmgr), NEW c \in Clients, NEW i \in Ids, Admit(c, i)
  PROVE  LET p == cmgr.client_array[i]
         IN  /\ c \in cmgr.managed =>
                  /\ p = c
                  /\ cmgr'.invalid = cmgr.invalid
                  /\ cmgr'.client_array = cmgr.client_array
             /\ c \notin cmgr.managed =>
                  /\ p # c
                  /\ p # NULL => p \in cmgr.managed \ cmgr.invalid
                  /\ cmgr'.invalid = IF p = NULL THEN cmgr.invalid ELSE cmgr.invalid \cup {p}
                  /\ cmgr'.client_array = [cmgr.client_array EXCEPT ![i] = c]
<1> DEFINE s == SetId(cmgr, c, i)
           p == cmgr.client_array[i]
<1>1. /\ s \in CMState /\ s.invalid = cmgr.invalid /\ s.managed = cmgr.managed
      /\ s.client_array = cmgr.client_array /\ s.id[c] = i
  BY DEF SetId, CMInv, CMState, AllIds
<1>2. cmgr' = manage(s, c) /\ c \in cmgr.live \ cmgr.invalid
  BY DEF Admit
<1>3. CMInv(s)
  BY SetIdInv DEF Admit, AllIds
<1>4. i \in AllIds /\ p \in Clients \cup {NULL} /\ (p # NULL => p \in cmgr.managed \ cmgr.invalid)
  BY DEF CMInv, CMState, Consistent, AllIds
<1> HIDE DEF s
<1>5. CASE c \in cmgr.managed
  <2>1. cmgr' = s
    BY <1>1, <1>2, <1>5 DEF manage
  <2>2. s.client_array[i] = c
    BY <1>1, <1>2, <1>3, <1>4, <1>5 DEF CMInv, Consistent
  <2> QED
    BY <1>1, <1>5, <2>1, <2>2
<1>6. CASE c \notin cmgr.managed
  <2> DEFINE k == mark_client_as_invalid(s, p)
  <2>1. cmgr' = [k EXCEPT !.client_array[i] = c, !.managed = @ \cup {c}]
    BY <1>1, <1>2, <1>6 DEF manage, find_client_by_id
  <2>2. p # c
    BY <1>4, <1>6, CMAssumption
  <2>3. CASE p = NULL
    <3>1. k = s
      BY <2>3 DEF mark_client_as_invalid
    <3> HIDE DEF k
    <3>2. cmgr'.client_array = [s.client_array EXCEPT ![i] = c] /\ cmgr'.invalid = s.invalid
      BY <1>1, <2>1, <3>1 DEF CMState
    <3> QED
      BY <1>1, <1>6, <2>2, <2>3, <3>2
  <2>4. CASE p # NULL
    <3>1. k = [s EXCEPT !.invalid      = @ \cup {p},
                        !.client_array = Unlist(s, p),
                        !.listed[p]    = @ + 1]
      BY <2>4 DEF mark_client_as_invalid
    <3> HIDE DEF k
    <3>2. /\ k.invalid = s.invalid \cup {p} /\ k.client_array = Unlist(s, p)
          /\ k = [live |-> k.live, id |-> k.id, invalid |-> k.invalid,
                  managed |-> k.managed, client_array |-> k.client_array,
                  listed |-> k.listed]
      BY <1>1, <3>1 DEF CMState
    <3>3. cmgr'.invalid = k.invalid /\ cmgr'.client_array = [k.client_array EXCEPT ![i] = c]
      BY <2>1, <3>2
    <3>4. s.id[p] = i
      BY <1>1, <1>3, <1>4, <2>4 DEF CMInv, Consistent
    <3>5. [Unlist(s, p) EXCEPT ![i] = c] = [s.client_array EXCEPT ![i] = c]
      BY <1>1, <3>4 DEF Unlist, CMState
    <3> QED
      BY <1>1, <1>4, <1>6, <2>2, <2>4, <3>2, <3>3, <3>5
  <2> QED
    BY <2>3, <2>4
<1> QED
  BY <1>5, <1>6

\* Rejecting a Client takes its entry, if it has one, and no other.
LEMMA RejectTable ==
  ASSUME CMInv(cmgr), NEW c \in Clients, NEW i \in AllIds, Reject(c, i)
  PROVE  cmgr'.client_array =
           [j \in AllIds |-> IF cmgr.client_array[j] = c THEN NULL ELSE cmgr.client_array[j]]
<1> DEFINE s == SetId(cmgr, c, i)
<1>1. /\ s \in CMState /\ s.client_array = cmgr.client_array /\ s.id[c] = i
  BY DEF SetId, CMInv, CMState
<1>2. CMInv(s)
  BY SetIdInv DEF Reject
<1>3. cmgr' = mark_client_as_invalid(s, c)
  BY DEF Reject
<1> HIDE DEF s
<1>4. cmgr'.client_array = Unlist(s, c)
  BY <1>1, <1>3, CMAssumption DEF mark_client_as_invalid, CMState
<1>5. \A j \in AllIds : s.client_array[j] = c => j = i /\ j # UNIDENTIFIED_CLIENT
  BY <1>1, <1>2, CMAssumption DEF CMInv, Consistent
<1> QED
  BY <1>1, <1>4, <1>5 DEF Unlist
=============================================================================
