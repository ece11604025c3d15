------------------------------- MODULE Relay -------------------------------
(***************************************************************************)
(* What the message server promises, without sockets, events or loops: a   *)
(* connection takes a name, and a message sent to a name is put at the end *)
(* of the mailbox of the connection that owns the name at that moment.     *)
(* TCPServer, V5Server and V4Server implement this specification (their    *)
(* property RelaySpec).                                                    *)
(***************************************************************************)
EXTENDS Naturals, Sequences

CONSTANTS Conns,     \* connections
          Names,     \* names a connection can take
          NoConn,    \* the owner of a name that nobody holds
          Messages,  \* records with (at least) the fields src and dst
          Limit,     \* a mailbox that holds fewer messages is never full
          Verified   \* whether a bound connection must send under its name

VARIABLES session,   \* the life of each connection
          owner,     \* the connection that holds each name
          mailbox    \* messages accepted for a connection and not yet read

relayVars == <<session, owner, mailbox>>

Init ==
  /\ session = [c \in Conns |-> "absent"]
  /\ owner   = [n \in Names |-> NoConn]
  /\ mailbox = [c \in Conns |-> <<>>]

Accept(c) ==
  /\ session[c] = "absent"
  /\ session' = [session EXCEPT ![c] = "fresh"]
  /\ UNCHANGED <<owner, mailbox>>

\* c speaks as n: a fresh connection takes the name, from its previous owner
\* if there is one; a bound one has to keep to its name.
Speak(c, n) ==
  \/ /\ session[c] = "fresh"
     /\ session' = [d \in Conns |-> IF d = c             THEN "bound"
                                    ELSE IF d = owner[n] THEN "gone"
                                    ELSE session[d]]
     /\ owner' = [owner EXCEPT ![n] = c]
  \/ /\ session[c] = "bound"
     /\ owner[n] = c
     /\ UNCHANGED <<session, owner>>

Bind(c, n) == Speak(c, n) /\ UNCHANGED mailbox

\* c sends p under its own name (or another's, if nobody verifies): p reaches
\* the mailbox of whoever then owns the name p is addressed to.  It is dropped
\* only if nobody owns that name or the mailbox is full.
Submit(c, p) ==
  /\ \E n \in Names :
       /\ n # p.src => ~Verified /\ session[c] = "bound"
       /\ Speak(c, n)
  /\ LET d == IF p.dst \in Names THEN owner'[p.dst] ELSE NoConn
     IN  \/ /\ d # NoConn
            /\ mailbox' = [mailbox EXCEPT ![d] = Append(@, p)]
         \/ /\ d = NoConn \/ Len(mailbox[d]) >= Limit
            /\ UNCHANGED mailbox

\* The process at the other end of c reads its next message.
Receive(c) ==
  /\ session[c] \in {"bound", "gone"}
  /\ mailbox[c] # <<>>
  /\ mailbox' = [mailbox EXCEPT ![c] = Tail(@)]
  /\ UNCHANGED <<session, owner>>

\* c closes, fails or breaks the protocol: it gives up its name.
Hangup(c) ==
  /\ session[c] \in {"fresh", "bound"}
  /\ session' = [session EXCEPT ![c] = "gone"]
  /\ owner'   = [n \in Names |-> IF owner[n] = c THEN NoConn ELSE owner[n]]
  /\ UNCHANGED mailbox

\* The connections of S are over; what their owners have not read is lost.
Discard(S) ==
  /\ \A c \in S : session[c] = "gone"
  /\ session' = [c \in Conns |-> IF c \in S THEN "absent" ELSE session[c]]
  /\ mailbox' = [c \in Conns |-> IF c \in S THEN <<>> ELSE mailbox[c]]
  /\ UNCHANGED owner

Next ==
  \/ \E c \in Conns : Accept(c) \/ Receive(c) \/ Hangup(c)
  \/ \E c \in Conns, n \in Names : Bind(c, n)
  \/ \E c \in Conns, p \in Messages : Submit(c, p)
  \/ \E S \in SUBSET Conns : Discard(S)

Spec == Init /\ [][Next]_relayVars
=============================================================================
