----------------------------- MODULE PacketPipe -----------------------------
(***************************************************************************)
(* What one direction of a connection promises, without bytes, buffers or  *)
(* system calls: packets are taken out in the order in which they were put *)
(* in, each of them whole and once.  If the connection ends early, the     *)
(* packets that were sent last are lost, and nothing else.                 *)
(* ClientIO and V4Reader implement this specification (their property      *)
(* PipeSpec).                                                              *)
(***************************************************************************)
EXTENDS Naturals, Sequences

CONSTANTS Packets,   \* what is sent
          Control,   \* the packets among them that the reader keeps to itself
          TooLong,   \* the packets among them that the reader will not take
          Endless,   \* those it waits for without ever having all of them
          None       \* no packet

VARIABLES transit,   \* packets sent and not yet read, oldest first
          open,      \* whether the sender is still connected
          reading,   \* whether the reader still reads
          got,       \* the packet that the last call of the reader returned
          err        \* the error code it set

pipeVars == <<transit, open, reading, got, err>>

Init ==
  /\ transit = <<>>
  /\ open = TRUE
  /\ reading = TRUE
  /\ got = None
  /\ err = "none"

\* p is sent, or dropped: because it is too long, or others are waiting.
Send(p) ==
  /\ open
  /\ \/ transit' = Append(transit, p)
     \/ (transit # <<>> \/ p \in TooLong) /\ UNCHANGED transit
  /\ UNCHANGED <<open, reading, got, err>>

\* The sender disconnects or the connection breaks: the rest is lost.
Cut ==
  /\ open
  /\ open' = FALSE
  /\ \E k \in 0 .. Len(transit) : transit' = SubSeq(transit, 1, k)
  /\ UNCHANGED <<reading, got, err>>

Returns(p, e) == got' = p /\ err' = e /\ UNCHANGED open

\* The oldest packet is read: the caller gets it, or it is a control packet,
\* or it is not acceptable and the reader gives up.
Take ==
  /\ reading
  /\ transit # <<>>
  /\ Head(transit) \notin TooLong \cup Endless
  /\ transit' = Tail(transit)
  /\ \/ /\ Head(transit) \notin Control
        /\ Returns(Head(transit), "0")
        /\ UNCHANGED reading
     \/ /\ Head(transit) \in Control
        /\ Returns(None, "0")
        /\ UNCHANGED reading
     \/ Returns(None, "EINVAL") /\ reading' = FALSE

\* Not enough has arrived for the oldest packet; for an Endless one there never
\* will be, and it is not taken, nor is any behind it.
Wait == reading /\ Returns(None, "EAGAIN") /\ UNCHANGED <<transit, reading>>

\* The oldest packet, or the one that was lost halfway, is too long.
Overrun ==
  /\ reading
  /\ IF transit # <<>> THEN Head(transit) \in TooLong ELSE ~open
  /\ Returns(None, "EMSGSIZE")
  /\ reading' = FALSE
  /\ UNCHANGED transit

\* Everything that was not lost has been read, or waits for an Endless packet.
End ==
  /\ reading
  /\ ~open
  /\ transit # <<>> => Head(transit) \in Endless
  /\ \E e \in {"ESHUTDOWN", "ECONNRESET"} : Returns(None, e)
  /\ reading' = FALSE
  /\ UNCHANGED transit

Next == (\E p \in Packets : Send(p)) \/ Cut \/ Take \/ Wait \/ Overrun \/ End

Spec == Init /\ [][Next]_pipeVars
=============================================================================
