---------------------------- MODULE MCTCPServer ----------------------------
(* Instances of TCPServer: the alphabets of chunks that peers may send. *)
EXTENDS TCPServer, TLC

Chunk(k, s, d) == [kind |-> k, src |-> s, dst |-> d]

\* Data only: the first packet identifies its sender.
DataOnly == {Chunk("DATA", i, j) : i \in Ids, j \in Ids}

CONSTANTS i1, i2

\* A HELLO as the repository's clients send it, addressed to the id 0
\* (tcp_client.cpp:200), which is an ordinary id: i1 here.
Hello(i) == Chunk("HELLO", i, i1)

\* Well-behaved traffic: any peer may claim any id and write to any id.
Traffic == {Hello(i) : i \in Ids} \cup DataOnly

\* Two connections may compete for i1 while a third writes to it.
Takeover == {Hello(i1), Chunk("DATA", i2, i1)}

\* Traffic between two ids and ways of breaking the protocol: a packet that is
\* refused after it has named its sender, and a header that gives a length
\* below its own.
Misbehaviour ==
  {Chunk("DATA", i1, i1), Chunk("DATA", i2, i1), Chunk("BAD", i1, i1),
   Chunk("SHORT", UNIDENTIFIED_CLIENT, UNIDENTIFIED_CLIENT)}

\* One chunk of each sort, for a single id.
OneOfEach ==
  {Hello(i1), Chunk("DATA", i1, i1), Chunk("BAD", i1, i1),
   Chunk("PART", UNIDENTIFIED_CLIENT, UNIDENTIFIED_CLIENT),
   Chunk("LARGE", UNIDENTIFIED_CLIENT, UNIDENTIFIED_CLIENT)}

ClientSymmetry == Permutations(Clients)
=============================================================================
