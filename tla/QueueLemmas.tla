---------------------------- MODULE QueueLemmas ----------------------------
(***************************************************************************)
(* What the proofs need to know of the queues of packets: the operations   *)
(* of write_buffer and of the kernel's buffer keep a queue a queue, and    *)
(* moving packets from the one to the other changes neither the packets    *)
(* under way nor their order.  Then the same of bytes: what it means that  *)
(* each is in its place in its packet, and which packets a stream has.     *)
(***************************************************************************)
EXTENDS ByteStream, Integers, Sequences, SequenceTheorems, WellFoundedInduction, TLAPS

\* Queueing, reading and writing some of it keep a queue of S a queue of S.
LEMMA SeqFacts ==
  ASSUME NEW S, NEW s \in Seq(S)
  PROVE  /\ <<>> \in Seq(S)
         /\ \A p \in S : Append(s, p) \in Seq(S)
         /\ s # <<>> => Head(s) \in S /\ Tail(s) \in Seq(S)
         /\ \A n \in 0 .. Len(s) : /\ SubSeq(s, 1, n) \in Seq(S)
                                   /\ SubSeq(s, n + 1, Len(s)) \in Seq(S)
<1>1. \A n \in 0 .. Len(s) : SubSeq(s, 1, n) \in Seq(S)
  <2> TAKE n \in 0 .. Len(s)
  <2>1. \A i \in 1 .. n : s[i] \in S
    BY ElementOfSeq, LenProperties
  <2> QED
    BY <2>1, SubSeqProperties, LenProperties
<1>2. \A n \in 0 .. Len(s) : SubSeq(s, n + 1, Len(s)) \in Seq(S)
  <2> TAKE n \in 0 .. Len(s)
  <2>1. \A i \in n + 1 .. Len(s) : s[i] \in S
    BY ElementOfSeq, LenProperties
  <2> QED
    BY <2>1, SubSeqProperties, LenProperties
<1> QED
  BY <1>1, <1>2, EmptySeq, AppendProperties, HeadTailProperties

LEMMA SubSeqLength ==
  ASSUME NEW S, NEW s \in Seq(S), NEW n \in 0 .. Len(s)
  PROVE  /\ Len(SubSeq(s, 1, n)) = n
         /\ Len(SubSeq(s, n + 1, Len(s))) = Len(s) - n
<1>1. Len(s) \in Nat /\ \A i \in 1 .. Len(s) : s[i] \in S
  BY LenProperties, ElementOfSeq
<1> QED
  BY <1>1, SubSeqProperties

\* A queue is its first n elements and the rest.
LEMMA SplitAt ==
  ASSUME NEW S, NEW q \in Seq(S), NEW n \in 0 .. Len(q)
  PROVE  SubSeq(q, 1, n) \o SubSeq(q, n + 1, Len(q)) = q
<1> DEFINE m == 1
           l == Len(q)
<1>1. m \in 1 .. Len(q) + 1 /\ n \in m - 1 .. Len(q) /\ l \in n .. Len(q)
  BY LenProperties
<1>2. SubSeq(q, m, l) = q
  BY SubSeqFull
<1> HIDE DEF m, l
<1>3. SubSeq(q, m, n) \o SubSeq(q, n + 1, l) = SubSeq(q, m, l)
  BY <1>1, ConcatAdjacentSubSeq
<1> QED
  BY <1>2, <1>3, ZenonT(40) DEF m, l

\* Writing: the first n packets of q go to the end of w.
LEMMA Moving ==
  ASSUME NEW S, NEW w \in Seq(S), NEW q \in Seq(S), NEW n \in 0 .. Len(q)
  PROVE  (w \o SubSeq(q, 1, n)) \o SubSeq(q, n + 1, Len(q)) = w \o q
<1>1. SubSeq(q, 1, n) \in Seq(S) /\ SubSeq(q, n + 1, Len(q)) \in Seq(S)
  BY SeqFacts
<1>2. SubSeq(q, 1, n) \o SubSeq(q, n + 1, Len(q)) = q
  BY SplitAt
<1> DEFINE a == SubSeq(q, 1, n)
           b == SubSeq(q, n + 1, Len(q))
<1>3. a \in Seq(S) /\ b \in Seq(S) /\ a \o b = q
  BY <1>1, <1>2
<1> HIDE DEF a, b
<1>4. \A u, v \in Seq(S) : (w \o u) \o v = w \o (u \o v)
  BY ConcatAssociative, SMTT(40)
<1>5. (w \o a) \o b = w \o (a \o b)
  BY <1>3, <1>4, Zenon
<1> QED
  BY <1>3, <1>5, ZenonT(40) DEF a, b

\* Reading: the first packet under way is the first of w, if there is one.
LEMMA Taking ==
  ASSUME NEW S, NEW w \in Seq(S), NEW q \in Seq(S), w # <<>>
  PROVE  /\ w \o q # <<>>
         /\ Head(w \o q) = Head(w)
         /\ Tail(w \o q) = Tail(w) \o q
<1>1. w \o q \in Seq(S) /\ w \o q # <<>>
  BY ConcatProperties, ConcatEqualIffEmpty
<1>2. /\ Len(w) \in Nat \ {0} /\ Len(q) \in Nat
      /\ Len(w \o q) = Len(w) + Len(q)
      /\ \A i \in 1 .. Len(w) + Len(q) :
           (w \o q)[i] = IF i <= Len(w) THEN w[i] ELSE q[i - Len(w)]
  BY EmptySeq, LenProperties, ConcatProperties
<1>3. Head(w \o q) = Head(w)
  <2>1. (w \o q)[1] = w[1]
    BY <1>2
  <2> QED
    BY <2>1
<1>4. Tail(w) \in Seq(S) /\ Tail(w \o q) \in Seq(S) /\ Tail(w) \o q \in Seq(S)
  BY <1>1, SeqFacts, ConcatProperties
<1>5. /\ Len(Tail(w)) = Len(w) - 1
      /\ \A i \in 1 .. Len(Tail(w)) : Tail(w)[i] = w[i + 1]
  BY HeadTailProperties
<1>6. /\ Len(Tail(w \o q)) = Len(w \o q) - 1
      /\ \A i \in 1 .. Len(Tail(w \o q)) : Tail(w \o q)[i] = (w \o q)[i + 1]
  BY <1>1, HeadTailProperties
<1>7. /\ Len(Tail(w) \o q) = Len(Tail(w)) + Len(q)
      /\ \A i \in 1 .. Len(Tail(w)) + Len(q) :
           (Tail(w) \o q)[i] = IF i <= Len(Tail(w)) THEN Tail(w)[i] ELSE q[i - Len(Tail(w))]
  BY <1>4, ConcatProperties
<1>8. Len(Tail(w \o q)) = Len(Tail(w) \o q)
  BY <1>2, <1>5, <1>6, <1>7
<1>9. ASSUME NEW i \in 1 .. Len(Tail(w \o q))
      PROVE  Tail(w \o q)[i] = (Tail(w) \o q)[i]
  <2>1. i \in 1 .. Len(w) + Len(q) - 1
    BY <1>2, <1>6
  <2>2. Tail(w \o q)[i] = IF i + 1 <= Len(w) THEN w[i + 1] ELSE q[i + 1 - Len(w)]
    BY <1>2, <1>6, <2>1
  <2>3. (Tail(w) \o q)[i] = IF i <= Len(w) - 1 THEN w[i + 1] ELSE q[i - (Len(w) - 1)]
    BY <1>2, <1>5, <1>7, <2>1
  <2>4. i + 1 - Len(w) = i - (Len(w) - 1) /\ (i + 1 <= Len(w) <=> i <= Len(w) - 1)
    BY <1>2, <2>1
  <2> QED
    BY <2>2, <2>3, <2>4
<1> QED
  BY <1>1, <1>3, <1>4, <1>8, <1>9, SeqEqual

\* Queueing: a packet added to q is the last under way, and the first only if
\* nothing was.
LEMMA Adding ==
  ASSUME NEW S, NEW w \in Seq(S), NEW q \in Seq(S), NEW p \in S
  PROVE  /\ w \o Append(q, p) = Append(w \o q, p)
         /\ w \o q # <<>> =>
              w \o Append(q, p) # <<>> /\ Head(w \o Append(q, p)) = Head(w \o q)
<1>1. <<p>> \in Seq(S) /\ w \o q \in Seq(S)
  BY ConcatProperties, AppendIsConcat, EmptySeq, AppendProperties
<1>2. w \o Append(q, p) = Append(w \o q, p)
  <2>1. Append(q, p) = q \o <<p>> /\ Append(w \o q, p) = (w \o q) \o <<p>>
    BY <1>1, AppendIsConcat
  <2> QED
    BY <1>1, <2>1, ConcatAssociative
<1> QED
  BY <1>1, <1>2, HeadTailAppend, AppendProperties

-----------------------------------------------------------------------------
(* Queues in which nobody is twice.                                         *)

Single(q) == \A j, k \in 1 .. Len(q) : q[j] = q[k] => j = k

Elements(q) == {q[k] : k \in 1 .. Len(q)}

\* The first one leaves.
LEMMA Leaving ==
  ASSUME NEW S, NEW q \in Seq(S), q # <<>>, Single(q)
  PROVE  /\ Head(q) \in S /\ Head(q) \in Elements(q)
         /\ Tail(q) \in Seq(S) /\ Single(Tail(q))
         /\ Elements(Tail(q)) = Elements(q) \ {Head(q)}
<1> DEFINE t == Tail(q)
           l == Len(q)
<1>1. /\ l \in Nat \ {0} /\ t \in Seq(S) /\ Len(t) = l - 1
      /\ Head(q) = q[1] /\ Head(q) \in S
      /\ \A k \in 1 .. l - 1 : t[k] = q[k + 1]
  BY HeadTailProperties, EmptySeq, LenProperties
<1> HIDE DEF t, l
<1>2. 1 \in 1 .. l
  BY <1>1
<1>3. Head(q) \in Elements(q)
  BY <1>1, <1>2 DEF Elements, l
<1>4. ASSUME NEW j \in 1 .. Len(t), NEW k \in 1 .. Len(t), t[j] = t[k]
      PROVE  j = k
  <2>1. j \in Nat /\ k \in Nat /\ j + 1 \in 1 .. l /\ k + 1 \in 1 .. l
    BY <1>1
  <2>2. q[j + 1] = q[k + 1]
    BY <1>1, <1>4
  <2> QED
    BY <2>1, <2>2 DEF Single, l
<1>5. ASSUME NEW k \in 1 .. Len(t) PROVE t[k] \in Elements(q) \ {Head(q)}
  <2>1. k + 1 \in 1 .. l /\ k + 1 # 1 /\ t[k] = q[k + 1]
    BY <1>1
  <2> QED
    BY <1>1, <1>2, <2>1 DEF Single, Elements, l
<1>6. ASSUME NEW k \in 1 .. l, q[k] # Head(q) PROVE q[k] \in Elements(t)
  <2>1. k - 1 \in 1 .. Len(t) /\ (k - 1) + 1 = k
    BY <1>1, <1>6
  <2>2. t[k - 1] = q[k]
    BY <1>1, <2>1
  <2> QED
    BY <2>1, <2>2 DEF Elements
<1>7. Elements(t) = Elements(q) \ {Head(q)}
  BY <1>5, <1>6 DEF Elements, l
<1> QED
  BY <1>1, <1>3, <1>4, <1>7 DEF Single, t

\* Another one joins at the end.
LEMMA Joining ==
  ASSUME NEW S, NEW q \in Seq(S), NEW p \in S, Single(q), p \notin Elements(q)
  PROVE  LET r == Append(q, p)
         IN  /\ r \in Seq(S) /\ r # <<>> /\ Single(r)
             /\ Elements(r) = Elements(q) \cup {p}
<1> DEFINE r == Append(q, p)
           l == Len(q)
<1>1. /\ l \in Nat /\ r \in Seq(S) /\ Len(r) = l + 1 /\ r # <<>>
      /\ r[l + 1] = p
      /\ \A k \in 1 .. l : r[k] = q[k]
  BY AppendProperties, LenProperties
<1> HIDE DEF r, l
<1>2. \A k \in 1 .. Len(r) : k \in 1 .. l \/ k = l + 1
  BY <1>1
<1>3. \A k \in 1 .. l : q[k] \in Elements(q) /\ r[k] # p /\ k \in 1 .. Len(r)
  BY <1>1 DEF Elements, l
<1>4. l + 1 \in 1 .. Len(r)
  BY <1>1
<1>5. Single(r)
  BY <1>1, <1>2, <1>3, SMTT(30) DEF Single, l
<1>6. Elements(r) = Elements(q) \cup {p}
  BY <1>1, <1>2, <1>3, <1>4 DEF Elements, l
<1> QED
  BY <1>1, <1>5, <1>6 DEF r

-----------------------------------------------------------------------------
(* Streams of bytes.                                                        *)

\* Every byte of s tells the rest of its packet: where it begins in s, and what
\* stands at each of its places, as far as s goes.
Placed(s) ==
  \A k \in 1 .. Len(s) :
    /\ s[k].at <= k
    /\ \A j \in 1 .. Len(s) :
         j - k + s[k].at \in 1 .. s[k].of.length =>
           s[j] = [of |-> s[k].of, at |-> j - k + s[k].at]

\* No packet of s goes on behind its end.
Finished(s) == \A k \in 1 .. Len(s) : k - s[k].at + s[k].of.length <= Len(s)

\* What is known of each byte of a stream.
LEMMA ByteFacts ==
  ASSUME NEW P, \A p \in P : p.length \in Nat, NEW s \in Seq(Bytes(P))
  PROVE  /\ Len(s) \in Nat
         /\ \A k \in 1 .. Len(s) : /\ s[k] \in Bytes(P)
                                   /\ s[k].of \in P
                                   /\ s[k].at \in Nat \ {0}
                                   /\ s[k].of.length \in Nat
                                   /\ s[k].at <= s[k].of.length
                                   /\ s[k] = [of |-> s[k].of, at |-> s[k].at]
<1>1. Len(s) \in Nat /\ \A k \in 1 .. Len(s) : s[k] \in Bytes(P)
  BY ElementOfSeq, LenProperties
<1> QED
  BY <1>1 DEF Bytes

\* The bytes of one packet are a stream of one packet.
LEMMA OnePacket ==
  ASSUME NEW P, \A p \in P : p.length \in Nat, NEW p \in P
  PROVE  LET s == [k \in 1 .. p.length |-> [of |-> p, at |-> k]]
         IN  /\ s \in Seq(Bytes(P)) /\ Len(s) = p.length
             /\ Placed(s) /\ Finished(s)
             /\ \A k \in 1 .. Len(s) : s[k].of = p
<1> DEFINE s == [k \in 1 .. p.length |-> [of |-> p, at |-> k]]
<1>1. p.length \in Nat
  OBVIOUS
<1>2. \A k \in 1 .. p.length : s[k] = [of |-> p, at |-> k] /\ s[k] \in Bytes(P)
  BY <1>1 DEF Bytes
<1>3. s \in Seq(Bytes(P)) /\ Len(s) = p.length
  <2>1. s \in [1 .. p.length -> Bytes(P)]
    BY <1>2
  <2>2. DOMAIN s = 1 .. p.length
    OBVIOUS
  <2> HIDE DEF s
  <2>3. s \in Seq(Bytes(P))
    BY <1>1, <2>1, SeqDef
  <2> QED
    BY <1>1, <2>2, <2>3, LenProperties
<1> DEFINE n == p.length
<1>4. n \in Nat /\ Len(s) = n
  BY <1>1, <1>3
<1>5. \A k \in 1 .. n : s[k].of = p /\ s[k].at = k /\ s[k].of.length = n
  BY <1>2
<1> HIDE DEF s, n
<1>6. Placed(s)
  <2> SUFFICES ASSUME NEW k \in 1 .. n, NEW j \in 1 .. n
               PROVE  s[k].at <= k /\ s[j] = [of |-> s[k].of, at |-> j - k + s[k].at]
    BY <1>4 DEF Placed
  <2>1. j - k + s[k].at = j
    BY <1>4, <1>5
  <2> QED
    BY <1>2, <1>4, <1>5, <2>1 DEF n
<1>7. Finished(s)
  BY <1>4, <1>5 DEF Finished
<1> QED
  BY <1>3, <1>4, <1>5, <1>6, <1>7 DEF s, n

\* A stream begins with its first packet.
LEMMA FirstPacket ==
  ASSUME NEW P, \A p \in P : p.length \in Nat, NEW s \in Seq(Bytes(P)),
         Placed(s), s # <<>>
  PROVE  /\ s[1].of \in P /\ s[1].of.length \in Nat \ {0}
         /\ Len(s) \in Nat \ {0}
         /\ \A j \in 1 .. Len(s) :
              j <= s[1].of.length => s[j] = [of |-> s[1].of, at |-> j]
<1>1. Len(s) \in Nat \ {0}
  BY EmptySeq, LenProperties
<1>2. 1 \in 1 .. Len(s)
  BY <1>1
<1>3. s[1].of \in P /\ s[1].at = 1 /\ s[1].of.length \in Nat \ {0}
  <2> DEFINE b == s[1]
  <2>1. /\ b.of \in P /\ b.at \in Nat \ {0} /\ b.of.length \in Nat
        /\ b.at <= b.of.length
    BY <1>2, ByteFacts
  <2>2. b.at <= 1
    BY <1>2 DEF Placed
  <2> HIDE DEF b
  <2>3. b.at = 1 /\ b.of.length # 0
    BY <2>1, <2>2
  <2> QED
    BY <2>1, <2>3 DEF b
<1>4. ASSUME NEW j \in 1 .. Len(s), j <= s[1].of.length
      PROVE  s[j] = [of |-> s[1].of, at |-> j]
  <2>1. j - 1 + s[1].at = j
    BY <1>1, <1>3
  <2>2. j \in 1 .. s[1].of.length
    BY <1>1, <1>3, <1>4
  <2> QED
    BY <1>2, <2>1, <2>2 DEF Placed
<1> QED
  BY <1>1, <1>3, <1>4

\* Each byte is followed by the next of its packet, or the first of another.
LEMMA NextByte ==
  ASSUME NEW P, \A p \in P : p.length \in Nat, NEW s \in Seq(Bytes(P)),
         Placed(s), NEW k \in 1 .. Len(s)
  PROVE  /\ k = 1 => s[k].at = 1
         /\ k < Len(s) => IF s[k].at = s[k].of.length
                            THEN s[k + 1].at = 1
                            ELSE s[k + 1] = [of |-> s[k].of, at |-> s[k].at + 1]
         /\ Finished(s) /\ s[k].at # s[k].of.length => k < Len(s)
         /\ Finished(s) => s[Len(s)].at = s[Len(s)].of.length
<1> DEFINE l == Len(s)
           b == s[k]
           d == s[l]
<1>1. /\ l \in Nat /\ b.at \in Nat \ {0} /\ b.of.length \in Nat
      /\ b.at <= b.of.length
  BY ByteFacts
<1>2. b.at <= k
  BY DEF Placed
<1>3. k \in 1 .. l
  OBVIOUS
<1>4. Finished(s) => k - b.at + b.of.length <= l
  BY DEF Finished
<1>5. ASSUME Finished(s) PROVE d.at = d.of.length
  <2>1. l \in 1 .. l
    BY <1>1, <1>3
  <2>2. d.at \in Nat /\ d.of.length \in Nat /\ d.at <= d.of.length
    BY <2>1, ByteFacts
  <2>3. l - d.at + d.of.length <= l
    BY <1>5, <2>1 DEF Finished
  <2> HIDE DEF l, d
  <2> QED
    BY <1>1, <2>2, <2>3
<1>6. ASSUME k < l
      PROVE  IF b.at = b.of.length THEN s[k + 1].at = 1
                                   ELSE s[k + 1] = [of |-> b.of, at |-> b.at + 1]
  <2> DEFINE c == s[k + 1]
  <2> HIDE DEF l
  <2>1. k + 1 \in 1 .. l
    BY <1>1, <1>3, <1>6
  <2>2. c.at \in Nat \ {0} /\ c.of.length \in Nat /\ c.at <= c.of.length
    BY <2>1, ByteFacts DEF l
  <2>3. ASSUME b.at = b.of.length, c.at # 1 PROVE FALSE
    <3> HIDE DEF b, c
    <3>1. k - (k + 1) + c.at = c.at - 1 /\ c.at - 1 \in 1 .. c.of.length
      BY <1>1, <1>3, <2>2, <2>3
    <3>2. b = [of |-> c.of, at |-> c.at - 1]
      BY <1>3, <2>1, <3>1 DEF Placed, b, c, l
    <3>3. b.of = c.of /\ b.at = c.at - 1
      BY <3>2
    <3> QED
      BY <2>2, <2>3, <3>3
  <2>4. ASSUME b.at # b.of.length PROVE c = [of |-> b.of, at |-> b.at + 1]
    <3> HIDE DEF b, c
    <3>1. k + 1 - k + b.at = b.at + 1 /\ b.at + 1 \in 1 .. b.of.length
      BY <1>1, <1>3, <2>4
    <3>2. \A j \in 1 .. l : j - k + b.at \in 1 .. b.of.length =>
                              s[j] = [of |-> b.of, at |-> j - k + b.at]
      BY <1>3 DEF Placed, b, l
    <3>3. c = [of |-> b.of, at |-> k + 1 - k + b.at]
      BY <2>1, <3>1, <3>2 DEF c
    <3> QED
      BY <3>1, <3>3
  <2> QED
    BY <2>3, <2>4
<1> HIDE DEF b, l
<1>7. k = 1 => b.at = 1
  BY <1>1, <1>2
<1>8. Finished(s) /\ b.at # b.of.length => k < l
  BY <1>1, <1>3, <1>4
<1> QED
  BY <1>5, <1>6, <1>7, <1>8 DEF b, l

\* A stream that is cut off is a stream.
LEMMA CutOff ==
  ASSUME NEW P, \A p \in P : p.length \in Nat, NEW s \in Seq(Bytes(P)),
         Placed(s), NEW n \in 0 .. Len(s)
  PROVE  Placed(SubSeq(s, 1, n))
<1>1. /\ Len(s) \in Nat
      /\ Len(SubSeq(s, 1, n)) = n
      /\ \A k \in 1 .. n : SubSeq(s, 1, n)[k] = s[k]
  <2>1. \A k \in 1 .. n : s[k] \in Bytes(P)
    BY ByteFacts
  <2>2. Len(s) \in Nat
    BY LenProperties
  <2>3. n - 1 + 1 = n /\ \A k \in 1 .. n : 1 + k - 1 = k
    BY <2>2
  <2> QED
    BY <2>1, <2>2, <2>3, SubSeqProperties
<1> QED
  BY <1>1 DEF Placed

\* So is what comes after its first packet.
LEMMA AfterFirst ==
  ASSUME NEW P, \A p \in P : p.length \in Nat, NEW s \in Seq(Bytes(P)),
         Placed(s), s # <<>>, s[1].of.length <= Len(s)
  PROVE  LET t == SubSeq(s, s[1].of.length + 1, Len(s))
         IN  Placed(t) /\ (Finished(s) => Finished(t))
<1> DEFINE n == s[1].of.length
           t == SubSeq(s, n + 1, Len(s))
           l == Len(s)
<1>1. n \in Nat \ {0} /\ l \in Nat \ {0} /\ n <= l
  BY FirstPacket
<1>2. Len(t) = l - n /\ \A k \in 1 .. l - n : t[k] = s[k + n]
  <2>1. \A k \in n + 1 .. l : s[k] \in Bytes(P)
    BY <1>1, ByteFacts
  <2> HIDE DEF n, l
  <2>2. /\ l - (n + 1) + 1 = l - n /\ n + 1 \in Int /\ l \in Int
        /\ \A k \in 1 .. l - n : (n + 1) + k - 1 = k + n
        /\ n + 1 <= l <=> l - n # 0
    BY <1>1, SMTT(40)
  <2>3. /\ Len(SubSeq(s, n + 1, l)) = IF n + 1 <= l THEN l - (n + 1) + 1 ELSE 0
        /\ \A k \in 1 .. l - (n + 1) + 1 : SubSeq(s, n + 1, l)[k] = s[(n + 1) + k - 1]
    BY <2>1, <2>2, SubSeqProperties
  <2> QED
    BY <1>1, <2>2, <2>3 DEF l
<1>3. \A j \in 1 .. n : s[j] = [of |-> s[1].of, at |-> j]
  BY <1>1, FirstPacket
<1> HIDE DEF n, l
<1>4. ASSUME NEW k \in 1 .. l - n
      PROVE  /\ k + n \in 1 .. l
             /\ s[k + n].at \in Nat \ {0} /\ s[k + n].of.length \in Nat
             /\ s[k + n].at <= s[k + n].of.length
             /\ s[k + n].at <= k
  <2> DEFINE c == s[k + n]
  <2>1. k + n \in 1 .. l
    BY <1>1
  <2>2. /\ c.at \in Nat \ {0} /\ c.of.length \in Nat /\ c.at <= c.of.length
        /\ c.at <= k + n
    BY <2>1, ByteFacts DEF l, Placed
  <2>3. ASSUME c.at > k PROVE FALSE
    <3> DEFINE j == k + n - c.at + 1
    <3> HIDE DEF c
    <3>1. j \in 1 .. n /\ j \in 1 .. l /\ j - (k + n) + c.at = 1 /\ 1 \in 1 .. c.of.length
      BY <1>1, <2>1, <2>2, <2>3, SMTT(40)
    <3> HIDE DEF j
    <3>2. s[j] = [of |-> c.of, at |-> 1]
      BY <2>1, <3>1 DEF Placed, l, c
    <3>3. s[j] = [of |-> s[1].of, at |-> j]
      BY <1>3, <3>1
    <3>4. c.of = s[1].of /\ j = 1
      BY <3>2, <3>3
    <3>5. c.of.length = n
      BY <3>4 DEF n
    <3> QED
      BY <1>1, <2>2, <2>3, <3>4, <3>5 DEF j
  <2> QED
    BY <1>1, <2>1, <2>2, <2>3
<1> HIDE DEF t
<1>5. Placed(t)
  <2> SUFFICES ASSUME NEW k \in 1 .. l - n, NEW j \in 1 .. l - n,
                      j - k + t[k].at \in 1 .. t[k].of.length
               PROVE  t[j] = [of |-> t[k].of, at |-> j - k + t[k].at]
    BY <1>2, <1>4 DEF Placed
  <2>1. t[k] = s[k + n] /\ t[j] = s[j + n]
    BY <1>2
  <2>2. /\ k + n \in 1 .. l /\ j + n \in 1 .. l
        /\ (j + n) - (k + n) + t[k].at = j - k + t[k].at
    BY <1>1, <1>4, <2>1
  <2> QED
    BY <2>1, <2>2 DEF Placed, l
<1>6. ASSUME Finished(s) PROVE Finished(t)
  <2> SUFFICES ASSUME NEW k \in 1 .. l - n
               PROVE  k - t[k].at + t[k].of.length <= l - n
    BY <1>2 DEF Finished
  <2>1. t[k] = s[k + n] /\ k + n \in 1 .. l
    BY <1>2, <1>4
  <2> DEFINE c == s[k + n]
  <2>2. (k + n) - c.at + c.of.length <= l
    BY <1>6, <2>1 DEF Finished, l
  <2>3. c.at \in Nat /\ c.of.length \in Nat
    BY <1>4
  <2> HIDE DEF c
  <2>4. k - c.at + c.of.length <= l - n
    BY <1>1, <2>2, <2>3, SMTT(40)
  <2> QED
    BY <2>1, <2>4 DEF c
<1> QED
  BY <1>5, <1>6 DEF t, n, l

\* A stream may go on behind the last packet of another.
LEMMA Joined ==
  ASSUME NEW P, \A p \in P : p.length \in Nat,
         NEW s \in Seq(Bytes(P)), Placed(s), Finished(s),
         NEW t \in Seq(Bytes(P)), Placed(t)
  PROVE  Placed(s \o t) /\ (Finished(t) => Finished(s \o t))
<1> DEFINE u == s \o t
           l == Len(s)
           m == Len(t)
<1>1. /\ l \in Nat /\ m \in Nat /\ Len(u) = l + m
      /\ \A k \in 1 .. l + m : u[k] = IF k <= l THEN s[k] ELSE t[k - l]
  BY LenProperties, ConcatProperties
<1>2. ASSUME NEW k \in 1 .. l
      PROVE  /\ u[k] = s[k]
             /\ s[k].at \in Nat \ {0} /\ s[k].of.length \in Nat
             /\ s[k].at <= k
             /\ k - s[k].at + s[k].of.length <= l
  <2>1. /\ s[k].at \in Nat \ {0} /\ s[k].of.length \in Nat
        /\ s[k].at <= k /\ k - s[k].at + s[k].of.length <= l
    BY ByteFacts DEF Placed, Finished
  <2>2. k \in 1 .. l + m /\ k <= l
    BY <1>1
  <2> HIDE DEF u
  <2> QED
    BY <1>1, <2>1, <2>2
<1>3. ASSUME NEW k \in l + 1 .. l + m
      PROVE  /\ u[k] = t[k - l]
             /\ k - l \in 1 .. m
             /\ t[k - l].at \in Nat \ {0} /\ t[k - l].of.length \in Nat
             /\ t[k - l].at <= k - l
  <2>1. k - l \in 1 .. m /\ ~(k <= l) /\ k \in 1 .. l + m
    BY <1>1
  <2> QED
    BY <1>1, <2>1, ByteFacts DEF Placed
<1> HIDE DEF u
<1>4. Placed(u)
  <2> SUFFICES ASSUME NEW k \in 1 .. l + m
               PROVE  /\ u[k].at <= k
                      /\ \A j \in 1 .. l + m :
                           j - k + u[k].at \in 1 .. u[k].of.length =>
                             u[j] = [of |-> u[k].of, at |-> j - k + u[k].at]
    BY <1>1 DEF Placed
  <2>1. CASE k <= l
    <3>1. k \in 1 .. l
      BY <1>1, <2>1
    <3> DEFINE c == s[k]
    <3>2. /\ u[k] = c /\ c.at \in Nat \ {0} /\ c.of.length \in Nat
          /\ c.at <= k /\ k - c.at + c.of.length <= l
      BY <1>2, <3>1
    <3> HIDE DEF c, l, m
    <3>3. ASSUME NEW j \in 1 .. l + m, j - k + c.at \in 1 .. c.of.length
          PROVE  u[j] = [of |-> c.of, at |-> j - k + c.at]
      <4>1. j \in 1 .. l
        BY <1>1, <3>1, <3>2, <3>3
      <4>2. s[j] = [of |-> c.of, at |-> j - k + c.at]
        BY <3>1, <3>3, <4>1 DEF Placed, c, l
      <4> QED
        BY <1>2, <4>1, <4>2
    <3> QED
      BY <3>2, <3>3
  <2>2. CASE ~(k <= l)
    <3>1. k \in l + 1 .. l + m
      BY <1>1, <2>2
    <3> DEFINE c == t[k - l]
    <3>2. /\ u[k] = c /\ k - l \in 1 .. m /\ c.at <= k - l
          /\ c.at \in Nat \ {0} /\ c.of.length \in Nat
      BY <1>3, <3>1
    <3> HIDE DEF c
    <3>3. ASSUME NEW j \in 1 .. l + m, j - k + c.at \in 1 .. c.of.length
          PROVE  u[j] = [of |-> c.of, at |-> j - k + c.at]
      <4>1. j \in l + 1 .. l + m
        BY <1>1, <3>1, <3>2, <3>3
      <4>2. /\ (j - l) - (k - l) + c.at = j - k + c.at
            /\ j - l \in 1 .. m
            /\ u[j] = t[j - l]
        BY <1>1, <1>3, <3>1, <3>2, <4>1
      <4>3. (j - l) - (k - l) + c.at \in 1 .. c.of.length
        BY <3>3, <4>2
      <4>4. t[j - l] = [of |-> c.of, at |-> (j - l) - (k - l) + c.at]
        BY <3>2, <4>2, <4>3 DEF Placed, c
      <4> QED
        BY <4>2, <4>4
    <3>4. u[k].at <= k
      BY <1>1, <3>1, <3>2
    <3> QED
      BY <3>2, <3>3, <3>4
  <2> QED
    BY <2>1, <2>2
<1>5. ASSUME Finished(t) PROVE Finished(u)
  <2> SUFFICES ASSUME NEW k \in 1 .. l + m
               PROVE  k - u[k].at + u[k].of.length <= l + m
    BY <1>1 DEF Finished
  <2>1. CASE k <= l
    <3>1. k \in 1 .. l
      BY <1>1, <2>1
    <3> DEFINE c == s[k]
    <3>2. /\ u[k] = c /\ c.at \in Nat \ {0} /\ c.of.length \in Nat
          /\ k - c.at + c.of.length <= l
      BY <1>2, <3>1
    <3> HIDE DEF c, l, m
    <3> QED
      BY <1>1, <3>2
  <2>2. CASE ~(k <= l)
    <3>1. k \in l + 1 .. l + m
      BY <1>1, <2>2
    <3> DEFINE c == t[k - l]
    <3>2. /\ u[k] = c /\ k - l \in 1 .. m
          /\ c.at \in Nat \ {0} /\ c.of.length \in Nat
      BY <1>3, <3>1
    <3>3. (k - l) - c.at + c.of.length <= m
      BY <1>5, <3>2 DEF Finished
    <3> HIDE DEF c, l, m
    <3> QED
      BY <1>1, <3>2, <3>3
  <2> QED
    BY <2>1, <2>2
<1> QED
  BY <1>4, <1>5 DEF u

\* A sequence put together of two can be taken apart again.
LEMMA Halves ==
  ASSUME NEW S, NEW u \in Seq(S), NEW v \in Seq(S)
  PROVE  /\ SubSeq(u \o v, 1, Len(u)) = u
         /\ SubSeq(u \o v, Len(u) + 1, Len(u \o v)) = v
<1> DEFINE w == u \o v
           l == Len(u)
           m == Len(v)
<1>1. /\ l \in Nat /\ m \in Nat /\ w \in Seq(S) /\ Len(w) = l + m
      /\ \A k \in 1 .. l + m : w[k] = IF k <= l THEN u[k] ELSE v[k - l]
  BY LenProperties, ConcatProperties
<1> HIDE DEF w
<1>2. \A k \in 1 .. Len(w) : w[k] \in S
  BY <1>1, ElementOfSeq
<1>3. SubSeq(w, 1, l) = u
  <2> DEFINE a == SubSeq(w, 1, l)
  <2>1. a \in Seq(S) /\ Len(a) = l
    BY <1>1, SeqFacts, SubSeqLength
  <2>2. ASSUME NEW k \in 1 .. l PROVE a[k] = u[k]
    <3> HIDE DEF l, m
    <3>1. 1 + k - 1 = k /\ k \in 1 .. l - 1 + 1 /\ k <= l /\ k \in 1 .. l + m
          /\ l \in Int
      BY <1>1
    <3>2. a[k] = w[1 + k - 1]
      BY <1>1, <1>2, <3>1, SubSeqProperties
    <3> QED
      BY <1>1, <3>1, <3>2
  <2> HIDE DEF a
  <2>3. a = u
    BY <2>1, <2>2, SeqEqual
  <2> QED
    BY <2>3 DEF a
<1>4. SubSeq(w, l + 1, Len(w)) = v
  <2> DEFINE a == SubSeq(w, l + 1, Len(w))
  <2>1. a \in Seq(S) /\ Len(a) = m
    <3>1. l \in 0 .. Len(w) /\ Len(w) - l = m
      BY <1>1
    <3> QED
      BY <1>1, <3>1, SeqFacts, SubSeqLength
  <2>2. ASSUME NEW k \in 1 .. m PROVE a[k] = v[k]
    <3> HIDE DEF l, m
    <3>1. /\ (l + 1) + k - 1 = l + k /\ k \in 1 .. Len(w) - (l + 1) + 1
          /\ ~(l + k <= l) /\ l + k \in 1 .. l + m /\ (l + k) - l = k
          /\ l + 1 \in Int /\ Len(w) \in Int
          /\ \A i \in l + 1 .. Len(w) : i \in 1 .. Len(w)
      BY <1>1
    <3>2. a[k] = w[(l + 1) + k - 1]
      <4>1. \A i \in l + 1 .. Len(w) : w[i] \in S
        BY <1>2, <3>1
      <4> QED
        BY <3>1, <4>1, SubSeqProperties
    <3> QED
      BY <1>1, <3>1, <3>2
  <2> HIDE DEF a
  <2>3. a = v
    BY <2>1, <2>2, SeqEqual
  <2> QED
    BY <2>3 DEF a
<1> QED
  BY <1>3, <1>4 DEF w

\* The front of a stream is a stream; if it is the first packet, the rest is
\* one, too.
LEMMA FrontAndRest ==
  ASSUME NEW P, \A p \in P : p.length \in Nat,
         NEW u \in Seq(Bytes(P)), NEW v \in Seq(Bytes(P)), Placed(u \o v)
  PROVE  /\ Placed(u)
         /\ u # <<>> /\ u[1].of.length = Len(u) =>
              Placed(v) /\ (Finished(u \o v) => Finished(v))
<1> DEFINE w == u \o v
<1>1. /\ w \in Seq(Bytes(P)) /\ Len(u) \in 0 .. Len(w)
      /\ Len(w) = Len(u) + Len(v) /\ Len(u) \in Nat /\ Len(v) \in Nat
  BY ConcatProperties, LenProperties
<1>2. SubSeq(w, 1, Len(u)) = u /\ SubSeq(w, Len(u) + 1, Len(w)) = v
  BY Halves
<1>3. ASSUME u # <<>> PROVE w # <<>> /\ w[1] = u[1]
  <2>1. w # <<>>
    BY <1>3, ConcatEqualIffEmpty
  <2>2. Len(u) \in Nat \ {0}
    BY <1>3, EmptySeq
  <2> QED
    BY <2>1, <2>2, ConcatProperties, LenProperties
<1> HIDE DEF w
<1>4. Placed(u)
  <2>1. Placed(SubSeq(w, 1, Len(u)))
    BY <1>1, CutOff DEF w
  <2> QED
    BY <1>2, <2>1
<1>5. ASSUME u # <<>>, u[1].of.length = Len(u)
      PROVE  Placed(v) /\ (Finished(w) => Finished(v))
  <2>1. w # <<>> /\ w[1].of.length = Len(u) /\ w[1].of.length <= Len(w)
    BY <1>1, <1>3, <1>5
  <2>2. LET t == SubSeq(w, w[1].of.length + 1, Len(w))
        IN  Placed(t) /\ (Finished(w) => Finished(t))
    BY <1>1, <2>1, AfterFirst DEF w
  <2> QED
    BY <1>2, <2>1, <2>2
<1> QED
  BY <1>4, <1>5 DEF w

-----------------------------------------------------------------------------
(* The packets in a stream.  PacketsIn is recursive; what it returns is     *)
(* shown by counting, in the form of a statement about sets of numbers.     *)

Less == {ss \in Nat \X Nat : ss[1] < ss[2]}

\* A set with 0, and with each number's successor, has all numbers.
LEMMA Counting ==
  ASSUME NEW S, 0 \in S, \A n \in Nat : n \in S => n + 1 \in S
  PROVE  Nat \subseteq S
<1> DEFINE T == Nat \ S
<1> SUFFICES ASSUME T # {} PROVE FALSE
  OBVIOUS
<1>1. PICK x \in T : \A y \in T : <<y, x>> \notin Less
  <2>1. IsWellFoundedOn(Less, Nat)
    BY NatLessThanWellFounded DEF OpToRel, Less
  <2>2. T \subseteq Nat
    OBVIOUS
  <2> HIDE DEF T
  <2> QED
    BY <2>1, <2>2, WFMin
<1>2. x \in Nat /\ x # 0
  BY <1>1
<1>3. x - 1 \in Nat /\ x - 1 < x
  BY <1>2
<1>4. x - 1 \in T => <<x - 1, x>> \in Less
  BY <1>2, <1>3 DEF Less
<1>5. x - 1 \in S
  BY <1>1, <1>3, <1>4
<1> QED
  BY <1>1, <1>2, <1>3, <1>5

\* g[k] is the packets whose last byte is among the first k of s, for k <= n.
Counts(g, s, n) ==
  g = [k \in 0 .. n |->
        IF k = 0 THEN <<>>
        ELSE IF IsLast(s[k]) THEN Append(g[k - 1], s[k].of)
        ELSE g[k - 1]]

LEMMA CountsStep ==
  ASSUME NEW g, NEW s, NEW n \in Nat, Counts(g, s, n)
  PROVE  /\ g[0] = <<>>
         /\ \A k \in Nat : k < n =>
              g[k + 1] = IF IsLast(s[k + 1]) THEN Append(g[k], s[k + 1].of) ELSE g[k]
<1>1. 0 \in 0 .. n
  OBVIOUS
<1>2. g[0] = <<>>
  BY <1>1 DEF Counts
<1>3. ASSUME NEW k \in Nat, k < n
      PROVE  g[k + 1] = IF IsLast(s[k + 1]) THEN Append(g[k], s[k + 1].of) ELSE g[k]
  <2> DEFINE m == k + 1
  <2>1. m \in 0 .. n /\ m # 0 /\ m - 1 = k
    BY <1>3
  <2> HIDE DEF m
  <2>2. g[m] = IF IsLast(s[m]) THEN Append(g[m - 1], s[m].of) ELSE g[m - 1]
    BY <2>1 DEF Counts
  <2> QED
    BY <2>1, <2>2 DEF m
<1> QED
  BY <1>2, <1>3

LEMMA CountsExist ==
  ASSUME NEW s
  PROVE  \A n \in Nat : \E g : Counts(g, s, n)
<1> DEFINE S == {n \in Nat : \E g : Counts(g, s, n)}
<1>1. 0 \in S
  <2> DEFINE g == [k \in 0 .. 0 |-> <<>>]
  <2>1. Counts(g, s, 0)
    BY DEF Counts
  <2> QED
    BY <2>1
<1>2. ASSUME NEW n \in Nat, n \in S PROVE n + 1 \in S
  <2>1. PICK g : Counts(g, s, n)
    BY <1>2
  <2> DEFINE h == [k \in 0 .. n + 1 |->
                     IF k <= n THEN g[k]
                     ELSE IF IsLast(s[k]) THEN Append(g[n], s[k].of)
                     ELSE g[n]]
             F(k) == IF k = 0 THEN <<>>
                     ELSE IF IsLast(s[k]) THEN Append(h[k - 1], s[k].of)
                     ELSE h[k - 1]
  <2>2. \A k \in 0 .. n + 1 : h[k] = F(k)
    <3> TAKE k \in 0 .. n + 1
    <3>1. CASE k = 0
      BY <2>1, <3>1 DEF Counts
    <3>2. CASE k \in 1 .. n
      <4>1. k \in 0 .. n /\ k - 1 \in 0 .. n /\ k # 0
        BY <3>2
      <4>2. h[k] = g[k] /\ h[k - 1] = g[k - 1]
        BY <4>1
      <4> HIDE DEF h
      <4>3. g[k] = IF k = 0 THEN <<>>
                   ELSE IF IsLast(s[k]) THEN Append(g[k - 1], s[k].of)
                   ELSE g[k - 1]
        BY <2>1, <4>1, Zenon DEF Counts
      <4> QED
        BY <4>2, <4>3
    <3>3. CASE k = n + 1
      <4>1. k # 0 /\ ~(k <= n) /\ k - 1 = n /\ n \in 0 .. n + 1 /\ n <= n
        BY <3>3
      <4>2. h[n] = g[n]
        BY <4>1
      <4> QED
        BY <4>1, <4>2
    <3> QED
      BY <3>1, <3>2, <3>3
  <2>3. h = [k \in 0 .. n + 1 |-> h[k]]
    OBVIOUS
  <2> HIDE DEF h
  <2>4. Counts(h, s, n + 1)
    BY <2>2, <2>3 DEF Counts
  <2> QED
    BY <2>4
<1> HIDE DEF S
<1>3. Nat \subseteq S
  BY <1>1, <1>2, Counting
<1> QED
  BY <1>3 DEF S

LEMMA PacketsInCounts ==
  ASSUME NEW s, Len(s) \in Nat
  PROVE  \E g : Counts(g, s, Len(s)) /\ PacketsIn(s) = g[Len(s)]
<1>1. \E g : Counts(g, s, Len(s))
  BY CountsExist
<1> DEFINE g == CHOOSE g : Counts(g, s, Len(s))
<1>2. Counts(g, s, Len(s))
  BY <1>1
<1>3. PacketsIn(s) = g[Len(s)]
  BY DEF PacketsIn, Counts
<1> QED
  BY <1>2, <1>3

LEMMA CountsTyped ==
  ASSUME NEW P, \A p \in P : p.length \in Nat, NEW s \in Seq(Bytes(P)),
         NEW g, Counts(g, s, Len(s))
  PROVE  \A k \in 0 .. Len(s) : g[k] \in Seq(P)
<1> DEFINE l == Len(s)
           S == {k \in Nat : k <= l => g[k] \in Seq(P)}
<1>1. /\ l \in Nat /\ \A k \in 1 .. l : s[k].of \in P
      /\ g[0] = <<>>
      /\ \A k \in Nat : k < l =>
           g[k + 1] = IF IsLast(s[k + 1]) THEN Append(g[k], s[k + 1].of) ELSE g[k]
  <2>1. l \in Nat
    BY LenProperties
  <2>2. \A k \in 1 .. l : s[k].of \in P
    BY ByteFacts
  <2> HIDE DEF l
  <2>3. Counts(g, s, l)
    BY DEF l
  <2> QED
    BY <2>1, <2>2, <2>3, CountsStep
<1> HIDE DEF l
<1>2. 0 \in S
  BY <1>1, EmptySeq
<1>3. ASSUME NEW k \in Nat, k \in S PROVE k + 1 \in S
  <2> SUFFICES ASSUME k + 1 <= l PROVE g[k + 1] \in Seq(P)
    BY <1>3
  <2>1. k < l /\ k <= l /\ k + 1 \in 1 .. l
    BY <1>1
  <2>2. g[k] \in Seq(P) /\ s[k + 1].of \in P
    BY <1>1, <1>3, <2>1
  <2>3. Append(g[k], s[k + 1].of) \in Seq(P)
    BY <2>2, AppendProperties
  <2> QED
    BY <1>1, <2>1, <2>2, <2>3
<1> HIDE DEF S
<1>4. Nat \subseteq S
  BY <1>2, <1>3, Counting
<1> QED
  BY <1>1, <1>4 DEF S, l

LEMMA PacketsInTyped ==
  ASSUME NEW P, \A p \in P : p.length \in Nat, NEW s \in Seq(Bytes(P))
  PROVE  PacketsIn(s) \in Seq(P)
<1>1. Len(s) \in Nat /\ Len(s) \in 0 .. Len(s)
  BY LenProperties
<1> QED
  BY <1>1, PacketsInCounts, CountsTyped

LEMMA PacketsInNothing == PacketsIn(<<>>) = <<>>
<1>1. Len(<<>>) = 0
  BY EmptySeq
<1>2. PICK g : Counts(g, <<>>, 0) /\ PacketsIn(<<>>) = g[0]
  BY <1>1, PacketsInCounts
<1> QED
  BY <1>2, CountsStep

\* Of two streams, one behind the other.
LEMMA PacketsInBoth ==
  ASSUME NEW P, \A p \in P : p.length \in Nat,
         NEW s \in Seq(Bytes(P)), NEW t \in Seq(Bytes(P))
  PROVE  PacketsIn(s \o t) = PacketsIn(s) \o PacketsIn(t)
<1> DEFINE u == s \o t
           l == Len(s)
           m == Len(t)
<1>1. /\ l \in Nat /\ m \in Nat /\ u \in Seq(Bytes(P)) /\ Len(u) = l + m
      /\ \A k \in 1 .. l : u[k] = s[k]
      /\ \A k \in 1 .. m : u[l + k] = t[k]
  <2>1. /\ l \in Nat /\ m \in Nat /\ u \in Seq(Bytes(P)) /\ Len(u) = l + m
        /\ \A k \in 1 .. l + m : u[k] = IF k <= l THEN s[k] ELSE t[k - l]
    BY LenProperties, ConcatProperties
  <2> HIDE DEF u, l, m
  <2>2. ASSUME NEW k \in 1 .. m PROVE u[l + k] = t[k]
    <3>1. l + k \in 1 .. l + m /\ ~(l + k <= l) /\ (l + k) - l = k
      BY <2>1
    <3> QED
      BY <2>1, <3>1
  <2> QED
    BY <2>1, <2>2
<1>2. PICK g : Counts(g, s, l) /\ PacketsIn(s) = g[l]
  BY <1>1, PacketsInCounts
<1>3. PICK h : Counts(h, t, m) /\ PacketsIn(t) = h[m]
  BY <1>1, PacketsInCounts
<1>4. PICK f : Counts(f, u, Len(u)) /\ PacketsIn(u) = f[Len(u)]
  <2>1. Len(u) \in Nat
    BY <1>1
  <2> HIDE DEF u
  <2> QED
    BY <2>1, PacketsInCounts
<1>5. /\ \A k \in 0 .. l : g[k] \in Seq(P)
      /\ \A k \in 0 .. m : h[k] \in Seq(P)
      /\ \A k \in 1 .. m : t[k].of \in P
  BY <1>2, <1>3, CountsTyped, ByteFacts
<1> HIDE DEF u, l, m
<1>6. /\ g[0] = <<>> /\ h[0] = <<>> /\ f[0] = <<>>
      /\ \A k \in Nat : k < l =>
           g[k + 1] = IF IsLast(s[k + 1]) THEN Append(g[k], s[k + 1].of) ELSE g[k]
      /\ \A k \in Nat : k < m =>
           h[k + 1] = IF IsLast(t[k + 1]) THEN Append(h[k], t[k + 1].of) ELSE h[k]
      /\ \A k \in Nat : k < l + m =>
           f[k + 1] = IF IsLast(u[k + 1]) THEN Append(f[k], u[k + 1].of) ELSE f[k]
  <2>1. l + m \in Nat /\ Counts(f, u, l + m)
    BY <1>1, <1>4
  <2>2. /\ g[0] = <<>>
        /\ \A k \in Nat : k < l =>
             g[k + 1] = IF IsLast(s[k + 1]) THEN Append(g[k], s[k + 1].of) ELSE g[k]
    BY <1>1, <1>2, CountsStep
  <2>3. /\ h[0] = <<>>
        /\ \A k \in Nat : k < m =>
             h[k + 1] = IF IsLast(t[k + 1]) THEN Append(h[k], t[k + 1].of) ELSE h[k]
    BY <1>1, <1>3, CountsStep
  <2>4. /\ f[0] = <<>>
        /\ \A k \in Nat : k < l + m =>
             f[k + 1] = IF IsLast(u[k + 1]) THEN Append(f[k], u[k + 1].of) ELSE f[k]
    BY <2>1, CountsStep
  <2> QED
    BY <2>2, <2>3, <2>4
<1> DEFINE A == {k \in Nat : k <= l => f[k] = g[k]}
           B == {k \in Nat : k <= m => f[l + k] = g[l] \o h[k]}
<1>7. Nat \subseteq A
  <2>1. 0 \in A
    BY <1>6
  <2>2. ASSUME NEW k \in Nat, k \in A PROVE k + 1 \in A
    <3> SUFFICES ASSUME k + 1 <= l PROVE f[k + 1] = g[k + 1]
      OBVIOUS
    <3>1. k < l /\ k < l + m /\ k <= l /\ k + 1 \in 1 .. l
      BY <1>1
    <3>2. f[k] = g[k] /\ u[k + 1] = s[k + 1]
      BY <1>1, <2>2, <3>1
    <3> QED
      BY <1>6, <3>1, <3>2
  <2> HIDE DEF A
  <2> QED
    BY <2>1, <2>2, Counting
<1>8. f[l] = g[l] /\ g[l] \in Seq(P)
  BY <1>1, <1>5, <1>7
<1>9. Nat \subseteq B
  <2>1. 0 \in B
    <3>1. g[l] \o h[0] = g[l]
      BY <1>6, <1>8, ConcatEmptySeq
    <3>2. l + 0 = l
      BY <1>1
    <3>3. f[l + 0] = g[l] \o h[0]
      BY <1>8, <3>1, <3>2
    <3> QED
      BY <3>3
  <2>2. ASSUME NEW k \in Nat, k \in B PROVE k + 1 \in B
    <3>1. ASSUME k + 1 <= m PROVE f[l + (k + 1)] = g[l] \o h[k + 1]
      <4>1. /\ k < m /\ k <= m /\ k + 1 \in 1 .. m /\ k \in 0 .. m
            /\ l + k \in Nat /\ l + k < l + m /\ l + (k + 1) = (l + k) + 1
        BY <1>1, <3>1
      <4>2. f[l + k] = g[l] \o h[k]
        BY <2>2, <4>1
      <4>3. u[(l + k) + 1] = t[k + 1]
        <5>1. u[l + (k + 1)] = t[k + 1]
          BY <1>1, <4>1
        <5> QED
          BY <4>1, <5>1
      <4> DEFINE w == g[l]
                 q == h[k]
                 p == t[k + 1].of
      <4>4. w \in Seq(P) /\ q \in Seq(P) /\ p \in P
        BY <1>5, <1>8, <4>1
      <4>5. w \o Append(q, p) = Append(w \o q, p)
        <5> HIDE DEF w, q, p
        <5> QED
          BY <4>4, Adding
      <4>6. f[(l + k) + 1] = IF IsLast(t[k + 1]) THEN Append(f[l + k], t[k + 1].of)
                                                ELSE f[l + k]
        BY <1>6, <4>1, <4>3
      <4>7. h[k + 1] = IF IsLast(t[k + 1]) THEN Append(q, p) ELSE q
        BY <1>6, <4>1
      <4> QED
        BY <4>1, <4>2, <4>5, <4>6, <4>7
    <3>2. k + 1 \in Nat
      OBVIOUS
    <3> DEFINE j == k + 1
    <3>3. j \in Nat /\ (j <= m => f[l + j] = g[l] \o h[j])
      BY <3>1, <3>2
    <3> HIDE DEF j
    <3>4. j \in B
      BY <3>3
    <3> QED
      BY <3>4 DEF j
  <2> HIDE DEF B
  <2> QED
    BY <2>1, <2>2, Counting
<1>10. f[l + m] = g[l] \o h[m]
  <2>1. m \in B /\ m <= m
    <3> HIDE DEF B
    <3> QED
      BY <1>1, <1>9
  <2> QED
    BY <2>1
<1> QED
  BY <1>1, <1>2, <1>3, <1>4, <1>10 DEF u

\* Of the whole of one packet, and of less than that.
LEMMA PacketsInOne ==
  ASSUME NEW p, p.length \in Nat \ {0}, NEW n \in 0 .. p.length,
         NEW s, Len(s) = n, \A k \in 1 .. n : s[k] = [of |-> p, at |-> k]
  PROVE  PacketsIn(s) = IF n = p.length THEN <<p>> ELSE <<>>
<1>1. PICK g : Counts(g, s, n) /\ PacketsIn(s) = g[n]
  BY PacketsInCounts
<1>2. /\ g[0] = <<>>
      /\ \A k \in Nat : k < n =>
           g[k + 1] = IF IsLast(s[k + 1]) THEN Append(g[k], s[k + 1].of) ELSE g[k]
  BY <1>1, CountsStep
<1> DEFINE l == p.length
<1>3. l \in Nat \ {0} /\ n \in Nat /\ n <= l
  OBVIOUS
<1>4. \A k \in 1 .. n : s[k].of = p /\ (IsLast(s[k]) <=> k = l)
  BY DEF IsLast
<1> DEFINE S == {k \in Nat : k <= n => g[k] = IF k = l THEN <<p>> ELSE <<>>}
<1> HIDE DEF l
<1>5. 0 \in S
  BY <1>2, <1>3
<1>6. ASSUME NEW k \in Nat, k \in S PROVE k + 1 \in S
  <2> SUFFICES ASSUME k + 1 <= n PROVE g[k + 1] = IF k + 1 = l THEN <<p>> ELSE <<>>
    OBVIOUS
  <2>1. k < n /\ k <= n /\ k # l /\ k + 1 \in 1 .. n
    BY <1>3
  <2>2. g[k] = <<>>
    BY <1>6, <2>1
  <2>3. Append(<<>>, p) = <<p>>
    OBVIOUS
  <2> QED
    BY <1>2, <1>4, <2>1, <2>2, <2>3
<1> HIDE DEF S
<1>7. Nat \subseteq S
  BY <1>5, <1>6, Counting
<1> QED
  BY <1>1, <1>3, <1>7 DEF S, l

\* One more packet behind a stream is one more packet in it.
LEMMA PacketJoins ==
  ASSUME NEW P, \A p \in P : p.length \in Nat, NEW s \in Seq(Bytes(P)),
         NEW p \in P, p.length # 0,
         NEW t, t = [k \in 1 .. p.length |-> [of |-> p, at |-> k]]
  PROVE  PacketsIn(s \o t) = Append(PacketsIn(s), p)
<1>1. t \in Seq(Bytes(P)) /\ Len(t) = p.length
  BY OnePacket
<1>2. \A k \in 1 .. p.length : t[k] = [of |-> p, at |-> k]
  OBVIOUS
<1>3. p.length \in Nat \ {0} /\ p.length \in 0 .. p.length
  OBVIOUS
<1>4. PacketsIn(t) = <<p>>
  BY <1>1, <1>2, <1>3, PacketsInOne
<1>5. PacketsIn(s) \in Seq(P)
  BY PacketsInTyped
<1>6. PacketsIn(s \o t) = PacketsIn(s) \o <<p>>
  BY <1>1, <1>4, PacketsInBoth, ZenonT(40)
<1> QED
  BY <1>5, <1>6, AppendIsConcat

\* A stream that is cut off loses packets at its end.
LEMMA PacketsLost ==
  ASSUME NEW P, \A p \in P : p.length \in Nat,
         NEW s \in Seq(Bytes(P)), NEW t \in Seq(Bytes(P))
  PROVE  \E k \in 0 .. Len(PacketsIn(s \o t)) :
           PacketsIn(s) = SubSeq(PacketsIn(s \o t), 1, k)
<1> DEFINE q == PacketsIn(s)
           r == PacketsIn(t)
<1>1. q \in Seq(P) /\ r \in Seq(P) /\ PacketsIn(s \o t) = q \o r
  BY PacketsInTyped, PacketsInBoth
<1> HIDE DEF q, r
<1>2. Len(q) \in 0 .. Len(q \o r)
  BY <1>1, ConcatProperties, LenProperties
<1>3. q = SubSeq(q \o r, 1, Len(q))
  BY <1>1, Halves
<1> QED
  BY <1>1, <1>2, <1>3 DEF q

\* A part of one packet has no packet in it.
LEMMA NoPacketYet ==
  ASSUME NEW P, \A p \in P : p.length \in Nat, NEW s \in Seq(Bytes(P)), Placed(s),
         s # <<>> => Len(s) < s[1].of.length
  PROVE  PacketsIn(s) = <<>>
<1>1. CASE s = <<>>
  BY <1>1, PacketsInNothing
<1>2. CASE s # <<>>
  <2> DEFINE p == s[1].of
             n == Len(s)
  <2>1. /\ p \in P /\ p.length \in Nat \ {0} /\ n \in Nat \ {0} /\ n < p.length
        /\ \A j \in 1 .. n : j <= p.length => s[j] = [of |-> p, at |-> j]
    BY <1>2, FirstPacket
  <2> HIDE DEF p
  <2>2. n \in 0 .. p.length /\ n # p.length /\ \A j \in 1 .. n : j <= p.length
    BY <2>1
  <2>3. \A j \in 1 .. n : s[j] = [of |-> p, at |-> j]
    BY <2>1, <2>2
  <2> QED
    BY <2>1, <2>2, <2>3, PacketsInOne
<1> QED
  BY <1>1, <1>2

\* A stream that begins with the whole of its first packet.
LEMMA PacketLeaves ==
  ASSUME NEW P, \A p \in P : p.length \in Nat,
         NEW s \in Seq(Bytes(P)), Placed(s), s # <<>>, Len(s) = s[1].of.length,
         NEW t \in Seq(Bytes(P))
  PROVE  /\ PacketsIn(s \o t) # <<>>
         /\ Head(PacketsIn(s \o t)) = s[1].of
         /\ Tail(PacketsIn(s \o t)) = PacketsIn(t)
<1> DEFINE p == s[1].of
           n == Len(s)
<1>1. /\ p \in P /\ p.length \in Nat \ {0} /\ n \in Nat \ {0} /\ n = p.length
      /\ \A j \in 1 .. n : j <= p.length => s[j] = [of |-> p, at |-> j]
  BY FirstPacket
<1> HIDE DEF p
<1>2. n \in 0 .. p.length /\ \A j \in 1 .. n : s[j] = [of |-> p, at |-> j]
  BY <1>1
<1>3. PacketsIn(s) = <<p>>
  BY <1>1, <1>2, PacketsInOne
<1>4. PacketsIn(t) \in Seq(P) /\ PacketsIn(s \o t) = <<p>> \o PacketsIn(t)
  BY <1>3, PacketsInTyped, PacketsInBoth
<1>5. \A q \in Seq(P) : <<p>> \o q # <<>> /\ Head(<<p>> \o q) = p /\ Tail(<<p>> \o q) = q
  BY <1>1
<1> QED
  BY <1>4, <1>5 DEF p

\* The first packet in a stream is the one it begins with, if that one ends in it.
LEMMA PacketInFront ==
  ASSUME NEW P, \A p \in P : p.length \in Nat, NEW s \in Seq(Bytes(P)), Placed(s),
         s # <<>>
  PROVE  IF s[1].of.length <= Len(s)
           THEN PacketsIn(s) # <<>> /\ Head(PacketsIn(s)) = s[1].of
           ELSE PacketsIn(s) = <<>> /\ ~Finished(s)
<1> DEFINE n == s[1].of.length
           l == Len(s)
<1>1. n \in Nat \ {0} /\ l \in Nat \ {0} /\ 1 \in 1 .. l /\ s[1].at = 1
  <2>1. n \in Nat \ {0} /\ l \in Nat \ {0}
    BY FirstPacket
  <2> HIDE DEF n, l
  <2>2. 1 \in 1 .. l
    BY <2>1
  <2> QED
    BY <2>1, <2>2, NextByte DEF l
<1>2. CASE n <= l
  <2> DEFINE u == SubSeq(s, 1, n)
             v == SubSeq(s, n + 1, l)
  <2>1. n \in 0 .. l
    BY <1>1, <1>2
  <2>2. /\ u \in Seq(Bytes(P)) /\ v \in Seq(Bytes(P)) /\ Len(u) = n /\ u \o v = s
        /\ Placed(u)
    <3> HIDE DEF n
    <3>1. u \in Seq(Bytes(P)) /\ v \in Seq(Bytes(P))
      BY <2>1, SeqFacts
    <3>2. Len(u) = n
      BY <2>1, SubSeqLength
    <3>3. u \o v = s
      BY <2>1, SplitAt
    <3>4. Placed(u)
      BY <2>1, CutOff
    <3> QED
      BY <3>1, <3>2, <3>3, <3>4
  <2>3. u # <<>> /\ u[1] = s[1]
    <3> HIDE DEF u, v, n
    <3>1. u # <<>>
      BY <1>1, <2>2, EmptySeq
    <3>2. (u \o v)[1] = u[1]
      BY <1>1, <2>2, ConcatProperties, LenProperties
    <3> QED
      BY <2>2, <3>1, <3>2
  <2> HIDE DEF u, v
  <2>4. Len(u) = u[1].of.length
    BY <2>2, <2>3
  <2>5. PacketsIn(u \o v) # <<>> /\ Head(PacketsIn(u \o v)) = u[1].of
    BY <2>2, <2>3, <2>4, PacketLeaves
  <2> QED
    BY <1>2, <2>2, <2>3, <2>5
<1>3. CASE ~(n <= l)
  <2>1. l < n /\ ~(1 - s[1].at + n <= l)
    BY <1>1, <1>3
  <2>2. PacketsIn(s) = <<>>
    BY <2>1, NoPacketYet
  <2>3. ~Finished(s)
    BY <1>1, <2>1 DEF Finished
  <2> QED
    BY <1>3, <2>2, <2>3
<1> QED
  BY <1>2, <1>3

\* A stream of n whole packets, none longer than M, is not longer than n * M.
LEMMA PacketsHold ==
  ASSUME NEW P, \A p \in P : p.length \in Nat, NEW s \in Seq(Bytes(P)),
         Placed(s), Finished(s), NEW M \in Nat,
         \A k \in 1 .. Len(s) : s[k].of.length <= M
  PROVE  Len(s) <= Len(PacketsIn(s)) * M
<1> DEFINE l == Len(s)
           rest(k) == IF k = 0 THEN 0 ELSE IF IsLast(s[k]) THEN 0 ELSE s[k].at
<1>1. /\ l \in Nat
      /\ \A k \in 1 .. l : /\ s[k].at \in Nat /\ s[k].of.length \in Nat
                           /\ s[k].of.length <= M
                           /\ s[k].at <= s[k].of.length
  BY ByteFacts
<1>2. PICK g : Counts(g, s, l) /\ PacketsIn(s) = g[l]
  BY <1>1, PacketsInCounts
<1>3. /\ g[0] = <<>>
      /\ \A k \in Nat : k < l =>
           g[k + 1] = IF IsLast(s[k + 1]) THEN Append(g[k], s[k + 1].of) ELSE g[k]
  <2> HIDE DEF l
  <2> QED
    BY <1>1, <1>2, CountsStep
<1>4. \A k \in 0 .. l : g[k] \in Seq(P)
  BY <1>2, CountsTyped
\* Each byte is the one after the rest before it.
<1>5. ASSUME NEW k \in Nat, k < l
      PROVE  s[k + 1].at = rest(k) + 1
  <2>1. CASE k = 0
    <3> DEFINE j == k + 1
    <3>1. j \in 1 .. l /\ j = 1
      BY <1>1, <1>5, <2>1
    <3> HIDE DEF j
    <3>2. s[j].at = 1
      BY <3>1, NextByte
    <3> QED
      BY <2>1, <3>1, <3>2
  <2>2. CASE k # 0
    <3>1. k \in 1 .. l
      BY <1>1, <1>5, <2>2
    <3>2. IF s[k].at = s[k].of.length
            THEN s[k + 1].at = 1
            ELSE s[k + 1] = [of |-> s[k].of, at |-> s[k].at + 1]
      BY <1>5, <3>1, NextByte
    <3> QED
      BY <2>2, <3>1, <3>2 DEF IsLast
  <2> QED
    BY <2>1, <2>2
<1> DEFINE S == {k \in Nat : k <= l => k <= Len(g[k]) * M + rest(k)}
<1>6. 0 \in S
  <2>1. Len(g[0]) = 0
    BY <1>3, EmptySeq
  <2> QED
    BY <2>1
<1>7. ASSUME NEW k \in Nat, k \in S PROVE k + 1 \in S
  <2> DEFINE j == k + 1
             a == Len(g[k])
             r == rest(k)
             m == s[j].of.length
  <2> SUFFICES ASSUME j <= l PROVE j <= Len(g[j]) * M + rest(j)
    BY <1>7
  <2>1. k < l /\ k <= l /\ k \in 0 .. l /\ j \in 1 .. l /\ j # 0
    BY <1>1
  <2>2. /\ s[j].at = r + 1
        /\ g[j] = IF IsLast(s[j]) THEN Append(g[k], s[j].of) ELSE g[k]
    BY <1>3, <1>5, <2>1
  <2>3. k <= a * M + r
    BY <1>7, <2>1
  <2>4. g[k] \in Seq(P) /\ a \in Nat /\ s[j].of \in P
    BY <1>4, <2>1, ByteFacts, LenProperties
  <2>5. /\ s[j].at \in Nat /\ m \in Nat /\ m <= M /\ s[j].at <= m
        /\ rest(j) = IF IsLast(s[j]) THEN 0 ELSE s[j].at
    BY <1>1, <2>1
  <2>6. r \in Nat
    <3>1. CASE k = 0
      BY <3>1
    <3>2. CASE k # 0
      BY <1>1, <2>1, <3>2
    <3> QED
      BY <3>1, <3>2
  <2>7. Len(g[j]) = IF IsLast(s[j]) THEN a + 1 ELSE a
    BY <2>2, <2>4, AppendProperties
  <2>8. IsLast(s[j]) => s[j].at = m
    BY DEF IsLast
  <2>9. j = k + 1 /\ (a + 1) * M = a * M + M /\ a * M \in Nat
    BY <2>4
  <2> HIDE DEF rest, a, r, m, j
  <2> DEFINE x == a * M
  <2>10. x \in Nat /\ k <= x + r /\ (a + 1) * M = x + M
    BY <2>3, <2>9
  <2>11. CASE IsLast(s[j])
    <3>1. Len(g[j]) * M = x + M /\ rest(j) = 0 /\ r + 1 <= M
      BY <2>2, <2>5, <2>7, <2>8, <2>10, <2>11
    <3> HIDE DEF x
    <3> QED
      BY <2>6, <2>9, <2>10, <3>1
  <2>12. CASE ~IsLast(s[j])
    <3>1. Len(g[j]) * M = x /\ rest(j) = r + 1
      BY <2>2, <2>5, <2>7, <2>12
    <3> HIDE DEF x
    <3> QED
      BY <2>6, <2>9, <2>10, <3>1
  <2> QED
    BY <2>11, <2>12
<1>8. l \in S
  <2> HIDE DEF S
  <2>1. Nat \subseteq S
    BY <1>6, <1>7, Counting
  <2> QED
    BY <1>1, <2>1
<1>9. rest(l) = 0
  <2>1. CASE l = 0
    BY <2>1
  <2>2. CASE l # 0
    <3>1. l \in 1 .. l
      BY <1>1, <2>2
    <3>2. s[l].at = s[l].of.length
      BY <3>1, NextByte
    <3> QED
      BY <2>2, <3>2 DEF IsLast
  <2> QED
    BY <2>1, <2>2
<1>10. Len(g[l]) * M \in Nat
  <2>1. Len(g[l]) \in Nat
    BY <1>1, <1>4, LenProperties
  <2> QED
    BY <2>1
<1> QED
  BY <1>1, <1>2, <1>8, <1>9, <1>10

\* If so many packets as that do not leave room for another, they are at least
\* as many as the room is for.
LEMMA FullOf ==
  ASSUME NEW M \in Nat \ {0}, NEW Q \in Nat, NEW n \in Nat, Q < n * M + M
  PROVE  n >= Q \div M
<1> DEFINE d == Q \div M
<1>1. d \in Nat /\ d * M <= Q
  OBVIOUS
<1> HIDE DEF d
<1>2. ASSUME n < d PROVE FALSE
  <2>1. n + 1 <= d
    BY <1>1, <1>2
  <2>2. (n + 1) * M <= d * M
    BY <1>1, <2>1
  <2>3. (n + 1) * M = n * M + M
    OBVIOUS
  <2> QED
    BY <1>1, <2>2, <2>3
<1> QED
  BY <1>1, <1>2 DEF d

=============================================================================
