----------------------------- MODULE LoopProofs -----------------------------
(***************************************************************************)
(* Proofs about the three loops that are modelled by themselves: how       *)
(* do_poll keeps time (PollLoop), for seconds of any number of ticks, any  *)
(* timeouts and any interleaving of the clock, the events and SIGINT; how  *)
(* v3 handles a batch of events (V3Echo), for any number of peers and      *)
(* descriptors; and how v4 takes packets out of a connection (V4Reader),   *)
(* for packets of any length and any way the stream may be cut.            *)
(*                                                                         *)
(* The three modules share no name.                                        *)
(***************************************************************************)
EXTENDS PollLoop, V3Echo, V4Reader, FiniteSetTheorems, QueueLemmas

-----------------------------------------------------------------------------
(* The time keeping of do_poll: the inductive invariants.                   *)

\* The seconds that this iteration will take off the timeout, as of now.
Pending == IF Measured THEN passed ELSE 0

\* What the loop has subtracted so far and is about to subtract, in ticks: it
\* is late by nothing that began and ended within a second, ...
Upper == (full - timeout + Pending + unseen) * TICKS + phase

\* ... and early by what was left of the second it started in.
Lower == (full - timeout + Pending) * TICKS + phase - (TICKS - 1)

\* What was slept when this iteration began.
Before == (full - timeout + unseen + 1) * TICKS - 1

TimeInv ==
  /\ TypeOK
  /\ timeout <= full
  /\ pc = "wait" => slept <= timeout * TICKS
  /\ since = TICKS * Horizon \/ since >= Lower
  /\ unseen < Horizon /\ Pending < Horizon => waited <= Upper
  /\ unseen < Horizon =>
       /\ pc \in {"test", "sample", "enter", "exited"} => waited <= Before
       /\ pc = "wait" => waited <= Before + slept
       /\ pc \in {"handle", "rework"} => waited <= Before + timeout * TICKS

\* After the flag is set only an iteration that had passed its test goes on.
QuitInv ==
  /\ TypeOK
  /\ asked => quit
  /\ ~asked => sleeps = 0
  /\ sleeps # 0 => sleeps = 1 /\ pc \notin {"sample", "enter"}

-----------------------------------------------------------------------------
(* Arithmetic. *)

LEMMA Distributes ==
  ASSUME NEW a \in Int, NEW b \in Int, NEW t \in Int
  PROVE  /\ (a + b) * t = a * t + b * t
         /\ (a + 1) * t = a * t + t
         /\ (a - b) * t = a * t - b * t
         /\ a * t \in Int
OBVIOUS

LEMMA Monotone ==
  ASSUME NEW a \in Int, NEW b \in Int, NEW t \in Nat, a <= b
  PROVE  a * t <= b * t
<1>1. (b - a) * t >= 0
  <2>1. \A n \in Nat : n * t >= 0
    OBVIOUS
  <2> QED
    BY <2>1
<1> QED
  BY <1>1, Distributes

LEMMA Constants ==
  /\ TICKS \in Nat /\ TICKS > 0
  /\ LOOP_TIMEOUT \in Nat /\ LOOP_TIMEOUT > 0
  /\ EPOLL_LOOP_TIMEOUT \in Nat /\ EPOLL_LOOP_TIMEOUT > 0
  /\ Horizon \in Nat /\ Horizon >= LOOP_TIMEOUT /\ Horizon >= EPOLL_LOOP_TIMEOUT
  /\ TICKS * Horizon \in Nat
BY PollLoopAssumption DEF PollLoopAssumption

LEMMA Quantities ==
  ASSUME TypeOK
  PROVE  /\ timeout \in Nat /\ timeout > 0
         /\ full \in Nat /\ full <= Horizon
         /\ phase \in Nat /\ phase <= TICKS - 1
         /\ passed \in Nat /\ unseen \in Nat /\ Pending \in Nat
         /\ slept \in Nat /\ waited \in Nat /\ since \in Nat
         /\ Upper \in Int /\ Lower \in Int /\ Before \in Int
<1>1. /\ timeout \in Nat /\ timeout > 0
      /\ full \in Nat /\ full <= Horizon
      /\ phase \in Nat /\ phase <= TICKS - 1
      /\ passed \in Nat /\ unseen \in Nat
      /\ slept \in Nat /\ waited \in Nat /\ since \in Nat
  BY Constants DEF TypeOK
<1>2. Pending \in Nat
  BY <1>1 DEF Pending
<1> QED
  BY <1>1, <1>2, Constants DEF Upper, Lower, Before

LEMMA Scaled ==  \A a \in Int :
           /\ a * TICKS \in Int
           /\ (a + 1) * TICKS = a * TICKS + TICKS
           /\ \A b \in Int : a <= b => a * TICKS <= b * TICKS
<1>1. TICKS \in Nat /\ TICKS \in Int
  BY Constants
<1> QED
  BY <1>1, Distributes, Monotone

LEMMA PhaseStep ==
  ASSUME NEW t \in Nat \ {0}, NEW p \in 0 .. t - 1
  PROVE  /\ p = t - 1 => (p + 1) % t = 0
         /\ p # t - 1 => (p + 1) % t = p + 1
OBVIOUS

-----------------------------------------------------------------------------
(* Time. *)

LEMMA TimeInit == Init => TimeInv
<1> SUFFICES ASSUME Init PROVE TimeInv
  OBVIOUS
<1> USE Constants
<1>1. TypeOK /\ timeout <= full /\ pc # "wait" /\ Pending = 0
  <2>1. 0 \in 0 .. TICKS * Horizon
    OBVIOUS
  <2>2. quit \in BOOLEAN /\ asked \in BOOLEAN
    BY Zenon, PollLoopAssumption DEF Init, PollLoopAssumption
  <2>3. pc = "test" /\ Pending = 0
    BY DEF Init, Pending, Measured
  <2>4. TypeOK
    BY <2>1, <2>2 DEF Init, TypeOK
  <2>5. timeout <= full
    BY DEF Init
  <2> QED
    BY <2>3, <2>4, <2>5
<1>2. Upper = phase /\ Lower = phase - (TICKS - 1) /\ Before = TICKS - 1
  BY <1>1 DEF Init, Upper, Lower, Before
<1> QED
  BY <1>1, <1>2 DEF Init, TimeInv, TypeOK

\* The clock ticks: the bounds move with it, by a tick at most.
LEMMA TimeTick == TimeInv /\ Tick => TimeInv'
<1> SUFFICES ASSUME TimeInv, Tick PROVE TimeInv'
  OBVIOUS
<1> USE Constants
<1>1. TypeOK
  BY DEF TimeInv
<1> USE Quantities
<1>2. /\ pc' = pc /\ timeout' = timeout /\ full' = full /\ (Measured' <=> Measured)
      /\ quit' = quit /\ asked' = asked /\ sleeps' = sleeps
  BY DEF Tick, loopVars, signalled, Measured
<1>3. \/ phase # TICKS - 1 /\ phase' = phase + 1 /\ passed' = passed /\ unseen' = unseen
      \/ /\ phase = TICKS - 1 /\ phase' = 0
         /\ passed' = IF Measured THEN UpTo(Horizon, passed + 1) ELSE passed
         /\ unseen' = IF Measured THEN unseen ELSE UpTo(Horizon, unseen + 1)
  <2>1. phase \in 0 .. TICKS - 1 /\ phase' = (phase + 1) % TICKS
    BY <1>1 DEF Tick, TypeOK
  <2>2. phase = TICKS - 1 => phase' = 0
    BY <2>1, PhaseStep
  <2>3. phase # TICKS - 1 => phase' = phase + 1
    BY <2>1, PhaseStep
  <2>4. phase # TICKS - 1 => passed' = passed /\ unseen' = unseen
    BY <1>1 DEF Tick, TypeOK, UpTo
  <2>5. phase = TICKS - 1 =>
          /\ passed' = IF Measured THEN UpTo(Horizon, passed + 1) ELSE passed
          /\ unseen' = IF Measured THEN unseen ELSE UpTo(Horizon, unseen + 1)
    BY DEF Tick
  <2> QED
    BY <2>2, <2>3, <2>4, <2>5
<1>4. TypeOK'
  <2>1. phase' \in 0 .. TICKS - 1 /\ passed' \in 0 .. Horizon /\ unseen' \in 0 .. Horizon
    BY <1>1, <1>3 DEF TypeOK, UpTo
  <2>2. since' \in 0 .. TICKS * Horizon
    <3>1. since \in 0 .. TICKS * Horizon /\ TICKS * Horizon \in Nat
      BY <1>1 DEF TypeOK
    <3> QED
      BY <3>1 DEF Tick, UpTo
  <2>3. slept' \in Nat /\ waited' \in Nat
    BY <1>1 DEF Tick, TypeOK
  <2> QED
    BY <1>1, <1>2, <2>1, <2>2, <2>3 DEF TypeOK
<1>5. \/ /\ phase # TICKS - 1 /\ phase' = phase + 1
         /\ Pending' = Pending /\ unseen' = unseen
      \/ /\ phase = TICKS - 1 /\ phase' = 0
         /\ Pending' = IF Pending + 1 > Horizon THEN Horizon ELSE Pending + 1
         /\ unseen' = unseen
      \/ /\ phase = TICKS - 1 /\ phase' = 0
         /\ Pending' = Pending
         /\ unseen' = IF unseen + 1 > Horizon THEN Horizon ELSE unseen + 1
  BY <1>2, <1>3 DEF Pending, UpTo
<1>6. Pending <= Horizon /\ unseen <= Horizon
  BY <1>1 DEF TypeOK, Pending
<1>7. unseen' < Horizon /\ Pending' < Horizon =>
        unseen < Horizon /\ Pending < Horizon /\ Upper' = Upper + 1
  <2> SUFFICES ASSUME unseen' < Horizon, Pending' < Horizon
               PROVE  unseen < Horizon /\ Pending < Horizon /\ Upper' = Upper + 1
    OBVIOUS
  <2> DEFINE s == full - timeout + Pending + unseen
             z == full' - timeout' + Pending' + unseen'
  <2>1. /\ unseen < Horizon /\ Pending < Horizon
        /\ z = IF phase = TICKS - 1 THEN s + 1 ELSE s
    BY <1>1, <1>2, <1>5, <1>6
  <2>2. s \in Int /\ (s + 1) * TICKS = s * TICKS + TICKS /\ s * TICKS \in Int
    BY <1>1, Scaled
  <2>3. Upper = s * TICKS + phase /\ Upper' = z * TICKS + phase'
    BY DEF Upper
  <2> HIDE DEF s, z
  <2> QED
    BY <1>1, <1>3, <2>1, <2>2, <2>3 DEF TypeOK
<1>8. Lower \in Int /\ Lower' \in Int /\ Lower' <= Lower + 1
  <2> DEFINE s == full - timeout + Pending
             z == full' - timeout' + Pending'
  <2>1. /\ \/ z = s
           \/ phase = TICKS - 1 /\ z = s + 1
        /\ z = s => phase' <= phase + 1
    BY <1>1, <1>2, <1>5, <1>6
  <2>2. s \in Int /\ (s + 1) * TICKS = s * TICKS + TICKS /\ s * TICKS \in Int
    BY <1>1, Scaled
  <2>3. /\ Lower = s * TICKS + phase - (TICKS - 1)
        /\ Lower' = z * TICKS + phase' - (TICKS - 1)
    BY DEF Lower
  <2>4. phase = TICKS - 1 => phase' = 0
    BY <1>3
  <2> HIDE DEF s, z
  <2> QED
    BY <1>1, <1>4, <2>1, <2>2, <2>3, <2>4 DEF TypeOK
<1>9. unseen' < Horizon => unseen < Horizon /\ Before \in Int /\ Before' >= Before
  <2> SUFFICES ASSUME unseen' < Horizon
               PROVE  unseen < Horizon /\ Before \in Int /\ Before' >= Before
    OBVIOUS
  <2> DEFINE s == full - timeout + unseen + 1
             z == full' - timeout' + unseen' + 1
  <2>1. unseen < Horizon /\ s \in Int /\ z \in Int /\ s <= z
    BY <1>1, <1>2, <1>5, <1>6
  <2>2. Before = s * TICKS - 1 /\ Before' = z * TICKS - 1
    BY DEF Before
  <2> HIDE DEF s, z
  <2>3. s * TICKS <= z * TICKS /\ s * TICKS \in Int /\ z * TICKS \in Int
    BY <2>1, Scaled
  <2> QED
    BY <2>1, <2>2, <2>3
<1>10. unseen' < Horizon /\ Pending' < Horizon => waited' <= Upper'
  <2>1. Upper \in Int
    BY <1>1 DEF Upper, TypeOK, Pending
  <2>2. waited' <= waited + 1
    BY <1>1 DEF Tick, TypeOK
  <2> QED
    BY <1>1, <1>4, <1>7, <2>1, <2>2 DEF TimeInv, TypeOK
<1>11. since' = TICKS * Horizon \/ since' >= Lower'
  <2> DEFINE h == TICKS * Horizon
  <2>1. h \in Nat /\ since \in 0 .. h /\ since' = IF since + 1 > h THEN h ELSE since + 1
    BY <1>1 DEF TypeOK, Tick, UpTo
  <2>2. since = h \/ since >= Lower
    BY DEF TimeInv
  <2> HIDE DEF h
  <2>3. since' = h \/ since' >= Lower'
    BY <1>8, <2>1, <2>2
  <2> QED
    BY <2>3 DEF h
<1>12. pc' = "wait" => slept' <= timeout' * TICKS
  <2> DEFINE m == timeout * TICKS
  <2>1. m \in Int /\ m = timeout' * TICKS
    BY <1>1, <1>2 DEF TypeOK
  <2>2. pc = "wait" => slept < m /\ slept' = slept + 1
    BY DEF Tick
  <2> HIDE DEF m
  <2> QED
    BY <1>1, <1>2, <2>1, <2>2 DEF TypeOK
<1>13. unseen' < Horizon =>
         /\ pc' \in {"test", "sample", "enter", "exited"} => waited' <= Before'
         /\ pc' = "wait" => waited' <= Before' + slept'
         /\ pc' \in {"handle", "rework"} => waited' <= Before' + timeout' * TICKS
  <2> SUFFICES ASSUME unseen' < Horizon
               PROVE  /\ pc \in {"test", "sample", "enter", "exited"} => waited' <= Before'
                      /\ pc = "wait" => waited' <= Before' + slept'
                      /\ pc \in {"handle", "rework"} => waited' <= Before' + timeout * TICKS
    BY <1>2
  <2> DEFINE m == timeout * TICKS
  <2>1. /\ pc \in {"test", "sample", "enter", "exited"} => waited <= Before
        /\ pc = "wait" => waited <= Before + slept
        /\ pc \in {"handle", "rework"} => waited <= Before + m
    BY <1>9 DEF TimeInv
  <2>2. /\ pc # "wait" => waited' = waited
        /\ pc = "wait" => waited' = waited + 1 /\ slept' = slept + 1
    BY <1>9 DEF Tick
  <2>3. m \in Int /\ Before' \in Int /\ waited \in Int /\ slept \in Int
    BY <1>1, <1>4 DEF TypeOK, Before
  <2>4. Before \in Int /\ Before <= Before'
    BY <1>9, <2>3
  <2> HIDE DEF m
  <2>5. /\ pc \in {"test", "sample", "enter", "exited"} => waited' <= Before'
        /\ pc = "wait" => waited' <= Before' + slept'
        /\ pc \in {"handle", "rework"} => waited' <= Before' + m
    BY <2>1, <2>2, <2>3, <2>4
  <2> QED
    BY <2>5 DEF m
<1> QED
  BY <1>2, <1>4, <1>10, <1>11, <1>12, <1>13 DEF TimeInv

\* What the loop does leaves the bounds where they are: TimeIsLeft moves the
\* seconds of the iteration from one term to the other.
LEMMA TimeLoop == TimeInv /\ do_poll => TimeInv'
<1> SUFFICES ASSUME TimeInv, do_poll PROVE TimeInv'
  OBVIOUS
<1> USE Constants, Quantities
<1>1. TypeOK
  BY DEF TimeInv
<1>2. ASSUME UNCHANGED <<timeout, quit, phase, asked, account>>,
             slept' \in Nat, sleeps' \in 0 .. 2,
             pc' \in {"test", "sample", "enter", "wait", "handle", "rework", "exited"},
             passed' \in 0 .. Horizon,
             Pending' = Pending,
             pc' = "wait" => slept' = 0 /\ pc = "enter",
             pc' \in {"test", "sample", "enter", "exited"} =>
               pc \in {"test", "sample", "enter", "exited"},
             pc' \in {"handle", "rework"} => pc \in {"wait", "handle", "rework"}
      PROVE  TimeInv'
  <2>1. /\ timeout' = timeout /\ phase' = phase /\ full' = full /\ since' = since
        /\ waited' = waited /\ unseen' = unseen
    BY <1>2 DEF account
  <2>2. Upper' = Upper /\ Lower' = Lower /\ Before' = Before
    BY <1>2, <2>1 DEF Upper, Lower, Before
  <2>3. TypeOK'
    BY <1>1, <1>2, <2>1 DEF TypeOK
  <2> DEFINE m == timeout * TICKS
  <2>4. m \in Int /\ m >= 0
    BY <1>1
  <2>5. pc' = "wait" => slept' <= m
    BY <1>2, <2>4
  <2>6. pc = "wait" => slept <= m
    BY DEF TimeInv
  <2>7. unseen < Horizon =>
          /\ pc \in {"test", "sample", "enter", "exited"} => waited <= Before
          /\ pc = "wait" => waited <= Before + slept
          /\ pc \in {"handle", "rework"} => waited <= Before + m
    BY DEF TimeInv
  <2> HIDE DEF m
  <2>8. unseen < Horizon =>
          /\ pc' \in {"test", "sample", "enter", "exited"} => waited <= Before
          /\ pc' = "wait" => waited <= Before + slept'
          /\ pc' \in {"handle", "rework"} => waited <= Before + m
    BY <1>1, <1>2, <2>4, <2>6, <2>7
  <2>9. /\ since = TICKS * Horizon \/ since >= Lower
        /\ unseen < Horizon /\ Pending < Horizon => waited <= Upper
        /\ timeout <= full
    BY DEF TimeInv
  <2> QED
    BY <1>2, <2>1, <2>2, <2>3, <2>5, <2>8, <2>9 DEF TimeInv, m
<1>3. CASE TestQuit
  BY <1>1, <1>2, <1>3 DEF TestQuit, clockVars, signalled, account, TypeOK, Pending, Measured
<1>4. CASE Sample
  BY <1>1, <1>2, <1>4 DEF Sample, signalled, account, TypeOK, Pending, Measured
<1>5. CASE EpollWait
  <2>1. sleeps' \in 0 .. 2
    BY <1>1, <1>5 DEF EpollWait, TypeOK, UpTo
  <2> QED
    BY <1>1, <1>2, <1>5, <2>1 DEF EpollWait, account, TypeOK, Pending, Measured
<1>6. CASE Returns
  BY <1>1, <1>2, <1>6 DEF Returns, clockVars, signalled, account, TypeOK, Pending, Measured
<1>7. CASE Handled
  BY <1>1, <1>2, <1>7 DEF Handled, clockVars, signalled, account, TypeOK, Pending, Measured
<1>8. CASE TimeIsLeft
  <2>1. /\ timeout' = timeout - passed /\ passed < timeout
        /\ Pending = passed /\ Pending' = 0
        /\ pc' = "test" /\ phase' = phase /\ full' = full /\ since' = since
        /\ waited' = waited /\ unseen' = unseen
    BY <1>1, <1>8 DEF TimeIsLeft, UsedUp, SecondsLeft, clockVars, account, Pending, Measured
  <2>2. TypeOK'
    BY <1>1, <1>8, <2>1 DEF TimeIsLeft, clockVars, signalled, account, TypeOK
  <2>3. timeout <= full /\ timeout' <= full'
    BY <1>1, <2>1 DEF TimeInv
  <2>4. full' - timeout' + Pending' = full - timeout + Pending
    BY <1>1, <2>1
  <2>5. Lower' = Lower /\ Upper' = Upper
    BY <2>1, <2>4 DEF Lower, Upper
  <2>6. Before' = Upper - phase + TICKS - 1
    <3> DEFINE s == full - timeout + Pending + unseen
               z == full' - timeout' + unseen' + 1
    <3>1. s \in Int /\ z = s + 1
      BY <1>1, <2>1
    <3>2. Upper = s * TICKS + phase /\ Before' = z * TICKS - 1
      BY DEF Upper, Before
    <3> HIDE DEF s, z
    <3> QED
      BY <1>1, <3>1, <3>2, Scaled
  <2>7. unseen < Horizon => waited <= Upper
    BY <1>1, <2>1, <2>3 DEF TimeInv
  <2>8. unseen < Horizon => waited <= Before'
    BY <1>1, <2>6, <2>7
  <2>9. since = TICKS * Horizon \/ since >= Lower
    BY DEF TimeInv
  <2> QED
    BY <2>1, <2>2, <2>3, <2>5, <2>7, <2>8, <2>9 DEF TimeInv
<1>9. CASE house_keeping
  <2>1. /\ pc' = "test" /\ timeout' = EPOLL_LOOP_TIMEOUT /\ full' = timeout'
        /\ since' = 0 /\ waited' = 0 /\ unseen' = 0
        /\ phase' = phase /\ Pending' = 0
    BY <1>9 DEF house_keeping, clockVars, Pending, Measured
  <2>2. TypeOK'
    <3>1. 0 \in 0 .. TICKS * Horizon
      OBVIOUS
    <3> QED
      BY <1>1, <1>9, <2>1, <3>1 DEF house_keeping, clockVars, signalled, TypeOK
  <2>3. full' - timeout' + Pending' = 0 /\ full' - timeout' + Pending' + unseen' = 0
        /\ full' - timeout' + unseen' + 1 = 1
    BY <2>1
  <2>4. Lower' = phase - (TICKS - 1) /\ Upper' = phase /\ Before' = TICKS - 1
    BY <1>1, <2>1, <2>3 DEF Lower, Upper, Before
  <2> QED
    BY <1>1, <2>1, <2>2, <2>4 DEF TimeInv
<1> QED
  BY <1>3, <1>4, <1>5, <1>6, <1>7, <1>8, <1>9 DEF do_poll

\* A signal may cut a sleep short; it moves no clock and no timeout.
LEMMA TimeSignal == TimeInv /\ SIGINT => TimeInv'
<1> SUFFICES ASSUME TimeInv, SIGINT PROVE TimeInv'
  OBVIOUS
<1> USE Constants, Quantities
<1>1. TypeOK
  BY DEF TimeInv
<1>2. /\ timeout' = timeout /\ phase' = phase /\ full' = full /\ since' = since
      /\ waited' = waited /\ unseen' = unseen /\ slept' = slept
      /\ Pending' = Pending /\ pc' = IF pc = "wait" THEN "handle" ELSE pc
  BY DEF SIGINT, ask_to_quit, account, Pending, Measured
<1>3. Upper' = Upper /\ Lower' = Lower /\ Before' = Before
  BY <1>2 DEF Upper, Lower, Before
<1>4. TypeOK'
  BY <1>1 DEF SIGINT, ask_to_quit, account, TypeOK
<1> DEFINE m == timeout * TICKS
<1>5. m \in Int
  BY <1>1
<1>6. /\ pc = "wait" => slept <= m
      /\ unseen < Horizon =>
           /\ pc \in {"test", "sample", "enter", "exited"} => waited <= Before
           /\ pc = "wait" => waited <= Before + slept
           /\ pc \in {"handle", "rework"} => waited <= Before + m
  BY DEF TimeInv
<1> HIDE DEF m
<1>7. /\ pc' # "wait"
      /\ unseen < Horizon =>
           /\ pc' \in {"test", "sample", "enter", "exited"} => waited <= Before
           /\ pc' \in {"handle", "rework"} => waited <= Before + m
  BY <1>1, <1>2, <1>5, <1>6
<1>8. /\ since = TICKS * Horizon \/ since >= Lower
      /\ unseen < Horizon /\ Pending < Horizon => waited <= Upper
      /\ timeout <= full
  BY DEF TimeInv
<1> QED
  BY <1>2, <1>3, <1>4, <1>7, <1>8 DEF TimeInv, m

LEMMA TimeStep == TimeInv /\ [Next]_vars => TimeInv'
<1> SUFFICES ASSUME TimeInv, [Next]_vars PROVE TimeInv'
  OBVIOUS
<1>1. CASE UNCHANGED vars
  <2>1. Upper' = Upper /\ Lower' = Lower /\ Before' = Before /\ Pending' = Pending
    BY <1>1 DEF vars, loopVars, clockVars, signalled, account,
                Upper, Lower, Before, Pending, Measured
  <2> QED
    BY <1>1, <2>1 DEF TimeInv, TypeOK, vars, loopVars, clockVars, signalled, account
<1> QED
  BY <1>1, TimeTick, TimeLoop, TimeSignal DEF Next

\* The sum of what was slept stays below full + unseen + 1 seconds at every
\* point of the iteration.
LEMMA Slept == TimeInv => NotTooLate
<1> SUFFICES ASSUME TimeInv, unseen < Horizon
             PROVE  waited < (full + unseen + 1) * TICKS
  BY DEF NotTooLate
<1> USE Constants, Quantities
<1>1. TypeOK
  BY DEF TimeInv
<1> DEFINE s == full - timeout + unseen + 1
           e == full + unseen + 1
           m == timeout * TICKS
<1>2. Before = s * TICKS - 1 /\ s * TICKS + m = e * TICKS /\ m >= 0
  <2>1. s \in Int /\ e = s + timeout
    BY <1>1
  <2>2. (s + timeout) * TICKS = s * TICKS + timeout * TICKS
    BY <1>1, <2>1, Distributes
  <2>3. Before = s * TICKS - 1
    BY DEF Before
  <2> QED
    BY <1>1, <2>1, <2>2, <2>3
<1>3. s * TICKS \in Int /\ m \in Int /\ e * TICKS \in Int
  BY <1>1
<1>4. /\ pc \in {"test", "sample", "enter", "exited"} => waited <= Before
      /\ pc = "wait" => waited <= Before + slept /\ slept <= m
      /\ pc \in {"handle", "rework"} => waited <= Before + m
      /\ pc \in {"test", "sample", "enter", "wait", "handle", "rework", "exited"}
  BY DEF TimeInv, TypeOK
<1> HIDE DEF s, e, m
<1>5. waited < e * TICKS
  BY <1>1, <1>2, <1>3, <1>4
<1> QED
  BY <1>5 DEF e

\* From any start, and however the clock, the events and SIGINT interleave:
\* the timeout given to epoll_wait, computed from truncated clock readings, is
\* at least one second, and between two calls of house_keeping the loop sleeps
\* less than a second longer than it should, the seconds it did not see begin
\* apart (PollLoop!Inv: TypeOK and NotTooLate).
THEOREM LoopKeepsTime == Spec => []Inv
<1>1. TimeInv => Inv
  BY Slept DEF TimeInv, Inv
<1> QED
  BY TimeInit, TimeStep, <1>1, PTL DEF Spec

\* house_keeping is never called as much as a second before its time, however
\* many iterations the time is spread over and whatever each loses by
\* truncation (PollLoop!NotTooEarly).
THEOREM LoopIsNotEarly == Spec => NotTooEarly
<1> USE Constants, Quantities
<1>1. ASSUME TimeInv, house_keeping PROVE since > (full - 1) * TICKS
  <2>1. TypeOK /\ (since = TICKS * Horizon \/ since >= Lower)
    BY <1>1 DEF TimeInv
  <2>2. Pending = passed /\ passed >= timeout
    BY <1>1 DEF house_keeping, UsedUp, Pending, Measured
  <2> DEFINE s == full - timeout + Pending
  <2>3. Lower = s * TICKS + phase - (TICKS - 1) /\ s \in Int /\ s >= full
    BY <2>1, <2>2 DEF Lower
  <2> HIDE DEF s
  <2>4. full * TICKS <= s * TICKS /\ s * TICKS \in Int
    BY <2>1, <2>3, Scaled
  <2>5. full * TICKS <= Horizon * TICKS /\ Horizon * TICKS = TICKS * Horizon
    BY <2>1, Scaled
  <2>6. (full - 1) * TICKS = full * TICKS - TICKS /\ full * TICKS \in Int
    BY <2>1, Distributes
  <2> QED
    BY <2>1, <2>3, <2>4, <2>5, <2>6
<1>2. TimeInv /\ [Next]_vars => [house_keeping => since > (full - 1) * TICKS]_vars
  BY <1>1
<1> QED
  BY <1>2, TimeInit, TimeStep, PTL DEF Spec, NotTooEarly

-----------------------------------------------------------------------------
(* SIGINT. *)

\* After SIGINT the loop goes to sleep at most once more, also if the signal
\* comes between the test of the flag and epoll_wait (PollLoop!OneMoreSleep).
THEOREM QuitsPromptly == Spec => []OneMoreSleep
<1>1. Init => QuitInv
  BY TimeInit DEF Init, QuitInv, TimeInv
<1>2. QuitInv /\ TypeOK' /\ [Next]_vars => QuitInv'
  <2> SUFFICES ASSUME QuitInv, TypeOK', [Next]_vars PROVE QuitInv'
    OBVIOUS
  <2> USE DEF QuitInv
  <2>1. CASE TestQuit
    BY <2>1 DEF TestQuit, signalled
  <2>2. CASE Sample
    BY <2>2 DEF Sample, signalled
  <2>3. CASE EpollWait
    BY <2>3 DEF EpollWait, UpTo
  <2>4. CASE Returns
    BY <2>4 DEF Returns, signalled
  <2>5. CASE Handled
    BY <2>5 DEF Handled, signalled
  <2>6. CASE TimeIsLeft
    BY <2>6 DEF TimeIsLeft, signalled
  <2>7. CASE house_keeping
    BY <2>7 DEF house_keeping, signalled
  <2>8. CASE SIGINT
    BY <2>8 DEF SIGINT, ask_to_quit
  <2>9. CASE Tick
    BY <2>9 DEF Tick, loopVars, signalled
  <2>10. CASE UNCHANGED vars
    BY <2>10 DEF vars, loopVars, signalled
  <2> QED
    BY <2>1, <2>2, <2>3, <2>4, <2>5, <2>6, <2>7, <2>8, <2>9, <2>10 DEF Next, do_poll
<1>3. QuitInv => OneMoreSleep
  BY DEF QuitInv, OneMoreSleep
<1>4. Inv => TypeOK
  BY DEF Inv
<1> QED
  BY <1>1, <1>2, <1>3, <1>4, LoopKeepsTime, PTL DEF Spec

-----------------------------------------------------------------------------
(* v3: the inductive invariant.                                             *)

\* A peer is at one descriptor at most, or once in the backlog, or nowhere.
PlacesSound ==
  /\ Single(backlog)
  /\ \A f, g \in Fds : sock[f] = sock[g] /\ sock[f] # NOBODY => f = g
  /\ \A f \in Fds : sock[f] \notin Elements(backlog)
  /\ \A p \in Peers : conn[p] = "none" =>
       p \notin Elements(backlog) /\ \A f \in Fds : sock[f] # p

\* EventsAreFresh, and only the event of the listening socket has nobody.
EventsSound == EventsAreFresh /\ \A e \in cev : e.fd = 0 => e.of = NOBODY

\* OneWholeReply, for any step of the simpleclient.
TurnSound(p) ==
  /\ step[p] = "read" => \/ inbox[p] = 1 /\ wire[p] = 0
                         \/ inbox[p] = 0 /\ wire[p] = ReplyLength
  /\ step[p] # "read" => inbox[p] = 0 /\ wire[p] = 0
  /\ step[p] \in {"write", "read"} => conn[p] = "open"
  /\ step[p] = "connect" => round[p] = 0
  /\ step[p] = "write" => round[p] < Rounds

EchoSound ==
  /\ EchoTypeOK
  /\ PlacesSound
  /\ EventsSound
  /\ \A p \in SimpleClients : TurnSound(p)

LEMMA EchoFacts ==
  /\ SimpleClients \subseteq Peers /\ NOBODY \notin Peers /\ 0 \notin Fds
  /\ Rounds \in Nat \ {0} /\ RcvBuf \in Nat \ {0}
  /\ SndBuf \in Nat /\ ReplyLength \in Nat \ {0} /\ ReplyLength <= SndBuf
  /\ MaxLen \in Nat
  BY V3Assumption DEF Peers, MaxLen

\* Whom an event is about, and that no other is about the same descriptor.
LEMMA EventInHand ==
  ASSUME EchoSound, NEW e \in cev
  PROVE  /\ e.fd = 0 => backlog # <<>>
         /\ e.fd # 0 => /\ e.fd \in Fds /\ sock[e.fd] \in Peers
                        /\ sock[e.fd] # NOBODY
         /\ \A d \in cev : d.fd = e.fd => d = e
<1>1. \A d \in cev : /\ d.fd \in Fds \cup {0}
                     /\ d = [fd |-> d.fd, of |-> d.of]
                     /\ d.fd = 0 => backlog # <<>> /\ d.of = NOBODY
                     /\ d.fd # 0 => d.of # NOBODY /\ sock[d.fd] = d.of
  BY DEF EchoSound, EchoTypeOK, Event, EventsSound, EventsAreFresh
<1>2. \A d \in cev : d.fd = e.fd => d = e
  BY <1>1
<1>3. e.fd # 0 => e.fd \in Fds /\ sock[e.fd] # NOBODY
  BY <1>1
<1>4. e.fd # 0 => sock[e.fd] \in Peers
  BY <1>3 DEF EchoSound, EchoTypeOK
<1> QED
  BY <1>1, <1>2, <1>3, <1>4

\* An event is handled, and only its own descriptor is closed.
LEMMA EventsKept ==
  ASSUME EchoSound, NEW e \in cev, handle_event(e),
         \A f \in Fds : f # e.fd /\ sock[f] # NOBODY => sock'[f] = sock[f],
         e.fd # 0 => backlog' = backlog
  PROVE  /\ EventsSound'
         /\ cev' \subseteq Event /\ stage' \in {"wait", "dispatch"}
<1>1. cev' = cev \ {e} /\ stage' \in {"wait", "dispatch"}
  BY DEF handle_event
<1>2. ASSUME NEW d \in cev'
      PROVE  /\ d.fd = 0 => d.of = NOBODY /\ backlog' # <<>>
             /\ d.fd # 0 => d.of # NOBODY /\ sock'[d.fd] = d.of
  <2>1. d \in cev /\ d # e
    BY <1>1
  <2>2. d.fd # e.fd
    BY <2>1, EventInHand
  <2>3. CASE d.fd = 0
    <3>1. d.of = NOBODY /\ backlog # <<>>
      BY <2>1, <2>3 DEF EchoSound, EventsSound, EventsAreFresh
    <3> QED
      BY <2>2, <2>3, <3>1
  <2>4. CASE d.fd # 0
    <3>1. /\ d.fd \in Fds /\ sock[d.fd] # NOBODY
          /\ d.of # NOBODY /\ sock[d.fd] = d.of
      BY <2>1, <2>4, EventInHand DEF EchoSound, EventsSound, EventsAreFresh
    <3> QED
      BY <2>2, <2>4, <3>1
  <2> QED
    BY <2>3, <2>4
<1>3. cev' \subseteq Event
  BY <1>1 DEF EchoSound, EchoTypeOK
<1>4. EventsSound'
  BY <1>2 DEF EventsSound, EventsAreFresh
<1> QED
  BY <1>1, <1>3, <1>4

\* What is known of the peers' ends, however they are used.
EndsTyped ==
  /\ conn \in [Peers -> {"none", "open", "closed", "reset"}]
  /\ inbox \in [Peers -> 0 .. RcvBuf]
  /\ wire \in [Peers -> 0 .. SndBuf]
  /\ step \in [SimpleClients -> {"connect", "write", "read", "killed"}]
  /\ round \in [SimpleClients -> 0 .. Rounds]

LEMMA EchoTyped ==
  EchoTypeOK <=> /\ EndsTyped
                 /\ backlog \in Seq(Peers)
                 /\ sock \in [Fds -> Peers \cup {NOBODY}]
                 /\ _client \in Fds \cup {0}
                 /\ cev \subseteq Event
                 /\ stage \in {"wait", "dispatch"}
  BY DEF EchoTypeOK, EndsTyped

LEMMA EndedKeeps ==
  ASSUME EchoSound, NEW S, Ended(S)
  PROVE  /\ EndsTyped'
         /\ \A p \in SimpleClients : TurnSound(p)'
         /\ \A p \in Peers : conn'[p] = "none" => p \in S \/ conn[p] = "none"
<1>1. /\ conn' = [p \in Peers |-> IF p \in S THEN "none" ELSE conn[p]]
      /\ inbox' = [p \in Peers |-> IF p \in S THEN 0 ELSE inbox[p]]
      /\ wire' = [p \in Peers |-> IF p \in S THEN 0 ELSE wire[p]]
      /\ step' = [p \in SimpleClients |-> IF p \in S /\ conn[p] = "open" THEN "killed"
                                                                         ELSE step[p]]
      /\ round' = round
  BY DEF Ended
<1>2. EndsTyped'
  BY <1>1, EchoFacts DEF EchoSound, EchoTypeOK, EndsTyped
<1>3. ASSUME NEW p \in SimpleClients PROVE TurnSound(p)'
  <2>1. /\ TurnSound(p) /\ p \in Peers
        /\ step[p] \in {"connect", "write", "read", "killed"}
    BY EchoFacts DEF EchoSound, EchoTypeOK
  <2> QED
    BY <1>1, <2>1 DEF TurnSound
<1> QED
  BY <1>1, <1>2, <1>3

-----------------------------------------------------------------------------
(* v3: the steps.                                                           *)

LEMMA AcceptKeeps ==
  ASSUME EchoSound, NEW e \in cev, Accept(e)
  PROVE  EchoSound'
<1>1. PICK f \in Fds : sock[f] = NOBODY /\ sock' = [sock EXCEPT ![f] = Head(backlog)]
  BY DEF Accept
<1>2. /\ handle_event(e) /\ e.fd = 0 /\ backlog' = Tail(backlog)
      /\ UNCHANGED <<_client, conn, inbox, wire, step, round>>
  BY DEF Accept
<1>3. /\ backlog # <<>> /\ backlog \in Seq(Peers) /\ Single(backlog)
      /\ sock \in [Fds -> Peers \cup {NOBODY}]
  BY <1>2, EventInHand DEF EchoSound, EchoTypeOK, PlacesSound
<1> DEFINE h == Head(backlog)
<1>4. /\ h \in Peers /\ h \in Elements(backlog)
      /\ backlog' \in Seq(Peers) /\ Single(backlog')
      /\ Elements(backlog') = Elements(backlog) \ {h}
  BY <1>2, <1>3, Leaving
<1> HIDE DEF h
<1>5. /\ sock' \in [Fds -> Peers \cup {NOBODY}]
      /\ \A g \in Fds : sock'[g] = IF g = f THEN h ELSE sock[g]
  BY <1>1, <1>3, <1>4 DEF h
<1>6. PlacesSound'
  <2>1. \A g, j \in Fds : sock'[g] = sock'[j] /\ sock'[g] # NOBODY => g = j
    BY <1>4, <1>5 DEF EchoSound, PlacesSound
  <2>2. \A g \in Fds : sock'[g] \notin Elements(backlog')
    BY <1>4, <1>5 DEF EchoSound, PlacesSound
  <2>3. ASSUME NEW p \in Peers, conn'[p] = "none"
        PROVE  p \notin Elements(backlog') /\ \A g \in Fds : sock'[g] # p
    <3>1. p \notin Elements(backlog) /\ \A g \in Fds : sock[g] # p
      BY <1>2, <2>3 DEF EchoSound, PlacesSound
    <3> QED
      BY <1>4, <1>5, <3>1
  <2> QED
    BY <1>4, <2>1, <2>2, <2>3 DEF PlacesSound
<1>7. EventsSound' /\ cev' \subseteq Event /\ stage' \in {"wait", "dispatch"}
  BY <1>1, <1>2, <1>5, EventsKept
<1>8. EchoTypeOK'
  BY <1>2, <1>4, <1>5, <1>7 DEF EchoSound, EchoTypeOK
<1>9. \A p \in SimpleClients : TurnSound(p)'
  BY <1>2 DEF EchoSound, TurnSound
<1> QED
  BY <1>6, <1>7, <1>8, <1>9 DEF EchoSound

LEMMA AcceptFailsKeeps ==
  ASSUME EchoSound, NEW e \in cev, AcceptFails(e)
  PROVE  EchoSound'
<1> DEFINE h == Head(backlog)
<1>1. /\ handle_event(e) /\ e.fd = 0 /\ Ended({h}) /\ backlog' = Tail(backlog)
      /\ UNCHANGED <<sock, _client>>
  BY DEF AcceptFails
<1>2. backlog # <<>> /\ backlog \in Seq(Peers) /\ Single(backlog)
  BY <1>1, EventInHand DEF EchoSound, EchoTypeOK, PlacesSound
<1>3. /\ h \in Elements(backlog)
      /\ backlog' \in Seq(Peers) /\ Single(backlog')
      /\ Elements(backlog') = Elements(backlog) \ {h}
  BY <1>1, <1>2, Leaving
<1> HIDE DEF h
<1>4. /\ EndsTyped' /\ \A p \in SimpleClients : TurnSound(p)'
      /\ \A p \in Peers : conn'[p] = "none" => p = h \/ conn[p] = "none"
  BY <1>1, EndedKeeps
<1>5. PlacesSound'
  <2>1. ASSUME NEW p \in Peers, conn'[p] = "none"
        PROVE  p \notin Elements(backlog') /\ \A g \in Fds : sock[g] # p
    BY <1>3, <1>4, <2>1 DEF EchoSound, PlacesSound
  <2> QED
    BY <1>1, <1>3, <2>1 DEF EchoSound, PlacesSound
<1>6. EventsSound' /\ cev' \subseteq Event /\ stage' \in {"wait", "dispatch"}
  BY <1>1, EventsKept
<1>7. EchoTypeOK'
  <2>1. /\ sock' \in [Fds -> Peers \cup {NOBODY}] /\ _client' \in Fds \cup {0}
    BY <1>1 DEF EchoSound, EchoTypeOK
  <2> QED
    BY <1>3, <1>4, <1>6, <2>1 DEF EchoTypeOK, EndsTyped
<1> QED
  BY <1>4, <1>5, <1>6, <1>7 DEF EchoSound

\* The descriptor of the event is closed.
LEMMA DisconnectKeeps ==
  ASSUME EchoSound, NEW e \in cev, handle_event(e), e.fd # 0, on_disconnect(e.fd),
         _client' \in Fds \cup {0}
  PROVE  EchoSound'
<1> DEFINE f == e.fd
           h == sock[f]
<1>1. f \in Fds /\ h \in Peers /\ h # NOBODY
  BY EventInHand
<1>2. /\ sock' = [sock EXCEPT ![f] = NOBODY] /\ backlog' = backlog
      /\ Ended({h} \ {NOBODY})
  BY DEF on_disconnect
<1> HIDE DEF f
<1>3. /\ EndsTyped' /\ \A p \in SimpleClients : TurnSound(p)'
      /\ \A p \in Peers : conn'[p] = "none" => p = h \/ conn[p] = "none"
  BY <1>2, EndedKeeps
<1>4. /\ sock' \in [Fds -> Peers \cup {NOBODY}]
      /\ \A g \in Fds : sock'[g] = IF g = f THEN NOBODY ELSE sock[g]
  BY <1>1, <1>2 DEF EchoSound, EchoTypeOK
<1>5. PlacesSound'
  <2>1. \A g, j \in Fds : sock'[g] = sock'[j] /\ sock'[g] # NOBODY => g = j
    BY <1>4 DEF EchoSound, PlacesSound
  <2>2. backlog \in Seq(Peers) /\ NOBODY \notin Elements(backlog)
    <3>1. backlog \in Seq(Peers)
      BY DEF EchoSound, EchoTypeOK
    <3>2. \A k \in 1 .. Len(backlog) : backlog[k] \in Peers
      BY <3>1, ElementOfSeq
    <3> QED
      BY <3>1, <3>2, EchoFacts DEF Elements
  <2>3. \A g \in Fds : sock'[g] \notin Elements(backlog')
    BY <1>2, <1>4, <2>2 DEF EchoSound, PlacesSound
  <2>4. ASSUME NEW p \in Peers, conn'[p] = "none"
        PROVE  p \notin Elements(backlog') /\ \A g \in Fds : sock'[g] # p
    <3>1. CASE p = h
      <4>1. p \notin Elements(backlog)
        BY <1>1, <3>1 DEF EchoSound, PlacesSound
      <4>2. \A g \in Fds : g # f => sock[g] # p
        BY <1>1, <3>1 DEF EchoSound, PlacesSound
      <4>3. p # NOBODY
        BY EchoFacts
      <4> QED
        BY <1>2, <1>4, <4>1, <4>2, <4>3
    <3>2. CASE conn[p] = "none"
      <4>1. p \notin Elements(backlog) /\ \A g \in Fds : sock[g] # p
        BY <3>2 DEF EchoSound, PlacesSound
      <4> QED
        BY <1>2, <1>4, <4>1, EchoFacts
    <3> QED
      BY <1>3, <2>4, <3>1, <3>2
  <2> QED
    BY <1>2, <2>1, <2>3, <2>4 DEF EchoSound, PlacesSound
<1>6. EventsSound' /\ cev' \subseteq Event /\ stage' \in {"wait", "dispatch"}
  <2>1. \A g \in Fds : g # e.fd /\ sock[g] # NOBODY => sock'[g] = sock[g]
    BY <1>4 DEF f
  <2> QED
    BY <1>2, <2>1, EventsKept
<1>7. EchoTypeOK'
  <2>1. backlog' \in Seq(Peers)
    BY <1>2 DEF EchoSound, EchoTypeOK
  <2> QED
    BY <1>3, <1>4, <1>6, <2>1 DEF EchoTypeOK, EndsTyped
<1> QED
  BY <1>3, <1>5, <1>6, <1>7 DEF EchoSound

LEMMA AnswersKeeps ==
  ASSUME EchoSound, NEW e \in cev, Answers(e)
  PROVE  EchoSound'
<1> DEFINE f == e.fd
           q == sock[f]
<1>1. /\ handle_event(e) /\ f # 0 /\ BytesRead(q) > 0 /\ _client' = f
      /\ \/ on_disconnect(f)
         \/ /\ q # NOBODY
            /\ inbox' = [inbox EXCEPT ![q] = @ - BytesRead(q)]
            /\ Send(q)
            /\ UNCHANGED <<sock, backlog, conn, step, round>>
  BY DEF Answers, Addressee
<1>2. f \in Fds /\ q \in Peers
  BY <1>1, EventInHand
<1>3. CASE on_disconnect(f)
  BY <1>1, <1>2, <1>3, DisconnectKeeps
<1>4. CASE /\ inbox' = [inbox EXCEPT ![q] = @ - BytesRead(q)]
           /\ Send(q)
           /\ UNCHANGED <<sock, backlog, conn, step, round>>
  <2> DEFINE n == BytesRead(q)
             s == wire[q] + ReplyLength
             w == IF s <= SndBuf THEN s ELSE SndBuf
  <2>1. /\ inbox \in [Peers -> 0 .. RcvBuf] /\ wire \in [Peers -> 0 .. SndBuf]
        /\ inbox[q] \in 0 .. RcvBuf /\ wire[q] \in 0 .. SndBuf
    BY <1>2 DEF EchoSound, EchoTypeOK
  <2>2. n \in Nat /\ n > 0 /\ n <= inbox[q]
    BY <1>1, <2>1, EchoFacts DEF BytesRead
  <2>3. w \in 0 .. SndBuf
    BY <2>1, EchoFacts
  <2>4. inbox[q] - n \in 0 .. RcvBuf
    BY <2>1, <2>2, EchoFacts
  <2>5. wire' = [wire EXCEPT ![q] = w]
    BY <1>4 DEF Send
  <2> HIDE DEF n, w, s
  <2>6. inbox' = [inbox EXCEPT ![q] = inbox[q] - n]
    BY <1>4 DEF n
  <2> HIDE DEF f, q
  <2>7. /\ inbox' \in [Peers -> 0 .. RcvBuf] /\ wire' \in [Peers -> 0 .. SndBuf]
        /\ \A p \in Peers : /\ inbox'[p] = IF p = q THEN inbox[q] - n ELSE inbox[p]
                            /\ wire'[p] = IF p = q THEN w ELSE wire[p]
    BY <1>2, <2>1, <2>3, <2>4, <2>5, <2>6
  <2>8. ASSUME NEW p \in SimpleClients PROVE TurnSound(p)'
    <3>1. p \in Peers /\ TurnSound(p)
      BY EchoFacts DEF EchoSound
    <3>2. CASE p # q
      BY <1>4, <2>7, <3>1, <3>2 DEF TurnSound
    <3>3. CASE p = q
      <4>1. step[p] = "read" /\ inbox[p] = 1 /\ wire[p] = 0
        BY <2>1, <2>2, <3>1, <3>3 DEF TurnSound
      <4>2. s = ReplyLength /\ n = 1
        BY <2>1, <2>2, <3>3, <4>1, EchoFacts DEF s
      <4>3. w = ReplyLength
        BY <4>2, EchoFacts DEF w
      <4>4. inbox'[p] = 0 /\ wire'[p] = ReplyLength
        BY <2>7, <3>1, <3>3, <4>1, <4>2, <4>3
      <4> QED
        BY <1>4, <3>1, <4>1, <4>4 DEF TurnSound
    <3> QED
      BY <3>2, <3>3
  <2>9. EventsSound' /\ cev' \subseteq Event /\ stage' \in {"wait", "dispatch"}
    BY <1>1, <1>4, EventsKept
  <2>10. PlacesSound'
    BY <1>4 DEF EchoSound, PlacesSound
  <2>11. EchoTypeOK'
    BY <1>1, <1>2, <1>4, <2>7, <2>9 DEF EchoSound, EchoTypeOK
  <2> QED
    BY <2>8, <2>9, <2>10, <2>11 DEF EchoSound
<1> QED
  BY <1>1, <1>3, <1>4

LEMMA PollKeeps ==
  ASSUME EchoSound, PollWait
  PROVE  EchoSound'
<1>1. cev' = Ready /\ stage' = "dispatch" /\ UNCHANGED <<sock, _client, peerVars>>
  BY DEF PollWait
<1>2. UNCHANGED <<backlog, conn, inbox, wire, step, round>>
  BY <1>1 DEF peerVars
<1>3. ASSUME NEW e \in Ready
      PROVE  /\ e \in Event
             /\ e.fd = 0 => e.of = NOBODY /\ backlog # <<>>
             /\ e.fd # 0 => e.of # NOBODY /\ sock[e.fd] = e.of
  <2>1. CASE \E f \in Fds : sock[f] # NOBODY /\ e = [fd |-> f, of |-> sock[f]]
    <3>1. PICK f \in Fds : sock[f] # NOBODY /\ e = [fd |-> f, of |-> sock[f]]
      BY <2>1
    <3>2. f # 0 /\ sock[f] \in Peers \cup {NOBODY}
      BY EchoFacts DEF EchoSound, EchoTypeOK
    <3> QED
      BY <3>1, <3>2 DEF Event
  <2>2. CASE backlog # <<>> /\ e = [fd |-> 0, of |-> NOBODY]
    BY <2>2 DEF Event
  <2> QED
    BY <1>3, <2>1, <2>2 DEF Ready
<1>4. EventsSound' /\ cev' \subseteq Event
  BY <1>1, <1>2, <1>3 DEF EventsSound, EventsAreFresh
<1>5. PlacesSound'
  BY <1>1, <1>2 DEF EchoSound, PlacesSound
<1>6. EchoTypeOK'
  BY <1>1, <1>2, <1>4 DEF EchoSound, EchoTypeOK
<1>7. \A p \in SimpleClients : TurnSound(p)'
  BY <1>2 DEF EchoSound, TurnSound
<1> QED
  BY <1>4, <1>5, <1>6, <1>7 DEF EchoSound

LEMMA LoopKeeps ==
  ASSUME EchoSound, loop
  PROVE  EchoSound'
<1>1. CASE PollWait
  BY <1>1, PollKeeps
<1>2. ASSUME NEW e \in cev, on_data_received(e) PROVE EchoSound'
  <2>1. CASE Accept(e)
    BY <2>1, AcceptKeeps
  <2>2. CASE AcceptFails(e)
    BY <2>2, AcceptFailsKeeps
  <2>3. CASE Answers(e)
    BY <2>3, AnswersKeeps
  <2>4. CASE Disconnects(e)
    <3>1. /\ handle_event(e) /\ e.fd # 0 /\ on_disconnect(e.fd) /\ _client' = _client
      BY <2>4 DEF Disconnects
    <3>2. _client' \in Fds \cup {0}
      BY <3>1 DEF EchoSound, EchoTypeOK
    <3> QED
      BY <3>1, <3>2, DisconnectKeeps
  <2> QED
    BY <1>2, <2>1, <2>2, <2>3, <2>4 DEF on_data_received, accept_connection
<1> QED
  BY <1>1, <1>2 DEF loop

\* A peer moves, and neither a place nor the backlog is given up for it.
LEMMA PeerKeeps ==
  ASSUME EchoSound, UNCHANGED serverVars, EndsTyped',
         \A p \in SimpleClients : TurnSound(p)',
         backlog' \in Seq(Peers), backlog # <<>> => backlog' # <<>>,
         PlacesSound'
  PROVE  EchoSound'
<1>1. UNCHANGED <<sock, _client, cev, stage>>
  BY DEF serverVars
<1>2. EventsSound'
  BY <1>1 DEF EchoSound, EventsSound, EventsAreFresh
<1>3. EchoTypeOK'
  BY <1>1 DEF EchoSound, EchoTypeOK, EndsTyped
<1> QED
  BY <1>2, <1>3 DEF EchoSound

LEMMA ConnectsPlaces ==
  ASSUME EchoSound, NEW p \in Peers, Connects(p), UNCHANGED sock
  PROVE  /\ PlacesSound'
         /\ backlog' \in Seq(Peers) /\ backlog' # <<>>
         /\ conn' \in [Peers -> {"none", "open", "closed", "reset"}]
         /\ \A q \in Peers : conn'[q] = IF q = p THEN "open" ELSE conn[q]
<1>1. /\ conn[p] = "none" /\ conn' = [conn EXCEPT ![p] = "open"]
      /\ backlog' = Append(backlog, p) /\ sock' = sock
  BY DEF Connects
<1>2. /\ backlog \in Seq(Peers) /\ Single(backlog) /\ p \notin Elements(backlog)
      /\ \A f \in Fds : sock[f] # p
      /\ conn \in [Peers -> {"none", "open", "closed", "reset"}]
  BY <1>1 DEF EchoSound, EchoTypeOK, PlacesSound
<1>3. /\ backlog' \in Seq(Peers) /\ backlog' # <<>> /\ Single(backlog')
      /\ Elements(backlog') = Elements(backlog) \cup {p}
  BY <1>1, <1>2, Joining
<1>4. /\ conn' \in [Peers -> {"none", "open", "closed", "reset"}]
      /\ \A q \in Peers : conn'[q] = IF q = p THEN "open" ELSE conn[q]
  BY <1>1, <1>2
<1>5. PlacesSound'
  <2>1. ASSUME NEW q \in Peers, conn'[q] = "none"
        PROVE  q \notin Elements(backlog') /\ \A f \in Fds : sock'[f] # q
    <3>1. q # p /\ conn[q] = "none"
      BY <1>4, <2>1
    <3> QED
      BY <1>1, <1>3, <3>1 DEF EchoSound, PlacesSound
  <2> QED
    BY <1>1, <1>2, <1>3, <2>1 DEF EchoSound, PlacesSound
<1> QED
  BY <1>3, <1>4, <1>5

\* Whoever is connected stays where it is.
LEMMA PlacesStay ==
  ASSUME EchoSound, UNCHANGED <<sock, backlog>>,
         \A q \in Peers : conn'[q] = "none" => conn[q] = "none"
  PROVE  PlacesSound'
  BY DEF EchoSound, PlacesSound

LEMMA SimpleKeeps ==
  ASSUME EchoSound, NEW p \in SimpleClients, simpleclient(p)
  PROVE  EchoSound'
<1>1. p \in Peers /\ TurnSound(p) /\ EndsTyped
  BY EchoFacts DEF EchoSound, EchoTypeOK, EndsTyped
<1>2. \A q \in SimpleClients : q \in Peers /\ TurnSound(q)
  BY EchoFacts DEF EchoSound
<1>3. CASE SimpleConnect(p)
  <2>1. /\ step[p] = "connect" /\ Connects(p)
        /\ step' = [step EXCEPT ![p] = "write"]
        /\ UNCHANGED <<inbox, wire, round, sock>> /\ UNCHANGED serverVars
    BY <1>3 DEF SimpleConnect, serverVars
  <2>2. /\ PlacesSound' /\ backlog' \in Seq(Peers) /\ backlog' # <<>>
        /\ conn' \in [Peers -> {"none", "open", "closed", "reset"}]
        /\ \A q \in Peers : conn'[q] = IF q = p THEN "open" ELSE conn[q]
    BY <1>1, <2>1, ConnectsPlaces
  <2>3. EndsTyped'
    BY <1>1, <2>1, <2>2 DEF EndsTyped
  <2>4. \A q \in SimpleClients : step'[q] = IF q = p THEN "write" ELSE step[q]
    BY <1>1, <2>1 DEF EndsTyped
  <2>5. ASSUME NEW q \in SimpleClients PROVE TurnSound(q)'
    BY <1>2, <2>1, <2>2, <2>4, EchoFacts DEF TurnSound
  <2> QED
    BY <2>1, <2>2, <2>3, <2>5, PeerKeeps
<1>4. CASE SimpleWrite(p)
  <2>1. /\ step[p] = "write" /\ inbox[p] < RcvBuf
        /\ inbox' = [inbox EXCEPT ![p] = inbox[p] + 1]
        /\ step' = [step EXCEPT ![p] = "read"]
        /\ round' = [round EXCEPT ![p] = round[p] + 1]
        /\ UNCHANGED <<backlog, conn, wire, sock>> /\ UNCHANGED serverVars
    BY <1>4 DEF SimpleWrite, serverVars
  <2>2. /\ inbox[p] = 0 /\ wire[p] = 0 /\ round[p] < Rounds /\ round[p] \in Nat
        /\ conn[p] = "open"
    BY <1>1, <2>1, EchoFacts DEF TurnSound, EndsTyped
  <2>3. inbox[p] + 1 \in 0 .. RcvBuf /\ round[p] + 1 \in 0 .. Rounds
    BY <2>2, EchoFacts
  <2>4. /\ EndsTyped'
        /\ \A q \in SimpleClients :
             /\ step'[q] = IF q = p THEN "read" ELSE step[q]
             /\ round'[q] = IF q = p THEN round[p] + 1 ELSE round[q]
        /\ \A q \in Peers : inbox'[q] = IF q = p THEN 1 ELSE inbox[q]
    BY <1>1, <2>1, <2>2, <2>3 DEF EndsTyped
  <2>5. ASSUME NEW q \in SimpleClients PROVE TurnSound(q)'
    BY <1>2, <2>1, <2>2, <2>4 DEF TurnSound
  <2>6. PlacesSound'
    BY <2>1, PlacesStay
  <2>7. backlog' \in Seq(Peers)
    BY <2>1 DEF EchoSound, EchoTypeOK
  <2> QED
    BY <2>1, <2>4, <2>5, <2>6, <2>7, PeerKeeps
<1>5. CASE SimpleRead(p)
  <2> DEFINE last == round[p] = Rounds
  <2>1. /\ step[p] = "read" /\ wire[p] > 0
        /\ wire' = [wire EXCEPT ![p] = 0]
        /\ step' = [step EXCEPT ![p] = IF last THEN "connect" ELSE "write"]
        /\ round' = [round EXCEPT ![p] = IF last THEN 0 ELSE round[p]]
        /\ conn' = [conn EXCEPT ![p] = IF last THEN "closed" ELSE conn[p]]
        /\ UNCHANGED <<backlog, inbox, sock>> /\ UNCHANGED serverVars
    BY <1>5 DEF SimpleRead, serverVars
  <2>2. /\ inbox[p] = 0 /\ conn[p] = "open" /\ round[p] \in 0 .. Rounds
    BY <1>1, <2>1, EchoFacts DEF TurnSound, EndsTyped
  <2>3. /\ EndsTyped'
        /\ \A q \in SimpleClients :
             /\ step'[q] = IF q = p THEN IF last THEN "connect" ELSE "write" ELSE step[q]
             /\ round'[q] = IF q = p THEN IF last THEN 0 ELSE round[p] ELSE round[q]
        /\ \A q \in Peers :
             /\ wire'[q] = IF q = p THEN 0 ELSE wire[q]
             /\ conn'[q] = IF q = p THEN IF last THEN "closed" ELSE "open" ELSE conn[q]
    BY <1>1, <2>1, <2>2, EchoFacts DEF EndsTyped
  <2>4. ASSUME NEW q \in SimpleClients PROVE TurnSound(q)'
    <3>1. CASE q = p
      <4>1. inbox'[p] = 0 /\ wire'[p] = 0
        BY <1>1, <2>1, <2>2, <2>3
      <4>2. round[p] # Rounds => round[p] < Rounds
        BY <2>2, EchoFacts
      <4> QED
        BY <1>1, <2>3, <3>1, <4>1, <4>2 DEF TurnSound
    <3>2. CASE q # p
      BY <1>2, <2>1, <2>3, <3>2 DEF TurnSound
    <3> QED
      BY <3>1, <3>2
  <2>5. PlacesSound'
    BY <2>1, <2>3, PlacesStay
  <2>6. backlog' \in Seq(Peers)
    BY <2>1 DEF EchoSound, EchoTypeOK
  <2> QED
    BY <2>1, <2>3, <2>4, <2>5, <2>6, PeerKeeps
<1> QED
  BY <1>3, <1>4, <1>5 DEF simpleclient

\* The others do nothing to a simpleclient.
LEMMA OtherKeeps ==
  ASSUME EchoSound, NEW p \in OtherPeers, OtherPeer(p)
  PROVE  EchoSound'
<1>1. /\ p \in Peers /\ EndsTyped
      /\ \A q \in SimpleClients : q \in Peers /\ q # p /\ TurnSound(q)
  BY V3Assumption, EchoFacts DEF EchoSound, EchoTypeOK, EndsTyped, Peers
<1>2. CASE OtherConnect(p)
  <2>1. /\ Connects(p) /\ UNCHANGED <<inbox, wire, step, round, sock>>
        /\ UNCHANGED serverVars
    BY <1>2 DEF OtherConnect, serverVars
  <2>2. /\ PlacesSound' /\ backlog' \in Seq(Peers) /\ backlog' # <<>>
        /\ conn' \in [Peers -> {"none", "open", "closed", "reset"}]
        /\ \A q \in Peers : conn'[q] = IF q = p THEN "open" ELSE conn[q]
    BY <1>1, <2>1, ConnectsPlaces
  <2>3. EndsTyped'
    BY <1>1, <2>1, <2>2 DEF EndsTyped
  <2>4. ASSUME NEW q \in SimpleClients PROVE TurnSound(q)'
    BY <1>1, <2>1, <2>2 DEF TurnSound
  <2> QED
    BY <2>1, <2>2, <2>3, <2>4, PeerKeeps
<1>3. CASE OtherWrite(p) \/ OtherRead(p) \/ OtherGoes(p)
  <2>1. /\ UNCHANGED <<backlog, step, round, sock>> /\ UNCHANGED serverVars
    BY <1>3 DEF OtherWrite, OtherRead, OtherGoes, serverVars
  <2>2. /\ EndsTyped'
        /\ \A q \in Peers : q # p =>
             conn'[q] = conn[q] /\ inbox'[q] = inbox[q] /\ wire'[q] = wire[q]
        /\ conn'[p] # "none"
    <3>1. CASE OtherWrite(p)
      <4>1. /\ inbox' = [inbox EXCEPT ![p] = inbox[p] + 1] /\ inbox[p] < RcvBuf
            /\ UNCHANGED <<conn, wire, step, round>> /\ conn[p] = "open"
        BY <3>1 DEF OtherWrite
      <4>2. inbox[p] + 1 \in 0 .. RcvBuf
        BY <1>1, <4>1, EchoFacts DEF EndsTyped
      <4> QED
        BY <1>1, <4>1, <4>2 DEF EndsTyped
    <3>2. CASE OtherRead(p)
      <4>1. PICK n \in 1 .. wire[p] : wire' = [wire EXCEPT ![p] = wire[p] - n]
        BY <3>2 DEF OtherRead
      <4>2. UNCHANGED <<conn, inbox, step, round>> /\ conn[p] = "open"
        BY <3>2 DEF OtherRead
      <4>3. wire[p] - n \in 0 .. SndBuf
        BY <1>1, <4>1, EchoFacts DEF EndsTyped
      <4> QED
        BY <1>1, <4>1, <4>2, <4>3 DEF EndsTyped
    <3>3. CASE OtherGoes(p)
      BY <1>1, <3>3 DEF OtherGoes, EndsTyped
    <3> QED
      BY <1>3, <3>1, <3>2, <3>3
  <2>3. ASSUME NEW q \in SimpleClients PROVE TurnSound(q)'
    BY <1>1, <2>1, <2>2 DEF TurnSound
  <2>4. PlacesSound'
    BY <2>1, <2>2, PlacesStay
  <2>5. backlog' \in Seq(Peers)
    BY <2>1 DEF EchoSound, EchoTypeOK
  <2> QED
    BY <2>1, <2>2, <2>3, <2>4, <2>5, PeerKeeps
<1> QED
  BY <1>2, <1>3 DEF OtherPeer

LEMMA EchoInitSound == EchoInit => EchoSound
<1> SUFFICES ASSUME EchoInit PROVE EchoSound
  OBVIOUS
<1>1. EchoTypeOK
  BY EchoFacts, EmptySeq DEF EchoInit, EchoTypeOK
<1>2. Elements(backlog) = {} /\ Single(backlog)
  BY EmptySeq DEF EchoInit, Elements, Single
<1>3. PlacesSound
  BY <1>2, EchoFacts DEF EchoInit, PlacesSound
<1>4. EventsSound
  BY DEF EchoInit, EventsSound, EventsAreFresh
<1>5. \A p \in SimpleClients : TurnSound(p)
  BY EchoFacts DEF EchoInit, TurnSound
<1> QED
  BY <1>1, <1>3, <1>4, <1>5 DEF EchoSound

LEMMA EchoStep == EchoSound /\ [EchoNext]_echoVars => EchoSound'
<1> SUFFICES ASSUME EchoSound, [EchoNext]_echoVars PROVE EchoSound'
  OBVIOUS
<1>1. CASE loop
  BY <1>1, LoopKeeps
<1>2. ASSUME NEW p \in SimpleClients, simpleclient(p) PROVE EchoSound'
  BY <1>2, SimpleKeeps
<1>3. ASSUME NEW p \in OtherPeers, OtherPeer(p) PROVE EchoSound'
  BY <1>3, OtherKeeps
<1>4. CASE UNCHANGED echoVars
  <2>1. UNCHANGED <<backlog, sock, _client, cev, stage, conn, inbox, wire, step, round>>
    BY <1>4 DEF echoVars
  <2>2. EchoTypeOK' /\ PlacesSound'
    BY <2>1 DEF EchoSound, EchoTypeOK, PlacesSound
  <2>3. EventsSound' /\ \A p \in SimpleClients : TurnSound(p)'
    BY <2>1 DEF EchoSound, EventsSound, EventsAreFresh, TurnSound
  <2> QED
    BY <2>2, <2>3 DEF EchoSound
<1> QED
  BY <1>1, <1>2, <1>3, <1>4 DEF EchoNext

-----------------------------------------------------------------------------
(* v3: the theorems.                                                        *)

\* The inductive invariant holds in every reachable state.
THEOREM EchoInvariance == EchoSpec => []EchoSound
<1> QED
  BY EchoInitSound, EchoStep, PTL DEF EchoSpec

\* However many connections come and go while a batch is handled, and whichever
\* descriptors accept() reuses, every event that is left is for the connection
\* that is now at its descriptor (V3Echo!EchoInv).
THEOREM EchoEventsAreFresh == EchoSpec => []EchoInv
<1>1. EchoSound => EchoInv
  BY DEF EchoSound, EventsSound, EchoInv
<1> QED
  BY <1>1, EchoInvariance, PTL

\* A simpleclient that waits for an answer has one whole reply coming, or its
\* line is still to be read; and nothing is left over when it writes the next
\* one, whatever the length given to read() has become in 16 bits, as long as
\* one reply fits into the socket (V3Echo!OneWholeReply).
THEOREM EchoRepliesOnce == EchoSpec => []OneWholeReply
<1>1. EchoSound => OneWholeReply
  BY DEF EchoSound, TurnSound, OneWholeReply
<1> QED
  BY <1>1, EchoInvariance, PTL

-----------------------------------------------------------------------------
(* v4: the inductive invariant of the reader.                               *)

\* The assertions of read_packets hold of the first packet only because every
\* byte behind it, back to what the peer has still to write, is in its place: a
\* packet's header is found where the one before it ends.  A packet is cut off
\* only with the connection, and the bytes that are kept have room.
ReaderSound ==
  /\ ReaderTypeOK
  /\ Placed(Stream)
  /\ IF link = "open" THEN Finished(Stream) ELSE outbox = <<>>
  /\ read_offset <= total_size

\* Every packet says who sends it: the peer is a client that was told its id.
AllNamed == \A p \in Packets : p.src # UNIDENTIFIED_CLIENT

\* ... and none is longer than it may be.
AllShort == \A p \in Packets : p.length <= MAX_PACKET_LENGTH

LEMMA V4Facts ==
  /\ \A p \in Packets : p.length \in Nat /\ PACKET_HDR_LENGTH <= p.length
  /\ PACKET_HDR_LENGTH \in Nat \ {0}
  /\ MIN_BUFFER_SIZE \in Nat /\ MAX_PACKET_LENGTH \in Nat
  /\ PACKET_HDR_LENGTH < MIN_BUFFER_SIZE /\ MIN_BUFFER_SIZE <= MAX_PACKET_LENGTH
  /\ Byte = Bytes(Packets)
  BY V4Assumption DEF Byte

LEMMA ReaderRegroup ==
  ASSUME NEW u \in Seq(Byte), NEW v \in Seq(Byte), NEW w \in Seq(Byte)
  PROVE  (u \o v) \o w = u \o (v \o w)
  BY ConcatAssociative, SMTT(40)

\* A buffer that begins with a packet: its length is the header's, if the header
\* is there.
LEMMA Begun ==
  ASSUME NEW b \in Seq(Byte), NEW s \in Seq(Byte), Placed(b \o s)
  PROVE  /\ Placed(b) /\ Len(b) \in Nat /\ (b = <<>> <=> Len(b) = 0)
         /\ b # <<>> => /\ b[1].of \in Packets /\ b[1].of.length \in Nat \ {0}
                        /\ PACKET_HDR_LENGTH <= b[1].of.length
         /\ Len(b) >= PACKET_HDR_LENGTH =>
              b # <<>> /\ GET_PACKET_LENGTH(b) = b[1].of.length
<1>1. Placed(b)
  BY V4Facts, FrontAndRest
<1>2. Len(b) \in Nat /\ (b = <<>> <=> Len(b) = 0)
  BY EmptySeq, LenProperties
<1>3. b # <<>> => /\ b[1].of \in Packets /\ b[1].of.length \in Nat \ {0}
                  /\ PACKET_HDR_LENGTH <= b[1].of.length
                  /\ \A j \in 1 .. Len(b) :
                       j <= b[1].of.length => b[j] = [of |-> b[1].of, at |-> j]
  BY <1>1, V4Facts, FirstPacket
<1>4. ASSUME Len(b) >= PACKET_HDR_LENGTH
      PROVE  b # <<>> /\ GET_PACKET_LENGTH(b) = b[1].of.length
  <2>1. b # <<>> /\ PACKET_HDR_LENGTH \in 1 .. Len(b)
    BY <1>2, <1>4, V4Facts
  <2>2. b[PACKET_HDR_LENGTH] = [of |-> b[1].of, at |-> PACKET_HDR_LENGTH]
    BY <1>3, <2>1
  <2>3. b[PACKET_HDR_LENGTH].of = b[1].of
    BY <2>2
  <2> QED
    BY <2>1, <2>3 DEF GET_PACKET_LENGTH
<1> QED
  BY <1>1, <1>2, <1>3, <1>4

\* What is known of read_buffer.
LEMMA BufferFacts ==
  ASSUME ReaderSound
  PROVE  /\ read_buffer \in Seq(Byte) /\ channel \in Seq(Byte) /\ outbox \in Seq(Byte)
         /\ channel \o outbox \in Seq(Byte)
         /\ Stream \in Seq(Byte) /\ Stream = read_buffer \o (channel \o outbox)
         /\ Placed(read_buffer) /\ read_offset \in Nat
         /\ read_buffer = <<>> <=> read_offset = 0
         /\ read_buffer # <<>> =>
              /\ packet \in Packets /\ packet.length \in Nat \ {0}
              /\ PACKET_HDR_LENGTH <= packet.length
         /\ HasHeader => read_buffer # <<>>
                         /\ GET_PACKET_LENGTH(read_buffer) = packet.length
         /\ total_size \in Nat /\ total_size <= MAX_PACKET_LENGTH
         /\ total_size = 0 \/ MIN_BUFFER_SIZE <= total_size
<1>1. read_buffer \in Seq(Byte) /\ channel \in Seq(Byte) /\ outbox \in Seq(Byte)
  BY DEF ReaderSound, ReaderTypeOK
<1>2. channel \o outbox \in Seq(Byte) /\ Stream = read_buffer \o (channel \o outbox)
  <2>1. (read_buffer \o channel) \o outbox = read_buffer \o (channel \o outbox)
    BY <1>1, ReaderRegroup
  <2> QED
    BY <1>1, <2>1, ConcatProperties DEF Stream
<1>3. Stream \in Seq(Byte)
  BY <1>1, <1>2, ConcatProperties
<1>4. /\ Placed(read_buffer) /\ read_offset \in Nat
      /\ read_buffer = <<>> <=> read_offset = 0
      /\ read_buffer # <<>> =>
           /\ packet \in Packets /\ packet.length \in Nat \ {0}
           /\ PACKET_HDR_LENGTH <= packet.length
      /\ HasHeader => read_buffer # <<>>
                      /\ GET_PACKET_LENGTH(read_buffer) = packet.length
  <2>1. Placed(read_buffer \o (channel \o outbox))
    BY <1>2 DEF ReaderSound
  <2> QED
    BY <1>1, <1>2, <2>1, Begun DEF read_offset, packet, HasHeader
<1>5. /\ total_size \in Nat /\ total_size <= MAX_PACKET_LENGTH
      /\ total_size = 0 \/ MIN_BUFFER_SIZE <= total_size
  BY V4Facts DEF ReaderSound, ReaderTypeOK
<1> QED
  BY <1>1, <1>2, <1>3, <1>4, <1>5

\* The buffer is made large enough, and not larger than it may be.
LEMMA GrownFacts ==
  ASSUME ReaderSound, PreviousConsumed, LengthWasChecked, rpc = "idle"
  PROVE  /\ Grown \in MIN_BUFFER_SIZE .. MAX_PACKET_LENGTH
         /\ read_offset < Grown
<1>1. /\ read_offset \in Nat /\ read_offset <= total_size
      /\ total_size \in Nat /\ total_size <= MAX_PACKET_LENGTH
      /\ total_size = 0 \/ MIN_BUFFER_SIZE <= total_size
  BY BufferFacts DEF ReaderSound
<1> DEFINE g == GET_PACKET_LENGTH(read_buffer)
<1>2. HasHeader => g \in Nat /\ read_offset < g /\ g <= MAX_PACKET_LENGTH
  <2>1. HasHeader => read_buffer # <<>> /\ g = packet.length
    BY BufferFacts
  <2>2. HasHeader => read_offset < g /\ g <= MAX_PACKET_LENGTH
    BY DEF PreviousConsumed, LengthWasChecked
  <2>3. read_buffer # <<>> => packet.length \in Nat \ {0}
    BY BufferFacts
  <2> QED
    BY <2>1, <2>2, <2>3
<1>3. Grown = IF total_size = 0 THEN MIN_BUFFER_SIZE
              ELSE IF HasHeader /\ total_size < g THEN g ELSE total_size
  BY DEF Grown
<1>4. ~HasHeader => read_offset < PACKET_HDR_LENGTH
  BY <1>1, V4Facts DEF HasHeader
<1> HIDE DEF g
<1> QED
  BY <1>1, <1>2, <1>3, <1>4, V4Facts

-----------------------------------------------------------------------------
(* v4: the peer.                                                            *)

LEMMA PeerKeepsReader ==
  ASSUME ReaderSound, UNCHANGED readerVars,
         outbox' \in Seq(Byte), channel' \in Seq(Byte),
         link' \in {"open", "closed", "reset"},
         Placed(Stream'),
         IF link' = "open" THEN Finished(Stream') ELSE outbox' = <<>>
  PROVE  ReaderSound'
<1>1. UNCHANGED <<read_buffer, total_size, rpc, id, got, err>>
  BY DEF readerVars
<1> QED
  BY <1>1 DEF ReaderSound, ReaderTypeOK, read_offset

LEMMA SendStream ==
  ASSUME ReaderSound, NEW p \in Packets, PeerSend(p),
         NEW t \in Seq(Byte), t = serialize(p)
  PROVE  Stream' = Stream \o t
<1>1. /\ UNCHANGED <<read_buffer, channel>> /\ outbox = <<>> /\ outbox' = t
  BY DEF PeerSend, readerVars
<1> DEFINE a == read_buffer \o channel
<1>2. a \in Seq(Byte)
  BY BufferFacts, ConcatProperties
<1>3. Stream = a \o <<>> /\ Stream' = a \o t
  BY <1>1 DEF Stream
<1> HIDE DEF a
<1> QED
  BY <1>2, <1>3, ConcatEmptySeq

LEMMA PeerSendKeeps ==
  ASSUME ReaderSound, NEW p \in Packets, PeerSend(p) PROVE ReaderSound'
<1> DEFINE t == serialize(p)
<1>1. t \in Seq(Byte) /\ Placed(t) /\ Finished(t)
  BY V4Facts, OnePacket DEF serialize
<1>2. Stream' = Stream \o t
  BY <1>1, SendStream
<1>3. /\ link = "open" /\ UNCHANGED <<channel, link>> /\ UNCHANGED readerVars
      /\ outbox' = t
  BY DEF PeerSend
<1> HIDE DEF t
<1>4. Placed(Stream \o t) /\ Finished(Stream \o t)
  BY <1>1, <1>3, BufferFacts, V4Facts, Joined DEF ReaderSound
<1>5. channel \in Seq(Byte)
  BY BufferFacts
<1> QED
  BY <1>1, <1>2, <1>3, <1>4, <1>5, PeerKeepsReader

LEMMA PeerWriteMoves ==
  ASSUME ReaderSound, PeerWrite
  PROVE  UNCHANGED Stream /\ outbox' \in Seq(Byte) /\ channel' \in Seq(Byte)
<1>1. PICK n \in 1 .. Len(outbox) :
        /\ channel' = channel \o SubSeq(outbox, 1, n)
        /\ outbox' = SubSeq(outbox, n + 1, Len(outbox))
  BY DEF PeerWrite
<1>2. /\ read_buffer \in Seq(Byte) /\ channel \in Seq(Byte) /\ outbox \in Seq(Byte)
      /\ Stream = read_buffer \o (channel \o outbox)
  BY BufferFacts
<1>3. n \in 0 .. Len(outbox)
  BY <1>2, LenProperties
<1> DEFINE a == SubSeq(outbox, 1, n)
           z == SubSeq(outbox, n + 1, Len(outbox))
<1>4. a \in Seq(Byte) /\ z \in Seq(Byte)
  BY <1>2, <1>3, SeqFacts
<1>5. (channel \o a) \o z = channel \o outbox
  BY <1>2, <1>3, Moving
<1>6. channel' = channel \o a /\ outbox' = z
  BY <1>1
<1> HIDE DEF a, z
<1>7. channel' \in Seq(Byte)
  BY <1>2, <1>4, <1>6, ConcatProperties
<1>8. Stream' = (read_buffer \o channel') \o z
  BY <1>6 DEF PeerWrite, readerVars, Stream
<1>9. (read_buffer \o channel') \o z = read_buffer \o (channel' \o z)
  BY <1>2, <1>4, <1>7, ReaderRegroup, ZenonT(60)
<1>10. channel' \o z = channel \o outbox
  BY <1>5, <1>6
<1>11. Stream' = Stream
  BY <1>2, <1>8, <1>9, <1>10
<1> QED
  BY <1>4, <1>6, <1>7, <1>11

LEMMA PeerWriteKeeps == ASSUME ReaderSound, PeerWrite PROVE ReaderSound'
<1>1. UNCHANGED Stream /\ outbox' \in Seq(Byte) /\ channel' \in Seq(Byte)
  BY PeerWriteMoves
<1>2. link = "open" /\ link' = "open" /\ UNCHANGED readerVars
  BY DEF PeerWrite
<1> QED
  BY <1>1, <1>2, PeerKeepsReader DEF ReaderSound

\* With the connection the stream loses its end.
LEMMA PeerGoesCuts ==
  ASSUME ReaderSound, PeerGoes
  PROVE  /\ \E t \in Seq(Byte) : Stream' \in Seq(Byte) /\ Stream = Stream' \o t
         /\ channel' \in Seq(Byte)
<1>1. /\ read_buffer \in Seq(Byte) /\ channel \in Seq(Byte) /\ outbox \in Seq(Byte)
      /\ Stream = read_buffer \o (channel \o outbox)
  BY BufferFacts
<1>2. PICK n \in 0 .. Len(channel) : channel' = SubSeq(channel, 1, n)
  <2>1. Len(channel) \in 0 .. Len(channel) /\ SubSeq(channel, 1, Len(channel)) = channel
    BY <1>1, LenProperties, SubSeqFull, SMTT(40)
  <2> QED
    BY <2>1 DEF PeerGoes
<1> DEFINE a == SubSeq(channel, 1, n)
           z == SubSeq(channel, n + 1, Len(channel))
<1>3. a \in Seq(Byte) /\ z \in Seq(Byte)
  BY <1>1, SeqFacts
<1>4. a \o z = channel
  BY <1>1, SplitAt
<1>5. channel' = a /\ outbox' = <<>> /\ read_buffer' = read_buffer
  BY <1>2 DEF PeerGoes, readerVars
<1> HIDE DEF a, z
<1> DEFINE u == read_buffer \o a
           t == z \o outbox
<1>6. u \in Seq(Byte) /\ t \in Seq(Byte)
  BY <1>1, <1>3, ConcatProperties
<1>7. channel \o outbox = a \o t
  <2>1. (a \o z) \o outbox = a \o (z \o outbox)
    BY <1>1, <1>3, ReaderRegroup, ZenonT(60)
  <2> QED
    BY <1>4, <2>1
<1>8. Stream' = u \o <<>>
  BY <1>5 DEF Stream
<1>9. u \o <<>> = u
  <2> HIDE DEF u
  <2> QED
    BY <1>6, ConcatEmptySeq
<1> HIDE DEF t
<1>10. (read_buffer \o a) \o t = read_buffer \o (a \o t)
  BY <1>1, <1>3, <1>6, ReaderRegroup, ZenonT(60)
<1>11. Stream = u \o t
  BY <1>1, <1>7, <1>10
<1>12. Stream' = u
  BY <1>8, <1>9
<1> HIDE DEF u
<1> QED
  BY <1>3, <1>5, <1>6, <1>11, <1>12

LEMMA PeerGoesKeeps == ASSUME ReaderSound, PeerGoes PROVE ReaderSound'
<1>1. PICK t \in Seq(Byte) : Stream' \in Seq(Byte) /\ Stream = Stream' \o t
  BY PeerGoesCuts
<1>2. Placed(Stream')
  BY <1>1, V4Facts, FrontAndRest DEF ReaderSound
<1>3. channel' \in Seq(Byte) /\ <<>> \in Seq(Byte)
  BY PeerGoesCuts, EmptySeq
<1>4. /\ link' \in {"closed", "reset"} /\ outbox' = <<>> /\ UNCHANGED readerVars
  BY DEF PeerGoes
<1> QED
  BY <1>2, <1>3, <1>4, PeerKeepsReader

-----------------------------------------------------------------------------
(* v4: reading.                                                             *)

\* What one read() takes moves from the channel to the buffer.
ReadInto(n, b) ==
  /\ Called
  /\ n \in Nat \ {0} /\ n <= Len(channel) /\ n <= Grown - read_offset
  /\ b = read_buffer \o SubSeq(channel, 1, n)
  /\ channel' = SubSeq(channel, n + 1, Len(channel))
  /\ read_buffer' = b
  /\ rpc' = After(Outcome(b))
  /\ IF Outcome(b) = "0" THEN UNCHANGED <<got, err>> ELSE got' = NULL /\ err' = Outcome(b)
  /\ total_size' = Grown
  /\ UNCHANGED <<outbox, link, id>>

LEMMA ReadTakes ==
  ASSUME ReaderSound, ReadSome PROVE \E n, b : ReadInto(n, b)
<1> DEFINE room == Grown - read_offset
           n == IF Len(channel) <= room THEN Len(channel) ELSE room
           b == read_buffer \o SubSeq(channel, 1, n)
<1>1. /\ Called /\ n > 0
      /\ channel' = SubSeq(channel, n + 1, Len(channel))
      /\ read_buffer' = b
      /\ rpc' = After(Outcome(b))
      /\ IF Outcome(b) = "0" THEN UNCHANGED <<got, err>>
                             ELSE got' = NULL /\ err' = Outcome(b)
      /\ total_size' = Grown
      /\ UNCHANGED <<outbox, link, id>>
  BY DEF ReadSome, senderVars
<1>2. Grown \in Nat /\ read_offset \in Nat /\ Len(channel) \in Nat /\ room \in Int
  <2>1. Grown \in Nat
    BY <1>1, GrownFacts, V4Facts DEF Called
  <2> QED
    BY <2>1, BufferFacts, LenProperties
<1> HIDE DEF room
<1>3. n \in Nat \ {0} /\ n <= Len(channel) /\ n <= room
  BY <1>1, <1>2
<1> HIDE DEF n
<1>4. ReadInto(n, b)
  BY <1>1, <1>3 DEF ReadInto, room
<1> QED
  BY <1>4

\* The bytes read, and the stream as it was before and is.
LEMMA ReadIntoFacts ==
  ASSUME ReaderSound, NEW n, NEW b, ReadInto(n, b)
  PROVE  /\ b \in Seq(Byte) /\ channel' \in Seq(Byte) /\ channel' \o outbox \in Seq(Byte)
         /\ Len(b) = read_offset + n /\ b # <<>>
         /\ Stream = b \o (channel' \o outbox)
         /\ UNCHANGED Stream
<1> DEFINE a == SubSeq(channel, 1, n)
           z == SubSeq(channel, n + 1, Len(channel))
<1>1. /\ read_buffer \in Seq(Byte) /\ channel \in Seq(Byte) /\ outbox \in Seq(Byte)
      /\ read_offset \in Nat /\ Len(channel) \in Nat
  BY BufferFacts, LenProperties
<1>2. n \in 0 .. Len(channel) /\ n # 0 /\ n \in Nat
  BY <1>1 DEF ReadInto
<1>3. a \in Seq(Byte) /\ z \in Seq(Byte) /\ Len(a) = n
  BY <1>1, <1>2, SeqFacts, SubSeqLength
<1>4. b = read_buffer \o a /\ channel' = z /\ read_buffer' = b /\ outbox' = outbox
  BY DEF ReadInto
<1>5. (read_buffer \o a) \o z = read_buffer \o channel
  BY <1>1, <1>2, Moving
<1> HIDE DEF a, z
<1>6. b \in Seq(Byte) /\ Len(b) = read_offset + n
  BY <1>1, <1>3, <1>4, ConcatProperties DEF read_offset
<1>7. b # <<>>
  <2>1. Len(b) # 0
    BY <1>1, <1>2, <1>6
  <2> QED
    BY <2>1, EmptySeq
<1>8. Stream = (b \o z) \o outbox /\ Stream' = (b \o z) \o outbox
  BY <1>4, <1>5 DEF Stream
<1>9. (b \o z) \o outbox = b \o (z \o outbox) /\ z \o outbox \in Seq(Byte)
  BY <1>1, <1>3, <1>6, ReaderRegroup, ConcatProperties, ZenonT(60)
<1> QED
  BY <1>3, <1>4, <1>6, <1>7, <1>8, <1>9

LEMMA ReadSomeKeeps == ASSUME ReaderSound, ReadSome PROVE ReaderSound'
<1>1. PICK n, b : ReadInto(n, b)
  BY ReadTakes
<1>2. /\ b \in Seq(Byte) /\ channel' \in Seq(Byte) /\ Len(b) = read_offset + n
      /\ UNCHANGED Stream
  BY <1>1, ReadIntoFacts
<1>3. /\ n \in Nat /\ n <= Grown - read_offset
      /\ read_buffer' = b /\ total_size' = Grown /\ UNCHANGED <<outbox, link, id>>
      /\ rpc' = After(Outcome(b)) /\ Called
      /\ IF Outcome(b) = "0" THEN UNCHANGED <<got, err>>
                             ELSE got' = NULL /\ err' = Outcome(b)
  BY <1>1 DEF ReadInto
<1>4. Grown \in MIN_BUFFER_SIZE .. MAX_PACKET_LENGTH /\ read_offset \in Nat
  BY <1>3, GrownFacts, BufferFacts DEF Called
<1>5. read_offset' <= total_size'
  <2>1. read_offset' = read_offset + n
    BY <1>2, <1>3 DEF read_offset
  <2> QED
    BY <1>3, <1>4, <2>1, V4Facts
<1>6. Outcome(b) \in {"0", "EAGAIN", "EMSGSIZE"}
  BY DEF Outcome
<1>7. ReaderTypeOK'
  BY <1>2, <1>3, <1>4, <1>6 DEF ReaderSound, ReaderTypeOK, After
<1> QED
  BY <1>2, <1>3, <1>5, <1>7 DEF ReaderSound

LEMMA ReadNothingKeeps == ASSUME ReaderSound, ReadNothing PROVE ReaderSound'
<1>1. /\ Called /\ got' = NULL /\ err' \in {"ECONNRESET", "ESHUTDOWN"}
      /\ rpc' = "invalid" /\ total_size' = Grown
      /\ UNCHANGED <<outbox, link, channel, read_buffer, id>>
  BY DEF ReadNothing, senderVars
<1>2. Grown \in MIN_BUFFER_SIZE .. MAX_PACKET_LENGTH /\ read_offset < Grown
  BY <1>1, GrownFacts DEF Called
<1>3. read_offset' <= total_size'
  BY <1>1, <1>2, BufferFacts, V4Facts DEF read_offset
<1>4. ReaderTypeOK'
  BY <1>1, <1>2 DEF ReaderSound, ReaderTypeOK
<1> QED
  BY <1>1, <1>3, <1>4 DEF ReaderSound, Stream

-----------------------------------------------------------------------------
(* v4: processing.                                                          *)

\* The first packet leaves the buffer, and the stream.
LEMMA GoodLeaves ==
  ASSUME ReaderSound, ProcessGood
  PROVE  \E u \in Seq(Byte) :
           /\ u # <<>> /\ Placed(u) /\ u[1] = read_buffer[1]
           /\ Len(u) = u[1].of.length
           /\ Len(u) <= total_size
           /\ read_buffer' \in Seq(Byte) /\ read_offset' <= total_size
           /\ Stream' \in Seq(Byte) /\ Stream = u \o Stream'
<1> DEFINE n == GET_PACKET_LENGTH(read_buffer)
           u == SubSeq(read_buffer, 1, n)
           v == SubSeq(read_buffer, n + 1, read_offset)
<1>1. /\ HasHeader /\ read_offset >= n
      /\ read_buffer' = v /\ UNCHANGED <<outbox, channel>>
  BY DEF ProcessGood, HasPacket, Rest, senderVars
<1>2. /\ read_buffer \in Seq(Byte) /\ Placed(read_buffer) /\ read_offset \in Nat
      /\ read_buffer # <<>> /\ n = packet.length /\ n \in Nat \ {0}
      /\ channel \o outbox \in Seq(Byte) /\ channel \in Seq(Byte) /\ outbox \in Seq(Byte)
      /\ Stream = read_buffer \o (channel \o outbox)
      /\ read_offset <= total_size /\ total_size \in Nat
  <2>1. read_buffer # <<>> /\ n = packet.length
    BY <1>1, BufferFacts
  <2> HIDE DEF n
  <2> QED
    BY <2>1, BufferFacts DEF ReaderSound
<1> HIDE DEF n
<1>3. n \in 0 .. Len(read_buffer) /\ Len(read_buffer) = read_offset
  BY <1>1, <1>2 DEF read_offset
<1>4. /\ u \in Seq(Byte) /\ v \in Seq(Byte) /\ Len(u) = n
      /\ Len(v) = read_offset - n
  <2>1. u \in Seq(Byte) /\ v \in Seq(Byte)
    BY <1>2, <1>3, SeqFacts
  <2>2. Len(u) = n /\ Len(v) = read_offset - n
    BY <1>2, <1>3, SubSeqLength
  <2> QED
    BY <2>1, <2>2
<1>5. u \o v = read_buffer
  BY <1>2, <1>3, SplitAt
<1>6. Placed(u)
  BY <1>2, <1>3, V4Facts, CutOff
<1> HIDE DEF u, v
<1>7. u # <<>> /\ u[1] = read_buffer[1]
  <2>1. u # <<>>
    BY <1>2, <1>4, EmptySeq
  <2>2. 1 \in 1 .. Len(u) + Len(v) /\ 1 <= Len(u)
    BY <1>2, <1>3, <1>4
  <2>3. (u \o v)[1] = u[1]
    BY <1>4, <2>2, ConcatProperties
  <2> QED
    BY <1>5, <2>1, <2>3
<1> DEFINE w == channel \o outbox
<1>8. Stream' = v \o w /\ w \in Seq(Byte)
  <2>1. Stream' = (v \o channel) \o outbox
    BY <1>1 DEF Stream
  <2>2. (v \o channel) \o outbox = v \o (channel \o outbox)
    <3>1. v \in Seq(Byte) /\ channel \in Seq(Byte) /\ outbox \in Seq(Byte)
      BY <1>2, <1>4
    <3> QED
      BY <3>1, ReaderRegroup
  <2> QED
    BY <1>2, <2>1, <2>2
<1>9. Stream = (u \o v) \o w
  BY <1>2, <1>5
<1> HIDE DEF w
<1>10. Stream = u \o (v \o w) /\ v \o w \in Seq(Byte)
  BY <1>4, <1>8, <1>9, ReaderRegroup, ConcatProperties
<1>11. Len(u) = u[1].of.length
  BY <1>2, <1>4, <1>7 DEF packet
<1>12. Len(u) <= total_size
  BY <1>1, <1>2, <1>4
<1>13. read_offset' <= total_size
  <2>1. read_offset' = read_offset - n
    BY <1>1, <1>4 DEF read_offset
  <2> QED
    BY <1>2, <2>1
<1> QED
  BY <1>1, <1>4, <1>6, <1>7, <1>8, <1>10, <1>11, <1>12, <1>13

LEMMA ProcessGoodKeeps == ASSUME ReaderSound, ProcessGood PROVE ReaderSound'
<1>1. PICK u \in Seq(Byte) :
        /\ u # <<>> /\ Len(u) = u[1].of.length
        /\ read_buffer' \in Seq(Byte) /\ read_offset' <= total_size
        /\ Stream' \in Seq(Byte) /\ Stream = u \o Stream'
  BY GoodLeaves
<1>2. /\ id' \in {id, packet.src} /\ got' = packet /\ err' = "0"
      /\ rpc' \in {"idle", "processing"} /\ HasHeader
      /\ UNCHANGED <<outbox, link, channel, total_size>>
  BY DEF ProcessGood, HasPacket, GoesOn, senderVars
<1>3. packet \in Packets /\ packet.src \in Ids \cup {UNIDENTIFIED_CLIENT}
  BY <1>2, BufferFacts, V4Assumption
<1>4. ReaderTypeOK'
  BY <1>1, <1>2, <1>3 DEF ReaderSound, ReaderTypeOK
<1>5. Placed(Stream') /\ (Finished(Stream) => Finished(Stream'))
  BY <1>1, V4Facts, FrontAndRest DEF ReaderSound
<1> QED
  BY <1>1, <1>2, <1>4, <1>5 DEF ReaderSound

LEMMA ProcessRestKeeps == ASSUME ReaderSound, ProcessRest PROVE ReaderSound'
<1>1. /\ rpc' = "idle" /\ got' = NULL /\ err' \in {"EINVAL", "EAGAIN"}
      /\ UNCHANGED <<outbox, link, channel, read_buffer, total_size, id>>
  BY DEF ProcessRest, senderVars
<1>2. ReaderTypeOK'
  BY <1>1 DEF ReaderSound, ReaderTypeOK
<1> QED
  BY <1>1, <1>2 DEF ReaderSound, Stream, read_offset

LEMMA ReaderInitSound == ReaderInit => ReaderSound
<1> SUFFICES ASSUME ReaderInit PROVE ReaderSound
  OBVIOUS
<1>1. <<>> \in Seq(Byte) /\ Len(<<>>) = 0
  BY EmptySeq
<1>2. ReaderTypeOK
  BY <1>1 DEF ReaderInit, ReaderTypeOK
<1>3. Stream = <<>>
  <2>1. Stream = (<<>> \o <<>>) \o <<>>
    BY DEF ReaderInit, Stream
  <2> QED
    BY <1>1, <2>1, ConcatEmptySeq
<1> QED
  BY <1>1, <1>2, <1>3 DEF ReaderSound, ReaderInit, Placed, Finished, read_offset

LEMMA ReaderStep == ReaderSound /\ [ReaderNext]_connVars => ReaderSound'
<1> SUFFICES ASSUME ReaderSound, [ReaderNext]_connVars PROVE ReaderSound'
  OBVIOUS
<1>1. ASSUME NEW p \in Packets, PeerSend(p) PROVE ReaderSound'
  BY <1>1, PeerSendKeeps
<1>2. CASE handle_read_event
  BY <1>2, ReadSomeKeeps, ReadNothingKeeps, ProcessGoodKeeps, ProcessRestKeeps
  DEF handle_read_event
<1>3. CASE UNCHANGED connVars
  BY <1>3 DEF connVars, ReaderSound, ReaderTypeOK, Stream, read_offset
<1> QED
  BY <1>1, <1>2, <1>3, PeerWriteKeeps, PeerGoesKeeps DEF ReaderNext

-----------------------------------------------------------------------------
(* v4: what is left in the buffer between two calls of read_packets.        *)

\* Nothing but a packet without a source is left behind complete.
LEMMA ConsumedStep ==
  ASSUME AllNamed, ReaderSound, PreviousConsumed, [ReaderNext]_connVars
  PROVE  PreviousConsumed'
<1>1. CASE ReadSome
  <2>1. PICK n, b : ReadInto(n, b)
    BY <1>1, ReadTakes
  <2>2. b \in Seq(Byte) /\ Stream = b \o (channel' \o outbox)
        /\ channel' \o outbox \in Seq(Byte)
    BY <2>1, ReadIntoFacts
  <2>3. /\ Len(b) \in Nat
        /\ Len(b) >= PACKET_HDR_LENGTH => GET_PACKET_LENGTH(b) \in Nat
    <3>1. Placed(b \o (channel' \o outbox))
      BY <2>2 DEF ReaderSound
    <3> DEFINE t == channel' \o outbox
    <3>2. t \in Seq(Byte) /\ Placed(b \o t)
      BY <2>2, <3>1
    <3> HIDE DEF t
    <3> QED
      BY <2>2, <3>2, Begun
  <2>4. read_buffer' = b /\ rpc' = After(Outcome(b))
    BY <2>1 DEF ReadInto
  <2>5. rpc' = "idle" /\ Len(b) >= PACKET_HDR_LENGTH => ~(Len(b) >= GET_PACKET_LENGTH(b))
    BY <2>3, <2>4, V4Facts DEF After, Outcome
  <2> DEFINE g == GET_PACKET_LENGTH(b)
  <2> HIDE DEF g
  <2>6. rpc' = "idle" /\ Len(b) >= PACKET_HDR_LENGTH => Len(b) < g
    <3>1. Len(b) >= PACKET_HDR_LENGTH => g \in Nat
      BY <2>3 DEF g
    <3>2. rpc' = "idle" /\ Len(b) >= PACKET_HDR_LENGTH => ~(Len(b) >= g)
      BY <2>5 DEF g
    <3> QED
      BY <2>3, <3>1, <3>2
  <2> QED
    BY <2>4, <2>6 DEF PreviousConsumed, HasHeader, read_offset, GET_PACKET_LENGTH, g
<1>2. CASE ReadNothing
  BY <1>2 DEF ReadNothing, PreviousConsumed
<1>3. CASE ProcessGood
  <2>1. rpc' = "idle" => read_buffer' = <<>>
    BY <1>3 DEF ProcessGood, GoesOn
  <2>2. rpc' = "idle" => ~HasHeader'
    BY <2>1, EmptySeq, V4Facts DEF HasHeader, read_offset
  <2> QED
    BY <2>2 DEF PreviousConsumed
<1>4. CASE ProcessRest
  <2>1. UNCHANGED read_buffer /\ (HasPacket => ~validate_packet(packet))
    BY <1>4 DEF ProcessRest
  <2> DEFINE g == GET_PACKET_LENGTH(read_buffer)
  <2>2. HasHeader => packet \in Packets /\ g \in Nat /\ read_offset \in Nat
    <3>1. HasHeader => read_buffer # <<>> /\ g = packet.length
      BY BufferFacts
    <3> QED
      BY <3>1, BufferFacts
  <2>3. HasHeader => ~(read_offset >= g)
    BY <2>1, <2>2 DEF HasPacket, validate_packet, AllNamed
  <2> HIDE DEF g
  <2>4. HasHeader => read_offset < g
    BY <2>2, <2>3
  <2> QED
    BY <2>1, <2>4 DEF PreviousConsumed, HasHeader, read_offset, GET_PACKET_LENGTH, g
<1>5. CASE UNCHANGED <<read_buffer, rpc>>
  BY <1>5 DEF PreviousConsumed, HasHeader, read_offset, GET_PACKET_LENGTH
<1> QED
  BY <1>1, <1>2, <1>3, <1>4, <1>5
  DEF ReaderNext, handle_read_event, PeerSend, PeerWrite, PeerGoes, readerVars, connVars

-----------------------------------------------------------------------------
(* v4: the pipe of packets.                                                 *)

\* A step that does nothing to the pipe.
NothingSeen == UNCHANGED <<InTransit, link = "open", rpc # "invalid", got, err>>

LEMMA PeerSends ==
  ASSUME ReaderSound, NEW p \in Packets, PeerSend(p) PROVE P!Send(p)
<1> DEFINE t == serialize(p)
<1>1. t = [k \in 1 .. p.length |-> [of |-> p, at |-> k]] /\ t \in Seq(Byte)
  BY V4Facts, OnePacket DEF serialize
<1>2. Stream' = Stream \o t
  BY <1>1, SendStream
<1> HIDE DEF t
<1>3. p.length # 0 /\ Stream \in Seq(Byte)
  BY V4Facts, BufferFacts
<1>4. PacketsIn(Stream \o t) = Append(PacketsIn(Stream), p)
  BY <1>1, <1>3, V4Facts, PacketJoins
<1>5. InTransit' = Append(InTransit, p)
  BY <1>2, <1>4 DEF InTransit
<1>6. link = "open" /\ UNCHANGED <<link, rpc, got, err>>
  BY DEF PeerSend, readerVars
<1> QED
  BY <1>5, <1>6 DEF P!Send

LEMMA PeerWriteUnseen == ASSUME ReaderSound, PeerWrite PROVE NothingSeen
<1>1. UNCHANGED Stream
  BY PeerWriteMoves
<1>2. UNCHANGED <<link, rpc, got, err>>
  BY DEF PeerWrite, readerVars
<1> QED
  BY <1>1, <1>2 DEF NothingSeen, InTransit

LEMMA PeerGoesLoses == ASSUME ReaderSound, PeerGoes PROVE P!Cut
<1>1. PICK t \in Seq(Byte) : Stream' \in Seq(Byte) /\ Stream = Stream' \o t
  BY PeerGoesCuts
<1>2. \E k \in 0 .. Len(PacketsIn(Stream' \o t)) :
        PacketsIn(Stream') = SubSeq(PacketsIn(Stream' \o t), 1, k)
  BY <1>1, V4Facts, PacketsLost
<1>3. \E k \in 0 .. Len(InTransit) : InTransit' = SubSeq(InTransit, 1, k)
  BY <1>1, <1>2 DEF InTransit
<1>4. link = "open" /\ link' # "open" /\ UNCHANGED <<rpc, got, err>>
  BY DEF PeerGoes, readerVars
<1> QED
  BY <1>3, <1>4 DEF P!Cut

\* What a read() brings may be the header of a packet that is too long.
LEMMA ReadSomeSeen ==
  ASSUME ReaderSound, ReadSome PROVE P!Wait \/ P!Overrun \/ NothingSeen
<1>1. PICK n, b : ReadInto(n, b)
  BY ReadTakes
<1>2. /\ b \in Seq(Byte) /\ b # <<>> /\ channel' \o outbox \in Seq(Byte)
      /\ Stream = b \o (channel' \o outbox)
      /\ UNCHANGED Stream
  BY <1>1, ReadIntoFacts
<1>3. /\ rpc = "idle" /\ UNCHANGED link /\ rpc' = After(Outcome(b))
      /\ IF Outcome(b) = "0" THEN UNCHANGED <<got, err>>
                             ELSE got' = NULL /\ err' = Outcome(b)
  BY <1>1 DEF ReadInto, Called
<1>4. CASE Outcome(b) = "0"
  BY <1>2, <1>3, <1>4 DEF NothingSeen, InTransit, After
<1>5. CASE Outcome(b) = "EAGAIN"
  BY <1>2, <1>3, <1>5 DEF P!Wait, P!Returns, InTransit, After
<1>6. CASE Outcome(b) = "EMSGSIZE"
  <2> DEFINE t == channel' \o outbox
             u == b \o t
  <2>1. t \in Seq(Byte) /\ Stream = u
    BY <1>2
  <2> HIDE DEF t
  <2>2. u \in Seq(Byte) /\ u # <<>> /\ u[1] = b[1]
    <3>1. u \in Seq(Byte) /\ u # <<>>
      BY <1>2, <2>1, ConcatProperties, ConcatEqualIffEmpty
    <3>2. Len(b) \in Nat \ {0} /\ Len(t) \in Nat
      BY <1>2, <2>1, EmptySeq, LenProperties
    <3>3. 1 \in 1 .. Len(b) + Len(t) /\ 1 <= Len(b)
      BY <3>2
    <3> QED
      BY <1>2, <2>1, <3>1, <3>3, ConcatProperties
  <2>3. Placed(u)
    BY <2>1 DEF ReaderSound
  <2> DEFINE p == u[1].of
  <2>4. p.length > MAX_PACKET_LENGTH /\ p \in Packets
    <3>1. /\ Len(b) \in Nat
          /\ Len(b) >= PACKET_HDR_LENGTH => GET_PACKET_LENGTH(b) = b[1].of.length
      BY <1>2, <2>1, <2>3, Begun
    <3>2. ~(Len(b) < PACKET_HDR_LENGTH) /\ GET_PACKET_LENGTH(b) > MAX_PACKET_LENGTH
      BY <1>6 DEF Outcome
    <3>3. Len(b) >= PACKET_HDR_LENGTH
      BY <3>1, <3>2, V4Facts
    <3>4. p \in Packets
      BY <2>2, <2>3, V4Facts, FirstPacket
    <3> QED
      BY <2>2, <3>1, <3>2, <3>3, <3>4
  <2>5. IF p.length <= Len(u)
          THEN PacketsIn(u) # <<>> /\ Head(PacketsIn(u)) = p
          ELSE PacketsIn(u) = <<>> /\ ~Finished(u)
    <3> HIDE DEF u
    <3> QED
      BY <2>2, <2>3, V4Facts, PacketInFront
  <2> HIDE DEF u, p
  <2>6. IF InTransit # <<>> THEN Head(InTransit) = p ELSE link # "open"
    BY <2>1, <2>5 DEF InTransit, ReaderSound
  <2> QED
    BY <1>2, <1>3, <1>6, <2>4, <2>6 DEF P!Overrun, P!Returns, InTransit, After
<1>7. Outcome(b) \in {"0", "EAGAIN", "EMSGSIZE"}
  BY DEF Outcome
<1> QED
  BY <1>4, <1>5, <1>6, <1>7

\* There is room to read into, so a read() of nothing means that the peer has
\* gone; and what is in the buffer is less than a packet.
LEMMA ReadNothingSeen == ASSUME ReaderSound, ReadNothing PROVE P!End
<1>1. /\ rpc = "idle" /\ PreviousConsumed /\ LengthWasChecked
      /\ rpc' = "invalid" /\ got' = NULL /\ err' \in {"ECONNRESET", "ESHUTDOWN"}
      /\ IF channel = <<>> THEN link # "open" ELSE Grown = read_offset
      /\ UNCHANGED <<outbox, link, channel, read_buffer>>
  BY DEF ReadNothing, Called, senderVars
<1>2. channel = <<>> /\ link # "open" /\ outbox = <<>>
  <2>1. Grown \in MIN_BUFFER_SIZE .. MAX_PACKET_LENGTH /\ read_offset < Grown
    BY <1>1, GrownFacts
  <2>2. Grown # read_offset
    BY <2>1, BufferFacts, V4Facts
  <2> QED
    BY <1>1, <2>2 DEF ReaderSound
<1>3. /\ read_buffer \in Seq(Byte) /\ Placed(read_buffer) /\ read_offset \in Nat
      /\ read_buffer # <<>> => /\ packet.length \in Nat
                               /\ PACKET_HDR_LENGTH <= packet.length
      /\ HasHeader => GET_PACKET_LENGTH(read_buffer) = packet.length
  BY BufferFacts
<1>4. read_buffer # <<>> => read_offset < packet.length
  <2>1. HasHeader => read_offset < GET_PACKET_LENGTH(read_buffer)
    BY <1>1 DEF PreviousConsumed
  <2>2. ~HasHeader => read_offset < PACKET_HDR_LENGTH
    BY <1>3, V4Facts DEF HasHeader
  <2> QED
    BY <1>3, <2>1, <2>2, V4Facts
<1>5. PacketsIn(read_buffer) = <<>>
  BY <1>3, <1>4, V4Facts, NoPacketYet DEF read_offset, packet
<1>6. Stream = read_buffer
  <2>1. Stream = (read_buffer \o <<>>) \o <<>>
    BY <1>2 DEF Stream
  <2> QED
    BY <1>3, <2>1, ConcatEmptySeq
<1>7. InTransit = <<>> /\ UNCHANGED InTransit
  BY <1>1, <1>5, <1>6 DEF InTransit, Stream
<1> QED
  BY <1>1, <1>2, <1>7 DEF P!End, P!Returns

\* A packet in the buffer is no longer than the buffer.
LEMMA ProcessGoodTakes == ASSUME ReaderSound, ProcessGood PROVE P!Take
<1>1. PICK u \in Seq(Byte) :
        /\ u # <<>> /\ Placed(u) /\ u[1] = read_buffer[1]
        /\ Len(u) = u[1].of.length /\ Len(u) <= total_size
        /\ Stream' \in Seq(Byte) /\ Stream = u \o Stream'
  BY GoodLeaves
<1> DEFINE p == u[1].of
           t == Stream'
<1>2. /\ PacketsIn(u \o t) # <<>> /\ Head(PacketsIn(u \o t)) = p
      /\ Tail(PacketsIn(u \o t)) = PacketsIn(t)
  <2>1. t \in Seq(Byte)
    BY <1>1
  <2> HIDE DEF t
  <2> QED
    BY <1>1, <2>1, V4Facts, PacketLeaves
<1>3. InTransit # <<>> /\ Head(InTransit) = p /\ InTransit' = Tail(InTransit)
  BY <1>1, <1>2 DEF InTransit
<1>4. p \in Packets /\ p.length = Len(u)
  BY <1>1, V4Facts, FirstPacket
<1>5. p.length <= MAX_PACKET_LENGTH
  <2> DEFINE l == p.length
  <2>1. l \in Nat /\ l <= total_size /\ total_size \in Nat /\ total_size <= MAX_PACKET_LENGTH
    BY <1>1, <1>4, BufferFacts, V4Facts
  <2> HIDE DEF l
  <2>2. l <= MAX_PACKET_LENGTH
    BY <2>1, V4Facts
  <2> QED
    BY <2>2 DEF l
<1>6. /\ rpc = "processing" /\ rpc' \in {"idle", "processing"}
      /\ got' = p /\ err' = "0" /\ UNCHANGED link
  BY <1>1 DEF ProcessGood, GoesOn, packet, senderVars
<1> HIDE DEF p
<1>7. ~(p.length > MAX_PACKET_LENGTH)
  BY <1>4, <1>5, V4Facts
<1> QED
  BY <1>3, <1>4, <1>6, <1>7 DEF P!Take, P!Returns

LEMMA ProcessRestWaits == ASSUME AllNamed, ReaderSound, ProcessRest PROVE P!Wait
<1>1. ~HasPacket
  <2>1. HasPacket => packet \in Packets /\ ~validate_packet(packet)
    BY BufferFacts DEF HasPacket, ProcessRest
  <2> QED
    BY <2>1 DEF AllNamed, validate_packet
<1>2. /\ rpc = "processing" /\ rpc' = "idle" /\ got' = NULL /\ err' = "EAGAIN"
      /\ UNCHANGED <<outbox, link, channel, read_buffer>>
  BY <1>1 DEF ProcessRest, senderVars
<1> QED
  BY <1>2 DEF P!Wait, P!Returns, InTransit, Stream

LEMMA ReaderPipeStep ==
  ASSUME AllNamed, ReaderSound, [ReaderNext]_connVars PROVE P!Next \/ NothingSeen
<1>1. ASSUME NEW p \in Packets, PeerSend(p) PROVE P!Next
  BY <1>1, PeerSends DEF P!Next
<1>2. CASE PeerWrite
  BY <1>2, PeerWriteUnseen
<1>3. CASE PeerGoes
  BY <1>3, PeerGoesLoses DEF P!Next
<1>4. CASE handle_read_event
  BY <1>4, ReadSomeSeen, ReadNothingSeen, ProcessGoodTakes, ProcessRestWaits
  DEF handle_read_event, P!Next
<1>5. CASE UNCHANGED connVars
  BY <1>5 DEF connVars, NothingSeen, InTransit, Stream
<1> QED
  BY <1>1, <1>2, <1>3, <1>4, <1>5 DEF ReaderNext

-----------------------------------------------------------------------------
(* v4: the theorems of the reader.                                          *)

\* The bytes of the stream are in their places, and those that are kept have
\* room, in every reachable state and whatever the packets are.
THEOREM ReaderInvariance == ReaderSpec => []ReaderSound
<1> QED
  BY ReaderInitSound, ReaderStep, PTL DEF ReaderSpec

\* The buffer is between MIN_BUFFER_SIZE and MAX_PACKET_LENGTH once there is one,
\* also when packets are too long or nameless.
THEOREM ReaderTyped == ReaderSpec => []ReaderTypeOK
<1>1. ReaderSound => ReaderTypeOK
  BY DEF ReaderSound
<1> QED
  BY <1>1, ReaderInvariance, PTL

\* If every packet names its sender, then none is left complete in the buffer
\* when read_packets is called: the assertion at event.c:288.
THEOREM ReaderConsumes ==
  ASSUME AllNamed
  PROVE  ReaderSpec => [](ReaderSound /\ PreviousConsumed)
<1>1. ReaderInit => PreviousConsumed
  BY EmptySeq, V4Facts DEF ReaderInit, PreviousConsumed, HasHeader, read_offset
<1>2. ReaderSound /\ PreviousConsumed /\ [ReaderNext]_connVars => PreviousConsumed'
  BY ConsumedStep
<1> QED
  BY <1>1, <1>2, ReaderInvariance, PTL DEF ReaderSpec

\* If besides none is too long, the other assertion holds too (event.c:291), and
\* read() is never called without room: its 0 means the end (V4Reader!ReaderInv).
THEOREM ReaderReads ==
  ASSUME AllNamed, AllShort
  PROVE  ReaderSpec => []ReaderInv
<1>1. ReaderSound /\ PreviousConsumed => ReaderInv
  <2> SUFFICES ASSUME ReaderSound, PreviousConsumed PROVE ReaderInv
    OBVIOUS
  <2>1. LengthWasChecked
    <3>1. HasHeader => packet \in Packets /\ GET_PACKET_LENGTH(read_buffer) = packet.length
      BY BufferFacts
    <3> QED
      BY <3>1 DEF LengthWasChecked, AllShort
  <2>2. rpc = "idle" => Grown > read_offset
    <3> SUFFICES ASSUME rpc = "idle" PROVE Grown > read_offset
      OBVIOUS
    <3>1. Grown \in MIN_BUFFER_SIZE .. MAX_PACKET_LENGTH /\ read_offset < Grown
      BY <2>1, GrownFacts
    <3> QED
      BY <3>1, BufferFacts, V4Facts
  <2> QED
    BY <2>1, <2>2 DEF ReaderInv, ReadsSensibly, ReaderSound
<1> QED
  BY <1>1, ReaderConsumes, PTL

\* If every packet names its sender, the bytes implement the pipe: what one
\* read() brings may end several packets and begin another, onDataReceived is
\* given each of them whole, once and in order; only the last are lost with the
\* connection; and one that is too long ends the reading.
THEOREM ReaderPipe ==
  ASSUME AllNamed
  PROVE  ReaderSpec => PipeSpec
<1>1. ReaderInit => P!Init
  <2> SUFFICES ASSUME ReaderInit PROVE P!Init
    OBVIOUS
  <2>1. Stream = (<<>> \o <<>>) \o <<>>
    BY DEF ReaderInit, Stream
  <2>2. InTransit = <<>>
    BY <2>1, EmptySeq, ConcatEmptySeq, PacketsInNothing DEF InTransit
  <2> QED
    BY <2>2 DEF ReaderInit, P!Init
<1>2. ReaderSound /\ [ReaderNext]_connVars => [P!Next]_(P!pipeVars)
  BY ReaderPipeStep DEF NothingSeen, P!pipeVars
<1> QED
  BY <1>1, <1>2, ReaderInvariance, PTL DEF ReaderSpec, PipeSpec, P!Spec
=============================================================================
