------------------------------ MODULE PollLoop ------------------------------
(***************************************************************************)
(* The loop that v6's server and client run (do_poll in v6/tcp_server.cpp  *)
(* and v6/tcp_client.cpp; v4 and v5 have the same): how long it sleeps,    *)
(* when it calls house_keeping, and how it is told to quit.                *)
(*                                                                         *)
(* The loop keeps time in whole seconds: it reads a clock before and after *)
(* each iteration, drops the fractions and subtracts.  Here a second has   *)
(* TICKS ticks; the clock may tick between any two steps.  What the events *)
(* do is TCPServer's and TCPClient's subject.                              *)
(***************************************************************************)
EXTENDS Naturals

CONSTANTS TICKS,               \* ticks of a second
          LOOP_TIMEOUT,        \* the timeout given to the constructor
          EPOLL_LOOP_TIMEOUT,  \* the timeout after the first
          Horizon              \* where the counters of seconds saturate

ASSUME PollLoopAssumption ==
  /\ TICKS \in Nat \ {0}
  /\ LOOP_TIMEOUT \in Nat \ {0}
  /\ EPOLL_LOOP_TIMEOUT \in Nat \ {0}
  /\ Horizon \in Nat
  /\ Horizon >= LOOP_TIMEOUT /\ Horizon >= EPOLL_LOOP_TIMEOUT

VARIABLES pc,       \* "test", "sample", "enter", "wait", "handle", "rework", "exited"
          timeout,  \* seconds left
          quit,     \* MyServer::quit
          phase,    \* of the clock within the second
          passed,   \* end_time - start_time, were end_time read now
          slept     \* ticks spent in this call of epoll_wait

\* What the loop does not keep, but its properties speak of.
VARIABLES asked,    \* whether SIGINT came
          sleeps,   \* calls of epoll_wait since then
          full,     \* what the timeout was when last set
          since,    \* ticks since then
          waited,   \* those of them spent in epoll_wait
          unseen    \* seconds that began since then outside start_time..end_time

loopVars  == <<pc, timeout, quit>>
clockVars == <<phase, passed, slept>>
signalled == <<asked, sleeps>>
account   == <<full, since, waited, unseen>>
vars      == <<loopVars, clockVars, signalled, account>>

\* Counters saturate where a larger value would make no difference.
UpTo(limit, n) == IF n > limit THEN limit ELSE n

\* Among other things: epoll_wait is never told to wait for ever (a negative
\* timeout) nor to return at once (zero), however long the handlers took.
TypeOK ==
  /\ pc \in {"test", "sample", "enter", "wait", "handle", "rework", "exited"}
  /\ timeout \in Nat \ {0}
  /\ quit \in BOOLEAN
  /\ phase \in 0 .. TICKS - 1
  /\ passed \in 0 .. Horizon
  /\ slept \in Nat
  /\ asked \in BOOLEAN
  /\ sleeps \in 0 .. 2
  /\ full \in {LOOP_TIMEOUT, EPOLL_LOOP_TIMEOUT}
  /\ since \in 0 .. TICKS * Horizon
  /\ waited \in Nat
  /\ unseen \in 0 .. Horizon

\* The constructor does not set `quit`: it holds what its memory held.
Init ==
  /\ pc = "test"
  /\ timeout = LOOP_TIMEOUT
  /\ quit \in BOOLEAN
  /\ phase \in 0 .. TICKS - 1
  /\ passed = 0 /\ slept = 0
  /\ asked = FALSE /\ sleeps = 0
  /\ full = LOOP_TIMEOUT /\ since = 0 /\ waited = 0 /\ unseen = 0

-----------------------------------------------------------------------------
(* The loop.  A name that starts with Faulty stands for the operation that  *)
(* follows it with a bug put in.                                            *)

\* while (!should_i_quit())
TestQuit ==
  /\ pc = "test"
  /\ pc' = IF quit THEN "exited" ELSE "sample"
  /\ UNCHANGED <<timeout, quit, clockVars, signalled, account>>

\* start_time is read.
Sample ==
  /\ pc = "sample"
  /\ pc' = "enter"
  /\ passed' = 0
  /\ UNCHANGED <<timeout, quit, phase, slept, signalled, account>>

EpollWait ==
  /\ pc = "enter"
  /\ pc' = "wait"
  /\ slept' = 0
  /\ sleeps' = IF asked THEN UpTo(2, sleeps + 1) ELSE sleeps
  /\ UNCHANGED <<timeout, quit, phase, passed, asked, account>>

\* epoll_wait returns because of events, or because the time is up.
Returns ==
  /\ pc = "wait"
  /\ pc' = "handle"
  /\ UNCHANGED <<timeout, quit, clockVars, signalled, account>>

TimeIsUp == slept = timeout * TICKS /\ Returns

Handled ==
  /\ pc = "handle"
  /\ pc' = "rework"
  /\ UNCHANGED <<timeout, quit, clockVars, signalled, account>>

\* Fault: the end of the timeout is tested as `timeout == 0`.
FaultyUsedUp == passed = timeout

UsedUp == passed >= timeout

\* Fault: each iteration counts as a second at least.
FaultySecondsLeft == IF passed = 0 THEN timeout - 1 ELSE timeout - passed

\* Fault: the timeout starts anew with each iteration.
FaultyRestart == timeout

SecondsLeft == timeout - passed

\* end_time is read and time is left.
TimeIsLeft ==
  /\ pc = "rework"
  /\ ~UsedUp
  /\ pc' = "test"
  /\ timeout' = SecondsLeft
  /\ UNCHANGED <<quit, clockVars, signalled, account>>

\* end_time is read and no time is left.
house_keeping ==
  /\ pc = "rework"
  /\ UsedUp
  /\ pc' = "test"
  /\ timeout' = EPOLL_LOOP_TIMEOUT
  /\ full' = EPOLL_LOOP_TIMEOUT
  /\ since' = 0 /\ waited' = 0 /\ unseen' = 0
  /\ UNCHANGED <<quit, clockVars, signalled>>

do_poll ==
  \/ TestQuit
  \/ Sample
  \/ EpollWait
  \/ Returns
  \/ Handled
  \/ TimeIsLeft
  \/ house_keeping

\* Fault: the loop does not see the flag change, having kept it in a register.
FaultyAskToQuit ==
  /\ pc' = IF pc = "wait" THEN "handle" ELSE pc
  /\ UNCHANGED <<quit, slept>>

\* signal_handler: an interrupted epoll_wait returns EINTR, always.
ask_to_quit ==
  /\ quit' = TRUE
  /\ pc' = IF pc = "wait" THEN "handle" ELSE pc
  /\ UNCHANGED slept

\* SIGINT is delivered; a second one changes nothing more.
SIGINT ==
  /\ pc # "exited"
  /\ ~asked
  /\ asked' = TRUE
  /\ ask_to_quit
  /\ UNCHANGED <<timeout, phase, passed, sleeps, account>>

-----------------------------------------------------------------------------
(* The clock. *)

\* Whether the loop is between its readings of start_time and end_time.
Measured == pc \in {"enter", "wait", "handle", "rework"}

\* The kernel does not let epoll_wait sleep beyond its timeout.
Tick ==
  LET second == IF phase = TICKS - 1 THEN 1 ELSE 0 IN
  /\ pc # "exited"
  /\ pc = "wait" => slept < timeout * TICKS
  /\ phase' = (phase + 1) % TICKS
  /\ passed' = IF Measured THEN UpTo(Horizon, passed + second) ELSE passed
  /\ unseen' = IF Measured THEN unseen ELSE UpTo(Horizon, unseen + second)
  /\ slept' = IF pc = "wait" THEN slept + 1 ELSE slept
  /\ waited' = IF pc = "wait" /\ unseen < Horizon THEN waited + 1 ELSE waited
  /\ since' = UpTo(TICKS * Horizon, since + 1)
  /\ UNCHANGED <<loopVars, signalled, full>>

Next == do_poll \/ SIGINT \/ Tick

Spec == Init /\ [][Next]_vars

\* The thread runs, but nothing is said of events: epoll_wait is only sure to
\* return when its time is up.  The clock runs, and no part of the second always
\* falls into the few instructions between end_time and the next start_time.
LiveSpec ==
  /\ Spec
  /\ WF_vars(TestQuit \/ Sample \/ EpollWait \/ TimeIsUp \/ Handled
               \/ TimeIsLeft \/ house_keeping)
  /\ \A p \in 0 .. TICKS - 1 : SF_vars(Tick /\ Measured /\ phase = p)

-----------------------------------------------------------------------------
(* Properties. *)

\* v4/README:31: "This routine would be called every 40 seconds."  Truncation
\* makes it early by less than one second, however many iterations it is
\* spread over.
NotTooEarly == [][house_keeping => since > (full - 1) * TICKS]_vars

\* And late by less than a second of sleep, apart from the seconds whose
\* beginning the loop did not see.
NotTooLate == unseen < Horizon => waited < (full + unseen + 1) * TICKS

\* With the type invariant: the timeout, computed from truncated readings, is
\* never zero or negative when epoll_wait is called with it.
Inv == TypeOK /\ NotTooLate

\* A SIGINT, even one that comes between the test of the flag and epoll_wait, is
\* followed by at most one more sleep.
OneMoreSleep == sleeps <= 1

\* A loop that nobody asks to quit calls house_keeping again and again, also if
\* no iteration lasts as long as a second.
HouseKeepingRecurs == <>quit \/ []<><<house_keeping>>_vars
=============================================================================
