----------------------------- MODULE MCPollLoop -----------------------------
(* The module under which TLC checks PollLoop: seconds of two or three     *)
(* ticks and timeouts of two or three seconds, given in the cfgs.          *)
EXTENDS PollLoop
=============================================================================
