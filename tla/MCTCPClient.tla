---------------------------- MODULE MCTCPClient ----------------------------
(* The module under which TLC checks TCPClient; every constant of it is    *)
(* small enough to be written in the cfg.                                  *)
EXTENDS TCPClient
=============================================================================
