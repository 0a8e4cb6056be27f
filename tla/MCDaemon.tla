------------------------------- MODULE MCDaemon -------------------------------
(***************************************************************************)
(* Instances of Daemon.  MCDaemon has two consents, so that one can        *)
(* overtake the other, one approval, and a stall budget of two.            *)
(***************************************************************************)
EXTENDS Daemon

CONSTANT i1
=============================================================================
