------------------------------- MODULE MCRelay -------------------------------
(* Small instances of Relay for TLC. *)
EXTENDS Relay

TwoMsgs == {1, 2}
OnlySms == {"sms"}
EveryFault == {"raise", "kill", "stop", "fetch"}
=============================================================================
