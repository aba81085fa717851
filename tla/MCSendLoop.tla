------------------------------ MODULE MCSendLoop ------------------------------
(* Small instances of SendLoop for TLC. *)
EXTENDS SendLoop

OneMsg == {1}
TwoMsgs == {1, 2}

BothChannels == {"sms", "ntfy"}

AllFaults == {"raise", "kill", "stop"}
=============================================================================
