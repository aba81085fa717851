-------------------------------- MODULE Outbox --------------------------------
(***************************************************************************)
(* What the relay promises a caller, told without loops, retries or rows: a *)
(* submitted message is pending until its fate is settled; copies of it are *)
(* handed upstream only while it is pending; it is called sent or published *)
(* only if a copy was taken; the handset may still report on a message that *)
(* was sent, once; only a message that can change no more is forgotten; and *)
(* no message stays pending for ever.                                       *)
(***************************************************************************)
EXTENDS Integers

CONSTANT Msgs

VARIABLES fate,    \* what the caller can read of a message
          copies   \* how many copies upstream has taken

Success == {"sent", "published"}
Settled == Success \cup {"failed"}
Terminal == {"published", "failed", "delivered"}

Init == /\ fate = [m \in Msgs |-> "none"]
        /\ copies = [m \in Msgs |-> 0]

Submit(m) ==
    /\ fate[m] = "none"
    /\ fate' = [fate EXCEPT ![m] = "pending"]
    /\ UNCHANGED copies

HandOver(m) ==
    /\ fate[m] = "pending"
    /\ copies' = [copies EXCEPT ![m] = @ + 1]
    /\ UNCHANGED fate

Settle(m) ==
    /\ fate[m] = "pending"
    /\ \E f \in Settled : /\ f \in Success => copies[m] > 0
                          /\ fate' = [fate EXCEPT ![m] = f]
    /\ UNCHANGED copies

\* Receipts that one commit writes arrive together.
Report(S) ==
    /\ \A m \in S : fate[m] = "sent"
    /\ \E f \in [S -> {"delivered", "failed"}] :
          fate' = [m \in Msgs |-> IF m \in S THEN f[m] ELSE fate[m]]
    /\ UNCHANGED copies

\* So do the rows one DELETE takes.
Forget(S) ==
    /\ \A m \in S : fate[m] \in Terminal
    /\ fate' = [m \in Msgs |-> IF m \in S THEN "gone" ELSE fate[m]]
    /\ UNCHANGED copies

Next ==
    \/ \E m \in Msgs : Submit(m) \/ HandOver(m) \/ Settle(m)
    \/ \E S \in SUBSET Msgs : Report(S) \/ Forget(S)

vars == <<fate, copies>>

Spec == Init /\ [][Next]_vars

FairSpec == Spec /\ \A m \in Msgs : WF_vars(Settle(m))
=============================================================================
