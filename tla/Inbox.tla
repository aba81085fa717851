--------------------------------- MODULE Inbox ---------------------------------
(***************************************************************************)
(* What the relay promises of a text the handset receives, told without      *)
(* requests, batches or locks: a text the gateway is told of is kept; with   *)
(* it comes a delivery for each subscriber of that moment; copies are given  *)
(* to a subscriber while its delivery is pending, and at most the one on its *)
(* way when the message is forgotten comes after that; a delivery is settled *)
(* once, as delivered only if the subscriber took a copy; a message is       *)
(* forgotten with all its deliveries, and not before it came.                *)
(***************************************************************************)
EXTENDS Integers

CONSTANTS Texts, Rows, Subs

VARIABLES message, \* per row: "absent", "stored", "pruned"
          text,    \* the text it keeps
          fate,    \* per row and subscriber: what became of the delivery
          copies,  \* how many copies the subscriber took
          told     \* texts the gateway was told of

vars == <<message, text, fate, copies, told>>

Deliveries == Rows \X Subs
Outcomes == {"delivered", "failed", "cancelled"}

Init ==
    /\ message = [r \in Rows |-> "absent"] /\ text = [r \in Rows |-> "none"]
    /\ fate = [d \in Deliveries |-> "none"] /\ copies = [d \in Deliveries |-> 0]
    /\ told = {}

Arrive(r, t, S) ==
    /\ message[r] = "absent"
    /\ message' = [message EXCEPT ![r] = "stored"]
    /\ text' = [text EXCEPT ![r] = t]
    /\ fate' = [d \in Deliveries |-> IF d[1] = r /\ d[2] \in S THEN "pending" ELSE fate[d]]
    /\ UNCHANGED <<copies, told>>

Tell(t) ==
    /\ \E r \in Rows : text[r] = t
    /\ told' = told \cup {t}
    /\ UNCHANGED <<message, text, fate, copies>>

HandOver(d) ==
    /\ fate[d] \in {"pending", "forgotten"}
    /\ copies' = [copies EXCEPT ![d] = @ + 1]
    /\ UNCHANGED <<message, text, fate, told>>

\* One commit may settle several.
Settle(S) ==
    /\ \A d \in S : fate[d] = "pending"
    /\ \E outcome \in [S -> Outcomes] :
          /\ \A d \in S : outcome[d] = "delivered" => copies[d] > 0
          /\ fate' = [d \in Deliveries |-> IF d \in S THEN outcome[d] ELSE fate[d]]
    /\ UNCHANGED <<message, text, copies, told>>

Forget(r) ==
    /\ message[r] = "stored"
    /\ message' = [message EXCEPT ![r] = "pruned"]
    /\ fate' = [d \in Deliveries |->
          IF d[1] = r /\ fate[d] # "none" THEN "forgotten" ELSE fate[d]]
    /\ UNCHANGED <<text, copies, told>>

Next ==
    \/ \E r \in Rows : \/ \E t \in Texts : \E S \in SUBSET Subs : Arrive(r, t, S)
                       \/ Forget(r)
    \/ \E t \in Texts : Tell(t)
    \/ \E d \in Deliveries : HandOver(d)
    \/ \E S \in SUBSET Deliveries : Settle(S)

Spec == Init /\ [][Next]_vars
=============================================================================
