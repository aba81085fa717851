------------------------------- MODULE MCIntake -------------------------------
(* Small instances of Intake for TLC. *)
EXTENDS Intake

Request(service, key, to) == [service |-> service, key |-> key, to |-> to, alerts |-> {}]
Webhook(alerts) ==
    [service |-> "grafana", key |-> "null", to |-> 1, alerts |-> alerts]
Alert(name, starts, firing) == [name |-> name, starts |-> starts, firing |-> firing]

\* Two services using one key, a key with too many recipients, no key.
Mixed == {Request("argus", "k", 1), Request("talaria", "k", 1),
          Request("argus", "k", 2), Request("argus", "null", 2)}
EmptyKey == {Request("argus", "", 1)}
\* A group of two that fire, of which one then clears.
Incident == {Webhook({Alert("disk", 1, TRUE), Alert("node", 2, TRUE)}),
             Webhook({Alert("disk", 1, TRUE), Alert("node", 2, FALSE)})}

NoFaults == {}
AllFaults == {"locked", "kill"}
OneHandler == {"h1"}
TwoHandlers == {"h1", "h2"}
=============================================================================
