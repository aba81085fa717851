-------------------------------- MODULE Digest --------------------------------
(***************************************************************************)
(* The one text a Grafana webhook becomes (routes/grafana.py): its alerts    *)
(* are checked, cut, sorted by urgency, packed until the text is full, and   *)
(* the rest counted.  The same group may be posted again in another order.   *)
(*                                                                         *)
(* A text is its length; an alert's identity (fingerprint, start, state,    *)
(* reminder) is a number of its own and its state.  A payload of more than   *)
(* 64 KiB is refused before any of it is read, and is not a group here.      *)
(***************************************************************************)
EXTENDS Integers, Sequences, FiniteSets

CONSTANTS Names,      \* fingerprints with their starts and reminders, as numbers
          Lengths,    \* lengths of an alert's text before it is cut
          MaxAlerts,  \* bound: alerts in a group
          MaxPosts    \* bound: posts of a group

ASSUME DigestAssumption ==
    /\ Names \subseteq Nat /\ Lengths \subseteq Nat \ {0}
    /\ MaxAlerts \in Nat /\ MaxPosts \in Nat

AlertLimit == 100
TextLimit == 1800
PackLimit == 3800
BodyLimit == 4000    \* SendRequest.body: max_length

Alerts == [name : Names, firing : BOOLEAN, critical : BOOLEAN, length : Lengths]

VARIABLES
    pc,      \* "idle", "packing", "queued", "refused"
    alerts,  \* the group, in the order Grafana sent it
    entries, \* the group, sorted
    lines,   \* how many entries are packed
    used,    \* sum(len(s) + 2 for s in lines)
    body,    \* the text: its entries and its length
    key,     \* the group's idempotency key, before it is hashed
    priority,
    first,   \* history: key and entries of the first post
    posts

vars == <<pc, alerts, entries, lines, used, body, key, priority, first, posts>>

Positions(s) == 1..Len(s)

\* An alert that is no object, lacks a field or has one of another type: it
\* has no text.
Malformed == [name |-> 0, firing |-> FALSE, critical |-> FALSE, length |-> 0]

Nothing == [entries |-> <<>>, length |-> 0]
Unsent == [key |-> <<>>, entries |-> <<>>]

TypeOK ==
    /\ pc \in {"idle", "packing", "queued", "refused"}
    /\ alerts \in Seq(Alerts \cup {Malformed})
    /\ entries \in Seq(Alerts)
    /\ pc \in {"packing", "queued"} => Len(entries) = Len(alerts) /\ Len(entries) \in 1..AlertLimit
    /\ lines \in 0..Len(entries) /\ used \in Nat
    /\ body \in [entries : Seq(Alerts), length : Nat]
    /\ priority \in 0..5
    /\ posts \in 0..MaxPosts

Init ==
    /\ pc = "idle" /\ alerts = <<>> /\ entries = <<>> /\ lines = 0 /\ used = 0
    /\ body = Nothing /\ key = <<>> /\ priority = 0
    /\ first = Unsent /\ posts = 0

-----------------------------------------------------------------------------
(* One alert.                                                              *)

LenWhole(a) == a.length   \* mutant: not cut
\* text[:1800]
LenOf(a) == IF a.length > TextLimit THEN TextLimit ELSE a.length

Priority(a) ==
    CASE a.critical /\ a.firing   -> 4
      [] a.critical /\ ~a.firing  -> 3
      [] ~a.critical /\ a.firing  -> 3
      [] ~a.critical /\ ~a.firing -> 1

\* [fingerprint, startsAt, status, reminder]
Identity(a) == <<a.name, a.firing>>

\* "firing" < "resolved"
IdentityBefore(a, b) == a.name < b.name \/ (a.name = b.name /\ a.firing /\ ~b.firing)

\* key=lambda x: (-x[2], x[0])
Before(a, b) ==
    \/ Priority(a) > Priority(b)
    \/ Priority(a) = Priority(b) /\ IdentityBefore(a, b)

\* sort is stable: entries it cannot tell apart keep their order.
SortsBeforeByUrgency(s, i, j) ==   \* mutant: key=lambda x: -x[2]
    \/ Priority(s[i]) > Priority(s[j])
    \/ i < j /\ Priority(s[i]) = Priority(s[j])
SortsBeforeByIdentity(s, i, j) ==   \* mutant: key=lambda x: x[0]
    \/ IdentityBefore(s[i], s[j])
    \/ i < j /\ ~IdentityBefore(s[j], s[i])
SortsBefore(s, i, j) ==
    \/ Before(s[i], s[j])
    \/ i < j /\ ~Before(s[j], s[i])

\* The permutations that sort s (there is one).
Permutations(s) ==
    {p \in [Positions(s) -> Positions(s)] : \A i \in Positions(s) : \E n \in Positions(s) : p[n] = i}
Orders(s) ==
    {p \in Permutations(s) : \A m, n \in Positions(s) : m < n => SortsBefore(s, p[m], p[n])}

-----------------------------------------------------------------------------
(* The request.                                                            *)

Valid(s) ==
    /\ Len(s) \in 1..AlertLimit
    /\ \A i \in Positions(s) : s[i] # Malformed

\* Every alert is checked before any is queued.
Receive(s) ==
    /\ alerts' = s
    /\ posts' = posts + 1
    /\ \/ Valid(s) /\ pc' = "packing" /\ \E p \in Orders(s) : entries' = [n \in Positions(s) |-> s[p[n]]]
       \/ ~Valid(s) /\ pc' = "refused" /\ entries' = <<>>
    /\ lines' = 0 /\ used' = 0 /\ body' = Nothing /\ key' = <<>> /\ priority' = 0
    /\ UNCHANGED first

\* Grafana posts a group.
Post ==
    /\ posts = 0 /\ MaxPosts > 0
    /\ \E n \in 0..MaxAlerts : \E s \in [1..n -> Alerts \cup {Malformed}] : Receive(s)

\* Grafana repeats it, in some order.
Repost ==
    /\ posts \in 1..MaxPosts - 1 /\ pc # "packing"
    /\ \E p \in Permutations(alerts) : Receive([i \in Positions(alerts) |-> alerts[p[i]]])

FitsAfter(a) == used <= PackLimit   \* mutant: the text itself is not counted
Fits(a) == used + LenOf(a) <= PackLimit

Pack ==
    /\ pc = "packing" /\ lines < Len(entries)
    /\ Fits(entries[lines + 1])
    /\ used' = used + LenOf(entries[lines + 1]) + 2
    /\ lines' = lines + 1
    /\ UNCHANGED <<pc, alerts, entries, body, key, priority, first, posts>>

Digits(n) == IF n < 10 THEN 1 ELSE IF n < 100 THEN 2 ELSE 3

\* "\n\n" and " additional alerts; see Grafana."
Suffix(hidden) == IF hidden = 0 THEN 0 ELSE 34 + Digits(hidden)

\* The lines joined by blank lines.
Joined == IF lines = 0 THEN 0 ELSE used - 2

\* The loop ends, or breaks at the first entry that does not fit.  A text
\* that SendRequest refuses is a 400.
Finish ==
    /\ pc = "packing"
    /\ lines < Len(entries) => ~Fits(entries[lines + 1])
    /\ body' = [entries |-> SubSeq(entries, 1, lines),
                length |-> Joined + Suffix(Len(entries) - lines)]
    /\ key' = [n \in Positions(entries) |-> Identity(entries[n])]
    /\ priority' \in {Priority(entries[n]) : n \in Positions(entries)}
    /\ \A n \in Positions(entries) : Priority(entries[n]) <= priority'
    /\ pc' = IF body'.length \in 1..BodyLimit THEN "queued" ELSE "refused"
    /\ first' = IF posts = 1 THEN [key |-> key', entries |-> body'.entries] ELSE first
    /\ UNCHANGED <<alerts, entries, lines, used, posts>>

Next == Post \/ Repost \/ Pack \/ Finish

Spec == Init /\ [][Next]_vars

-----------------------------------------------------------------------------
(* What the text promises.                                                 *)

WellFormed == alerts # <<>> /\ Len(alerts) <= AlertLimit /\ alerts \in Seq(Alerts)

\* However many alerts, and however long: a well-formed group whose payload was
\* read is never refused for the length of the text composed from it.
WellFormedIsQueued == pc = "refused" => ~WellFormed

\* The loop never breaks before the first entry: a text names at least one
\* alert, and the notification's priority is that of an alert it names.
MostUrgentIsNamed ==
    pc = "queued" =>
        \E n \in Positions(body.entries) : Priority(body.entries[n]) = priority

\* What is left out for lack of room is no more urgent than what is told.
NothingUrgentIsHidden ==
    pc = "queued" =>
        \A i \in Positions(alerts) :
            \/ \E n \in Positions(body.entries) : body.entries[n] = alerts[i]
            \/ \A n \in Positions(body.entries) :
                  Priority(body.entries[n]) >= Priority(alerts[i])

AllDistinct == \A i, j \in Positions(alerts) : Identity(alerts[i]) = Identity(alerts[j]) => i = j

\* Posted again in another order, a group has the key it had ("order-
\* independent, persistent dedup of the whole group"), and, its alerts being
\* distinct, the text it had.
RetriesAreTheSame ==
    pc = "queued" /\ posts > 1 =>
        /\ key = first.key
        /\ AllDistinct => body.entries = first.entries
=============================================================================
