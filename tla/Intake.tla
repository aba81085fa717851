-------------------------------- MODULE Intake --------------------------------
(***************************************************************************)
(* How messages enter the queue: POST /messages with its idempotency keys   *)
(* (routes/messages.py), and the Grafana webhook that derives a key and     *)
(* calls it (routes/grafana.py).  Requests run concurrently; each awaits    *)
(* the database at its lookup, its commit and its second lookup.  Callers   *)
(* repeat a request whose answer they did not get.                          *)
(*                                                                         *)
(* A request is a record [service, key, to, alerts]: the caller, the key it *)
(* sends ("null" for none, "" for an empty one), its number of recipients   *)
(* and, for Grafana's webhook, its group of alerts, records [name, starts,  *)
(* firing].  A group's key is derived from its alerts and the time.         *)
(***************************************************************************)
EXTENDS Integers, FiniteSets

CONSTANTS Requests,   \* the requests callers make, and repeat
          Handlers,   \* requests in progress at one time
          FaultKinds, \* the faults the environment may inject
          MaxFaults,  \* bound: how many of them
          MaxRows,    \* bound: message ids
          Period,     \* a reminder period (four hours)
          MaxTime     \* bound: the time

ASSUME IntakeAssumption ==
    /\ \A q \in Requests : q.to \in Nat \ {0} /\ \A a \in q.alerts : a.starts \in Nat
    /\ \A q \in Requests : IsFiniteSet(q.alerts)
    \* The webhook refuses any other credential (grafana.py:24), and makes the key.
    /\ \A q \in Requests : q.alerts # {} => q.service = "grafana" /\ q.key = "null"
    /\ Requests # {} /\ IsFiniteSet(Handlers)
    /\ FaultKinds \subseteq {"locked", "kill"} /\ MaxFaults \in Nat
    /\ MaxRows \in Nat /\ Period \in Nat \ {0} /\ MaxTime \in Nat

VARIABLES
    table,    \* the committed rows: records [id, service, key]
    nextId,   \* fresh ids (uuid4)
    now,      \* time.time()
    hpc, hreq, hkey,   \* per handler: its step, its request, the key in use
    hids,     \* the ids its answer will name
    ever,     \* history: every row ever committed
    answers,  \* history: answers given, records [req, key, code, ids]
    faults

vars == <<table, nextId, now, hpc, hreq, hkey, hids, ever, answers, faults>>

\* A key: the text of it, and the alerts it stands for, each with its reminder.
Key == [text : {"null"} \cup {q.key : q \in Requests},
        group : SUBSET ((UNION {q.alerts : q \in Requests}) \X (0..MaxTime))]
NoKey == [text |-> "null", group |-> {}]
Row == [id : 1..MaxRows, service : {q.service : q \in Requests}, key : Key]

TypeOK ==
    /\ table \subseteq Row /\ ever \subseteq Row /\ table \subseteq ever
    /\ nextId \in 1..MaxRows + 1
    /\ now \in 0..MaxTime
    /\ hpc \in [Handlers -> {"idle", "lookup", "insert", "conflict", "answer"}]
    /\ hreq \in [Handlers -> Requests] /\ hkey \in [Handlers -> Key]
    /\ hids \in [Handlers -> SUBSET (1..MaxRows)]
    /\ answers \subseteq [req : Requests, key : Key, code : {202, 422, 500},
                          ids : SUBSET (1..MaxRows)]
    /\ faults \in 0..MaxFaults

Init ==
    /\ table = {} /\ nextId = 1 /\ now = 0
    /\ hpc = [h \in Handlers |-> "idle"]
    /\ hreq \in [Handlers -> {CHOOSE q \in Requests : TRUE}]
    /\ hkey = [h \in Handlers |-> NoKey] /\ hids = [h \in Handlers |-> {}]
    /\ ever = {} /\ answers = {} /\ faults = 0

-----------------------------------------------------------------------------
\* `if request.idempotency_key:` - neither None nor "" passes.
Truthy(key) == key.text \notin {"null", ""} \/ key.group # {}

\* _existing_by_idempotency_key
Matching(service, key) == {r \in table : r.service = service /\ r.key = key}

NoConstraint(service, key, n) == FALSE   \* mutant
\* UNIQUE (service, idempotency_key): NULLs do not collide, "" does.
Collides(service, key, n) ==
    key # NoKey /\ (n > 1 \/ \E r \in table : r.service = service /\ r.key = key)

\* The reminder that is due: whole periods since the incident began.
Unclamped(a) == IF a.firing THEN (now - a.starts) \div Period ELSE 0   \* mutant: no max(0, ...)
Reminder(a) ==
    IF a.firing /\ now > a.starts THEN (now - a.starts) \div Period ELSE 0

\* The key of a group is made of every alert's state and reminder, in an order
\* of its own, so that the order the alerts come in does not matter.
KeyByTheClock(q) ==   \* mutant: UTC wall-clock buckets
    [text |-> q.key, group |-> {<<a, now \div Period>> : a \in q.alerts}]
KeyOf(q) == [text |-> q.key, group |-> {<<a, Reminder(a)>> : a \in q.alerts}]

Goto(h, step) == hpc' = [hpc EXCEPT ![h] = step]
Answer(h, code, ids) ==
    answers' = answers \cup {[req |-> hreq[h], key |-> hkey[h], code |-> code, ids |-> ids]}
Ids(rows) == {r.id : r \in rows}

-----------------------------------------------------------------------------
\* The ids the requests in progress may need.
Reserved == Cardinality(UNION {{h} \X (1..hreq[h].to) : h \in {g \in Handlers : hpc[g] # "idle"}})

\* A request arrives.  (Bound: while ids are left for all in progress.)
Post(h, q) ==
    /\ hpc[h] = "idle"
    /\ nextId + q.to + Reserved <= MaxRows + 1
    /\ hreq' = [hreq EXCEPT ![h] = q] /\ hkey' = [hkey EXCEPT ![h] = KeyOf(q)]
    /\ Goto(h, "lookup")
    /\ UNCHANGED <<table, nextId, now, hids, ever, answers, faults>>

\* A key is for one recipient.
Reject(h) ==
    /\ hpc[h] = "lookup" /\ Truthy(hkey[h]) /\ hreq[h].to > 1
    /\ Answer(h, 422, {}) /\ Goto(h, "idle")
    /\ UNCHANGED <<table, nextId, now, hreq, hkey, hids, ever, faults>>

\* An idempotent replay is answered with the original.
Replay(h) ==
    /\ hpc[h] = "lookup" /\ Truthy(hkey[h]) /\ hreq[h].to = 1
    /\ Matching(hreq[h].service, hkey[h]) # {}
    /\ hids' = [hids EXCEPT ![h] = Ids(Matching(hreq[h].service, hkey[h]))]
    /\ Goto(h, "answer")
    /\ UNCHANGED <<table, nextId, now, hreq, hkey, ever, answers, faults>>

Miss(h) ==
    /\ hpc[h] = "lookup"
    /\ \/ ~Truthy(hkey[h])
       \/ hreq[h].to = 1 /\ Matching(hreq[h].service, hkey[h]) = {}
    /\ Goto(h, "insert")
    /\ UNCHANGED <<table, nextId, now, hreq, hkey, hids, ever, answers, faults>>

\* The commit: all the rows of the request, or none.
Insert(h) ==
    LET q == hreq[h]
        ids == nextId..nextId + q.to - 1
        new == {[id |-> i, service |-> q.service, key |-> hkey[h]] : i \in ids}
    IN  /\ hpc[h] = "insert"
        /\ hids' = [hids EXCEPT ![h] = ids]
        /\ nextId' = nextId + q.to
        /\ IF Collides(q.service, hkey[h], q.to)
           THEN Goto(h, "conflict") /\ UNCHANGED <<table, ever>>
           ELSE Goto(h, "answer") /\ table' = table \cup new /\ ever' = ever \cup new
        /\ UNCHANGED <<now, hreq, hkey, answers, faults>>

LoserKeepsItsOwn(h) ==   \* mutant: the rolled-back rows are returned
    /\ hpc[h] = "conflict"
    /\ Goto(h, "answer")
    /\ UNCHANGED <<table, nextId, now, hreq, hkey, hids, ever, answers, faults>>

LoserFails(h) ==   \* mutant: the loser raises
    /\ hpc[h] = "conflict"
    /\ Answer(h, 500, {}) /\ Goto(h, "idle")
    /\ UNCHANGED <<table, nextId, now, hreq, hkey, hids, ever, faults>>

\* IntegrityError: the loser returns the winner's row...
Lose(h) ==
    /\ hpc[h] = "conflict" /\ Truthy(hkey[h])
    /\ Matching(hreq[h].service, hkey[h]) # {}
    /\ hids' = [hids EXCEPT ![h] = Ids(Matching(hreq[h].service, hkey[h]))]
    /\ Goto(h, "answer")
    /\ UNCHANGED <<table, nextId, now, hreq, hkey, ever, answers, faults>>

\* ...or, finding none, raises: a 500.
Reraise(h) ==
    /\ hpc[h] = "conflict"
    /\ Truthy(hkey[h]) => Matching(hreq[h].service, hkey[h]) = {}
    /\ Answer(h, 500, {}) /\ Goto(h, "idle")
    /\ UNCHANGED <<table, nextId, now, hreq, hkey, hids, ever, faults>>

\* 202.
Accept(h) ==
    /\ hpc[h] = "answer"
    /\ Answer(h, 202, hids[h]) /\ Goto(h, "idle")
    /\ UNCHANGED <<table, nextId, now, hreq, hkey, hids, ever, faults>>

-----------------------------------------------------------------------------
\* Retention takes a settled row past its window.
Prune(r) ==
    /\ r \in table
    /\ table' = table \ {r}
    /\ UNCHANGED <<nextId, now, hpc, hreq, hkey, hids, ever, answers, faults>>

Tick ==
    /\ now < MaxTime
    /\ now' = now + 1
    /\ UNCHANGED <<table, nextId, hpc, hreq, hkey, hids, ever, answers, faults>>

Fault(kind) == kind \in FaultKinds /\ faults < MaxFaults /\ faults' = faults + 1

\* SQLite stays busy past busy_timeout: not an IntegrityError, a 500.
Locked(h) ==
    /\ hpc[h] = "insert" /\ Fault("locked")
    /\ Answer(h, 500, {}) /\ Goto(h, "idle")
    /\ UNCHANGED <<table, nextId, now, hreq, hkey, hids, ever>>

\* The process dies with every request in progress; the next one starts.
Kill ==
    /\ Fault("kill")
    /\ hpc' = [h \in Handlers |-> "idle"]
    /\ UNCHANGED <<table, nextId, now, hreq, hkey, hids, ever, answers>>

Next ==
    \/ \E h \in Handlers :
          \/ \E q \in Requests : Post(h, q)
          \/ Reject(h) \/ Replay(h) \/ Miss(h) \/ Insert(h) \/ Lose(h) \/ Reraise(h)
          \/ Accept(h) \/ Locked(h)
    \/ \E r \in table : Prune(r)
    \/ Tick \/ Kill

Spec == Init /\ [][Next]_vars

-----------------------------------------------------------------------------
(* What a caller may rely on.                                              *)

Accepted == {a \in answers : a.code = 202}
Pruned == Ids(ever \ table)

\* A repeat POST with the same (service, key) names the original message, as
\* long as that is kept: however the repeats overlap, crash or lose races.
ReplaysNameTheOriginal ==
    \A a, b \in Accepted :
        Truthy(a.key) /\ a.key = b.key /\ a.req.service = b.req.service =>
            a.ids = b.ids \/ (a.ids \cup b.ids) \cap Pruned # {}

\* 202 means durably accepted: every id ever returned was committed, for the
\* very service that asked and under its own key.
AnswersAreDurable ==
    \A a \in Accepted : \A i \in a.ids :
        \E r \in ever : r.id = i /\ r.service = a.req.service /\ r.key = a.key

\* A keyed request is refused with a 500 only when the database was locked, or
\* retention took the winner's row between the two lookups of the loser.
ServerErrorsAreExcused ==
    \A a \in answers :
        a.code = 500 /\ Truthy(a.key) =>
            faults > 0 \/ \E r \in ever \ table : r.service = a.req.service /\ r.key = a.key

\* The alerts a row was queued for.
AlertsOf(r) == {pair[1] : pair \in r.key.group}

\* Reminders are paced: of a group that stays as it is, the relay holds the first
\* text and one more for each period that ended for one of its firing alerts,
\* however often Grafana posts it.
RemindersArePaced ==
    \A q \in Requests :
        q.alerts # {} =>
            Cardinality({r \in table : AlertsOf(r) = q.alerts})
                <= 1 + Cardinality(UNION {{a} \X (1..Reminder(a)) : a \in q.alerts})

-----------------------------------------------------------------------------
(* What the documentation says and the code does not do.                   *)

\* models.py: "a repeat POST with the same (service, key) returns the original
\* message": it is never answered with a server error.
RepeatsAreAnswered == \A a \in answers : a.code # 500
=============================================================================
