------------------------------ MODULE IntakeProofs ------------------------------
(***************************************************************************)
(* What callers may rely on, for any requests, handlers, faults and time.    *)
(***************************************************************************)
EXTENDS Intake, FiniteSetTheorems, TLAPS

\* The row an id names, for a service and a key.
Holds(i, service, key) == \E r \in ever : r.id = i /\ r.service = service /\ r.key = key

\* A row of that service and key has been pruned.
WasPruned(service, key) == \E r \in ever \ table : r.service = service /\ r.key = key

\* Ids are fresh, a key is the table's only one, and what is pruned is gone.
TableInv ==
    /\ nextId \in Nat
    /\ table \subseteq ever
    /\ \A r \in ever : r.id \in Nat /\ r.id < nextId
    /\ \A r, s \in table : r.service = s.service /\ r.key = s.key /\ r.key # NoKey => r = s

\* What a request has found out: a keyed one goes on to insert for one
\* recipient only; a loser has met a row of its key, which may be gone since;
\* an answer names rows that were committed, and a keyed one names one row.
HandlerOk(h) ==
    /\ hpc[h] # "idle" => hreq[h] \in Requests
    /\ hpc[h] \in {"insert", "conflict"} /\ Truthy(hkey[h]) => hreq[h].to = 1
    /\ hpc[h] = "conflict" /\ Truthy(hkey[h]) =>
          \E r \in ever : r.service = hreq[h].service /\ r.key = hkey[h]
    /\ hpc[h] = "answer" =>
          /\ \A i \in hids[h] : Holds(i, hreq[h].service, hkey[h])
          /\ Truthy(hkey[h]) => \E i \in hids[h] : hids[h] = {i}

\* What an answer said, and says still.
AnswerOk(a) ==
    /\ a.code = 202 =>
          /\ \A i \in a.ids : Holds(i, a.req.service, a.key)
          /\ Truthy(a.key) => \E i \in a.ids : a.ids = {i}
    /\ a.code = 500 /\ Truthy(a.key) => faults > 0 \/ WasPruned(a.req.service, a.key)

Shape ==
    /\ hpc \in [Handlers -> {"idle", "lookup", "insert", "conflict", "answer"}]
    /\ DOMAIN hreq = Handlers /\ DOMAIN hkey = Handlers /\ DOMAIN hids = Handlers
    /\ faults \in Nat

QInv ==
    /\ Shape
    /\ TableInv
    /\ \A h \in Handlers : HandlerOk(h)
    /\ \A a \in answers : AnswerOk(a)

-----------------------------------------------------------------------------
(* Lemmas on keys and on what a step leaves alone.                         *)

\* A key that passes `if request.idempotency_key` is seen by the constraint.
LEMMA TruthyIsAKey ==
    ASSUME NEW key, Truthy(key)
    PROVE  key # NoKey
  <1>1. NoKey.text = "null" /\ NoKey.group = {}
    BY DEF NoKey
  <1> QED
    BY <1>1 DEF Truthy

\* The row a key names is one.
LEMMA MatchingIsOne ==
    ASSUME TableInv, NEW service, NEW key, Truthy(key), Matching(service, key) # {}
    PROVE  /\ \E i \in Ids(Matching(service, key)) : Ids(Matching(service, key)) = {i}
           /\ \A i \in Ids(Matching(service, key)) : Holds(i, service, key)
  <1>1. PICK r \in table : r.service = service /\ r.key = key
    BY DEF Matching
  <1>2. key # NoKey
    BY TruthyIsAKey
  <1>3. Matching(service, key) = {r}
    BY <1>1, <1>2 DEF Matching, TableInv
  <1>4. Ids(Matching(service, key)) = {r.id}
    BY <1>3 DEF Ids
  <1>5. r \in ever
    BY <1>1 DEF TableInv
  <1> QED
    BY <1>1, <1>4, <1>5 DEF Holds

\* A handler that does not move keeps what it knows, as rows are only added to
\* the history.
LEMMA HandlerStays ==
    ASSUME ever \subseteq ever', NEW h \in Handlers, HandlerOk(h),
           hpc'[h] = hpc[h], hreq'[h] = hreq[h], hkey'[h] = hkey[h], hids'[h] = hids[h]
    PROVE  HandlerOk(h)'
  <1>1. hpc[h] # "idle" => hreq'[h] \in Requests
    BY DEF HandlerOk
  <1>2. hpc[h] \in {"insert", "conflict"} /\ Truthy(hkey[h]) => hreq'[h].to = 1
    BY DEF HandlerOk
  <1>3. hpc[h] = "conflict" /\ Truthy(hkey[h]) =>
           \E r \in ever' : r.service = hreq[h].service /\ r.key = hkey[h]
    BY DEF HandlerOk
  <1>4. hpc[h] = "answer" => \A i \in hids[h] : Holds(i, hreq[h].service, hkey[h])'
    BY DEF HandlerOk, Holds
  <1>5. hpc[h] = "answer" /\ Truthy(hkey[h]) => \E i \in hids[h] : hids[h] = {i}
    BY DEF HandlerOk
  <1> QED
    BY <1>1, <1>2, <1>3, <1>4, <1>5 DEF HandlerOk, Holds

\* So does an answer: rows and faults are history, and what is pruned stays so.
LEMMA AnswerStays ==
    ASSUME ever \subseteq ever', ever \ table \subseteq ever' \ table',
           faults > 0 => faults' > 0, NEW a, AnswerOk(a)
    PROVE  AnswerOk(a)'
  <1>1. a.code = 202 => \A i \in a.ids : Holds(i, a.req.service, a.key)'
    BY DEF AnswerOk, Holds
  <1>2. a.code = 500 /\ Truthy(a.key) => faults' > 0 \/ WasPruned(a.req.service, a.key)'
    BY DEF AnswerOk, WasPruned
  <1> QED
    BY <1>1, <1>2 DEF AnswerOk

\* A step of one request that leaves the table alone, and answers at most one.
LEMMA RequestStep ==
    ASSUME QInv, NEW h \in Handlers, UNCHANGED <<table, nextId, ever>>,
           Shape', faults > 0 => faults' > 0,
           \A g \in Handlers \ {h} :
               hpc'[g] = hpc[g] /\ hreq'[g] = hreq[g] /\ hkey'[g] = hkey[g] /\ hids'[g] = hids[g],
           HandlerOk(h)',
           \A a \in answers' : a \in answers \/ AnswerOk(a)'
    PROVE  QInv'
  <1>1. TableInv'
    BY DEF QInv, TableInv
  <1>2. ASSUME NEW g \in Handlers PROVE HandlerOk(g)'
    <2>1. CASE g = h
      BY <2>1
    <2>2. CASE g # h
      BY <2>2, HandlerStays DEF QInv
    <2> QED
      BY <2>1, <2>2
  <1>3. ASSUME NEW a \in answers' PROVE AnswerOk(a)'
    <2>1. CASE a \in answers
      BY <2>1, AnswerStays DEF QInv
    <2> QED
      BY <2>1, <1>3
  <1> QED
    BY <1>1, <1>2, <1>3 DEF QInv

-----------------------------------------------------------------------------
(* One lemma for each kind of step.                                        *)

LEMMA PostStep ==
    ASSUME QInv, NEW h \in Handlers, NEW q \in Requests, Post(h, q)
    PROVE  QInv'
  <1>1. Shape'
    BY DEF Post, Goto, QInv, Shape
  <1>2. HandlerOk(h)'
    BY DEF Post, Goto, QInv, Shape, HandlerOk
  <1>3. \A g \in Handlers \ {h} :
           hpc'[g] = hpc[g] /\ hreq'[g] = hreq[g] /\ hkey'[g] = hkey[g] /\ hids'[g] = hids[g]
    BY DEF Post, Goto, QInv, Shape
  <1> QED
    BY <1>1, <1>2, <1>3, RequestStep DEF Post

\* 202, 422 or 500: the request is over.
LEMMA AnswerStep ==
    ASSUME QInv, NEW h \in Handlers, NEW code, NEW ids,
           Answer(h, code, ids), Goto(h, "idle"),
           UNCHANGED <<table, nextId, ever, hreq, hkey, hids>>,
           faults' \in Nat, faults > 0 => faults' > 0,
           code = 202 => hpc[h] = "answer" /\ ids = hids[h],
           code = 500 /\ Truthy(hkey[h]) => faults' > 0 \/ WasPruned(hreq[h].service, hkey[h])
    PROVE  QInv'
  <1>1. Shape'
    BY DEF Goto, QInv, Shape
  <1>2. HandlerOk(h)'
    BY DEF Goto, QInv, Shape, HandlerOk
  <1>3. \A g \in Handlers \ {h} :
           hpc'[g] = hpc[g] /\ hreq'[g] = hreq[g] /\ hkey'[g] = hkey[g] /\ hids'[g] = hids[g]
    BY DEF Goto, QInv, Shape
  <1>4. ASSUME NEW a \in answers', a \notin answers PROVE AnswerOk(a)'
    <2>1. a.req = hreq[h] /\ a.key = hkey[h] /\ a.code = code /\ a.ids = ids
      BY <1>4 DEF Answer
    <2>2. HandlerOk(h)
      BY DEF QInv
    <2>3. code = 202 => /\ \A i \in ids : Holds(i, hreq[h].service, hkey[h])'
                        /\ Truthy(hkey[h]) => \E i \in ids : ids = {i}
      BY <2>2 DEF HandlerOk, Holds
    <2>4. code = 500 /\ Truthy(hkey[h]) => faults' > 0 \/ WasPruned(hreq[h].service, hkey[h])'
      BY DEF WasPruned
    <2> QED
      BY <2>1, <2>3, <2>4 DEF AnswerOk
  <1> QED
    BY <1>1, <1>2, <1>3, <1>4, RequestStep

\* The loser of a race and the repeat of an answered request find the row.
LEMMA FindStep ==
    ASSUME QInv, NEW h \in Handlers, hpc[h] \in {"lookup", "conflict"},
           Truthy(hkey[h]), Matching(hreq[h].service, hkey[h]) # {},
           hids' = [hids EXCEPT ![h] = Ids(Matching(hreq[h].service, hkey[h]))],
           Goto(h, "answer"),
           UNCHANGED <<table, nextId, now, hreq, hkey, ever, answers, faults>>
    PROVE  QInv'
  <1>1. Shape'
    BY DEF Goto, QInv, Shape
  <1>2. /\ \E i \in Ids(Matching(hreq[h].service, hkey[h])) :
               Ids(Matching(hreq[h].service, hkey[h])) = {i}
        /\ \A i \in Ids(Matching(hreq[h].service, hkey[h])) :
               Holds(i, hreq[h].service, hkey[h])
    BY MatchingIsOne DEF QInv
  <1>3. hids'[h] = Ids(Matching(hreq[h].service, hkey[h])) /\ hpc'[h] = "answer"
    BY DEF Goto, QInv, Shape
  <1>4. hreq[h] \in Requests
    BY DEF QInv, HandlerOk
  <1>5. HandlerOk(h)'
    BY <1>2, <1>3, <1>4 DEF HandlerOk, Holds
  <1>6. \A g \in Handlers \ {h} :
           hpc'[g] = hpc[g] /\ hreq'[g] = hreq[g] /\ hkey'[g] = hkey[g] /\ hids'[g] = hids[g]
    BY DEF Goto, QInv, Shape
  <1> QED
    BY <1>1, <1>5, <1>6, RequestStep

LEMMA MissStep ==
    ASSUME QInv, NEW h \in Handlers, Miss(h)
    PROVE  QInv'
  <1>1. Shape'
    BY DEF Miss, Goto, QInv, Shape
  <1>2. hpc'[h] = "insert" /\ hreq[h] \in Requests /\ (Truthy(hkey[h]) => hreq[h].to = 1)
    BY DEF Miss, Goto, QInv, Shape, HandlerOk
  <1>3. HandlerOk(h)'
    BY <1>2 DEF HandlerOk, Miss
  <1>4. \A g \in Handlers \ {h} :
           hpc'[g] = hpc[g] /\ hreq'[g] = hreq[g] /\ hkey'[g] = hkey[g] /\ hids'[g] = hids[g]
    BY DEF Miss, Goto, QInv, Shape
  <1> QED
    BY <1>1, <1>3, <1>4, RequestStep DEF Miss

\* The commit: fresh ids, a row each, or none of them.
LEMMA InsertStep ==
    ASSUME QInv, NEW h \in Handlers, Insert(h)
    PROVE  QInv'
  <1> DEFINE q == hreq[h]
             ids == nextId..nextId + q.to - 1
             new == {[id |-> i, service |-> q.service, key |-> hkey[h]] : i \in ids}
  <1>1. HandlerOk(h) /\ hpc[h] = "insert" /\ q \in Requests
    BY DEF QInv, Insert, HandlerOk
  <1>2. q.to \in Nat /\ q.to > 0
    <2>1. q.to \in Nat \ {0}
      BY <1>1, IntakeAssumption
    <2> QED
      BY <2>1
  <1>3. nextId \in Nat /\ nextId' = nextId + q.to /\ nextId' \in Nat /\ nextId < nextId'
    BY <1>2 DEF QInv, TableInv, Insert
  <1>4. hids' = [hids EXCEPT ![h] = ids]
    BY DEF Insert
  <1>5. Truthy(hkey[h]) => ids = {nextId} /\ nextId \in ids
    <2>1. ASSUME Truthy(hkey[h]) PROVE q.to = 1
      BY <1>1, <2>1 DEF HandlerOk
    <2> QED
      BY <1>3, <2>1
  <1>6. \A i \in ids : i \in Nat /\ nextId <= i /\ i < nextId'
    BY <1>2, <1>3
  <1>7. \A r \in new : r.id \in ids /\ r.service = q.service /\ r.key = hkey[h]
    OBVIOUS
  <1>8. \A i \in ids : \E r \in new : r.id = i /\ r.service = q.service /\ r.key = hkey[h]
    <2> SUFFICES ASSUME NEW i \in ids
                 PROVE  \E r \in new : r.id = i /\ r.service = q.service /\ r.key = hkey[h]
      OBVIOUS
    <2> WITNESS [id |-> i, service |-> q.service, key |-> hkey[h]] \in new
    <2> QED
      OBVIOUS
  <1>8a. \A r, s \in new : r.id = s.id => r = s
    OBVIOUS
  <1> HIDE DEF new, ids
  <1>9. CASE Collides(q.service, hkey[h], q.to)
    <2>1. /\ Goto(h, "conflict") /\ UNCHANGED <<table, ever, now, hreq, hkey, answers, faults>>
      BY <1>9 DEF Insert
    <2>2. Shape'
      BY <1>4, <2>1 DEF Goto, QInv, Shape
    <2>3. TableInv'
      BY <1>3, <2>1 DEF QInv, TableInv
    <2>4. \A g \in Handlers \ {h} :
             hpc'[g] = hpc[g] /\ hreq'[g] = hreq[g] /\ hkey'[g] = hkey[g] /\ hids'[g] = hids[g]
      BY <1>4, <2>1 DEF Goto, QInv, Shape
    <2>5. HandlerOk(h)'
      <3>1. hpc'[h] = "conflict"
        BY <2>1 DEF Goto, QInv, Shape
      <3>2. Truthy(hkey[h]) => q.to = 1
        BY <1>1 DEF HandlerOk
      <3>3. Truthy(hkey[h]) => \E r \in table : r.service = q.service /\ r.key = hkey[h]
        BY <1>9, <3>2 DEF Collides
      <3>4. Truthy(hkey[h]) => \E r \in ever' : r.service = q.service /\ r.key = hkey[h]
        BY <2>1, <3>3 DEF QInv, TableInv
      <3> QED
        BY <1>1, <2>1, <3>1, <3>2, <3>4 DEF HandlerOk
    <2>6. \A g \in Handlers : HandlerOk(g)'
      BY <2>1, <2>4, <2>5, HandlerStays DEF QInv
    <2>7. \A a \in answers' : AnswerOk(a)'
      BY <2>1, AnswerStays DEF QInv
    <2> QED
      BY <2>2, <2>3, <2>6, <2>7 DEF QInv
  <1>10. CASE ~Collides(q.service, hkey[h], q.to)
    <2>1. /\ Goto(h, "answer") /\ table' = table \cup new /\ ever' = ever \cup new
          /\ UNCHANGED <<now, hreq, hkey, answers, faults>>
      BY <1>10 DEF Insert, new, ids
    <2>2. Shape'
      BY <1>4, <2>1 DEF Goto, QInv, Shape
    <2>3. \A r \in ever : r.id \in Nat /\ r.id < nextId
      BY DEF QInv, TableInv
    <2>4. TableInv'
      <3>1. table' \subseteq ever'
        BY <2>1 DEF QInv, TableInv
      <3>2. \A r \in ever' : r.id \in Nat /\ r.id < nextId'
        BY <1>3, <1>6, <1>7, <2>1, <2>3
      <3>3. ASSUME NEW r \in table', NEW s \in table',
                   r.service = s.service, r.key = s.key, r.key # NoKey
            PROVE  r = s
        <4>1. CASE r \in table /\ s \in table
          BY <3>3, <4>1 DEF QInv, TableInv
        <4>2. ASSUME hkey[h] # NoKey
              PROVE  /\ ~\E t \in table : t.service = q.service /\ t.key = hkey[h]
                     /\ \A t, u \in new : t = u
          <5>1. q.to = 1 /\ ~\E t \in table : t.service = q.service /\ t.key = hkey[h]
            BY <1>2, <1>10, <4>2 DEF Collides
          <5>2. \A i, j \in ids : i = j
            BY <1>3, <5>1 DEF ids
          <5> QED
            BY <1>7, <1>8a, <5>1, <5>2
        <4>3. CASE r \in new \/ s \in new
          BY <1>7, <2>1, <3>3, <4>2, <4>3
        <4> QED
          BY <2>1, <4>1, <4>3
      <3> QED
        BY <1>3, <3>1, <3>2, <3>3 DEF TableInv
    <2>5. \A g \in Handlers \ {h} :
             hpc'[g] = hpc[g] /\ hreq'[g] = hreq[g] /\ hkey'[g] = hkey[g] /\ hids'[g] = hids[g]
      BY <1>4, <2>1 DEF Goto, QInv, Shape
    <2>6. HandlerOk(h)'
      <3>1. hpc'[h] = "answer" /\ hids'[h] = ids
        BY <1>4, <2>1 DEF Goto, QInv, Shape
      <3>2. \A i \in ids : \E r \in ever' : r.id = i /\ r.service = q.service /\ r.key = hkey[h]
        BY <1>8, <2>1
      <3> QED
        BY <1>1, <1>5, <2>1, <3>1, <3>2 DEF HandlerOk, Holds
    <2>7. ever \subseteq ever' /\ ever \ table \subseteq ever' \ table'
      BY <1>6, <1>7, <1>3, <2>1, <2>3
    <2>8. \A g \in Handlers : HandlerOk(g)'
      BY <2>5, <2>6, <2>7, HandlerStays DEF QInv
    <2>9. \A a \in answers' : AnswerOk(a)'
      BY <2>1, <2>7, AnswerStays DEF QInv
    <2> QED
      BY <2>2, <2>4, <2>8, <2>9 DEF QInv
  <1> QED
    BY <1>9, <1>10

\* Retention, the clock and a crash: no request moves on.
LEMMA WorldStep ==
    ASSUME QInv, table' \subseteq table, UNCHANGED <<nextId, hreq, hkey, hids, ever, answers>>,
           hpc' = hpc \/ hpc' = [h \in Handlers |-> "idle"],
           faults' \in Nat, faults > 0 => faults' > 0
    PROVE  QInv'
  <1>1. Shape'
    BY DEF QInv, Shape
  <1>2. TableInv'
    BY DEF QInv, TableInv
  <1>3. ASSUME NEW h \in Handlers PROVE HandlerOk(h)'
    <2>1. CASE hpc' = hpc
      BY <2>1, HandlerStays DEF QInv
    <2>2. CASE hpc' = [g \in Handlers |-> "idle"]
      BY <2>2 DEF HandlerOk
    <2> QED
      BY <2>1, <2>2
  <1>4. \A a \in answers' : AnswerOk(a)'
    BY AnswerStays DEF QInv
  <1> QED
    BY <1>1, <1>2, <1>3, <1>4 DEF QInv

-----------------------------------------------------------------------------
(* The theorems.                                                           *)

\* What the database, the requests in progress and the answers given know of
\* each other, at every step of any number of overlapping requests.
THEOREM IntakeInvariance == Spec => []QInv
  <1>1. Init => QInv
    BY IntakeAssumption DEF Init, QInv, Shape, TableInv, HandlerOk
  <1>2. QInv /\ [Next]_vars => QInv'
    <2> SUFFICES ASSUME QInv, [Next]_vars PROVE QInv'
      OBVIOUS
    <2>0. faults \in Nat
      BY DEF QInv, Shape
    <2>1. ASSUME NEW h \in Handlers, NEW q \in Requests, Post(h, q) PROVE QInv'
      BY <2>1, PostStep
    <2>2. ASSUME NEW h \in Handlers, Reject(h) PROVE QInv'
      BY <2>0, <2>2, AnswerStep DEF Reject
    <2>3. ASSUME NEW h \in Handlers, Replay(h) PROVE QInv'
      BY <2>3, FindStep DEF Replay
    <2>4. ASSUME NEW h \in Handlers, Miss(h) PROVE QInv'
      BY <2>4, MissStep
    <2>5. ASSUME NEW h \in Handlers, Insert(h) PROVE QInv'
      BY <2>5, InsertStep
    <2>6. ASSUME NEW h \in Handlers, Lose(h) PROVE QInv'
      BY <2>6, FindStep DEF Lose
    <2>7. ASSUME NEW h \in Handlers, Reraise(h) PROVE QInv'
      <3>1. HandlerOk(h)
        BY DEF QInv
      <3>2. Truthy(hkey[h]) => WasPruned(hreq[h].service, hkey[h])
        BY <2>7, <3>1 DEF Reraise, HandlerOk, WasPruned, Matching
      <3> QED
        BY <2>0, <2>7, <3>2, AnswerStep DEF Reraise
    <2>8. ASSUME NEW h \in Handlers, Accept(h) PROVE QInv'
      BY <2>0, <2>8, AnswerStep DEF Accept
    <2>9. ASSUME NEW h \in Handlers, Locked(h) PROVE QInv'
      <3>1. faults' = faults + 1 /\ faults' \in Nat /\ faults' > 0
        BY <2>0, <2>9 DEF Locked, Fault
      <3> QED
        BY <2>9, <3>1, AnswerStep DEF Locked
    <2>10. ASSUME NEW r \in table, Prune(r) PROVE QInv'
      BY <2>0, <2>10, WorldStep DEF Prune
    <2>11. CASE Tick
      BY <2>0, <2>11, WorldStep DEF Tick
    <2>12. CASE Kill
      <3>1. faults' \in Nat /\ faults' > 0
        BY <2>0, <2>12 DEF Kill, Fault
      <3> QED
        BY <2>12, <3>1, WorldStep DEF Kill
    <2>13. CASE UNCHANGED vars
      BY <2>0, <2>13, WorldStep DEF vars
    <2> QED
      BY <2>1, <2>2, <2>3, <2>4, <2>5, <2>6, <2>7, <2>8, <2>9, <2>10, <2>11, <2>12, <2>13 DEF Next
  <1> QED
    BY <1>1, <1>2, PTL DEF Spec

\* models.py's promise for keys: two answers to one key name one message, or
\* one of the two has been pruned.
THEOREM ReplaysNamed == Spec => []ReplaysNameTheOriginal
  <1>1. QInv => ReplaysNameTheOriginal
    <2> SUFFICES ASSUME QInv, NEW a \in Accepted, NEW b \in Accepted,
                        Truthy(a.key), a.key = b.key, a.req.service = b.req.service
                 PROVE  a.ids = b.ids \/ (a.ids \cup b.ids) \cap Pruned # {}
      BY DEF ReplaysNameTheOriginal
    <2>1. AnswerOk(a) /\ AnswerOk(b) /\ a.code = 202 /\ b.code = 202
      BY DEF QInv, Accepted
    <2>2. PICK i : a.ids = {i} /\ Holds(i, a.req.service, a.key)
      BY <2>1 DEF AnswerOk
    <2>3. PICK j : b.ids = {j} /\ Holds(j, b.req.service, b.key)
      BY <2>1 DEF AnswerOk
    <2>4. PICK r \in ever : r.id = i /\ r.service = a.req.service /\ r.key = a.key
      BY <2>2 DEF Holds
    <2>5. PICK s \in ever : s.id = j /\ s.service = b.req.service /\ s.key = b.key
      BY <2>3 DEF Holds
    <2>6. a.key # NoKey
      BY TruthyIsAKey
    <2>7. CASE r \in table /\ s \in table
      <3>1. r = s
        BY <2>4, <2>5, <2>6, <2>7 DEF QInv, TableInv
      <3> QED
        BY <2>2, <2>3, <2>4, <2>5, <3>1
    <2>8. CASE r \notin table \/ s \notin table
      BY <2>2, <2>3, <2>4, <2>5, <2>8 DEF Pruned, Ids
    <2> QED
      BY <2>7, <2>8
  <1> QED
    BY <1>1, IntakeInvariance, PTL

\* 202 means committed: whatever races, crashes or is pruned.
THEOREM AnswersDurable == Spec => []AnswersAreDurable
  <1>1. QInv => AnswersAreDurable
    <2> SUFFICES ASSUME QInv, NEW a \in Accepted, NEW i \in a.ids
                 PROVE  \E r \in ever : r.id = i /\ r.service = a.req.service /\ r.key = a.key
      BY DEF AnswersAreDurable
    <2>1. AnswerOk(a) /\ a.code = 202
      BY DEF QInv, Accepted
    <2> QED
      BY <2>1 DEF AnswerOk, Holds
  <1> QED
    BY <1>1, IntakeInvariance, PTL

\* The loser of a race finds the winner, unless retention was quicker.
THEOREM ErrorsExcused == Spec => []ServerErrorsAreExcused
  <1>1. QInv => ServerErrorsAreExcused
    BY DEF QInv, AnswerOk, WasPruned, ServerErrorsAreExcused
  <1> QED
    BY <1>1, IntakeInvariance, PTL

-----------------------------------------------------------------------------
(* Reminders.                                                              *)

\* An alert's reminder and a request's key, at a time.
ReminderAt(a, t) == IF a.firing /\ t > a.starts THEN (t - a.starts) \div Period ELSE 0
KeyAt(q, t) == [text |-> q.key, group |-> {<<a, ReminderAt(a, t)>> : a \in q.alerts}]

\* Every key in use, and every row's, is that of a request at some time past.
KeyInv ==
    /\ now \in 0..MaxTime
    /\ hkey \in [Handlers -> {KeyAt(q, t) : q \in Requests, t \in 0..now} \cup {NoKey}]
    /\ \A h \in Handlers : hpc[h] # "idle" =>
          hreq[h] \in Requests /\ \E t \in 0..now : hkey[h] = KeyAt(hreq[h], t)
    /\ \A r \in ever : \E q \in Requests, t \in 0..now :
          r.service = q.service /\ r.key = KeyAt(q, t)

LEMMA DivMonotone ==
    ASSUME NEW m \in Nat, NEW n \in Nat, m <= n, NEW k \in Nat \ {0}
    PROVE  m \div k \in Nat /\ m \div k <= n \div k /\ m \div k <= m
  <1>1. m \div k \in Nat
    OBVIOUS
  <1>2. m \div k <= n \div k
    OBVIOUS
  <1>3. m \div k <= m
    OBVIOUS
  <1> QED
    BY <1>1, <1>2, <1>3

\* Reminders are numbered on, and there are no more of them than ticks.
LEMMA RemindersGrow ==
    ASSUME NEW a, a.starts \in Nat, NEW t \in Nat, NEW u \in Nat, t <= u
    PROVE  ReminderAt(a, t) \in 0..t /\ ReminderAt(a, t) <= ReminderAt(a, u)
  <1>0. Period \in Nat \ {0}
    BY IntakeAssumption
  <1>1. CASE a.firing /\ t > a.starts
    <2> DEFINE m == t - a.starts
               n == u - a.starts
    <2>1. m \in Nat /\ n \in Nat /\ m <= n /\ m <= t
      BY <1>1
    <2>2. ReminderAt(a, t) = m \div Period /\ ReminderAt(a, u) = n \div Period
      BY <1>1 DEF ReminderAt
    <2> HIDE DEF m, n
    <2>3. m \div Period \in Nat /\ m \div Period <= n \div Period /\ m \div Period <= m
      BY <1>0, <2>1, DivMonotone
    <2> QED
      BY <2>1, <2>2, <2>3
  <1>2. CASE ~(a.firing /\ t > a.starts)
    <2>1. ReminderAt(a, t) = 0
      BY <1>2 DEF ReminderAt
    <2>2. ReminderAt(a, u) \in Nat
      <3>1. CASE a.firing /\ u > a.starts
        <4>1. u - a.starts \in Nat
          BY <3>1
        <4>2. (u - a.starts) \div Period \in Nat
          BY <1>0, <4>1, DivMonotone
        <4> QED
          BY <3>1, <4>2 DEF ReminderAt
      <3>2. CASE ~(a.firing /\ u > a.starts)
        BY <3>2 DEF ReminderAt
      <3> QED
        BY <3>1, <3>2
    <2> QED
      BY <2>1, <2>2
  <1> QED
    BY <1>1, <1>2

LEMMA KeyNow == \A q : KeyOf(q) = KeyAt(q, now)
  BY DEF KeyOf, KeyAt, Reminder, ReminderAt

\* What was a key stays one.
LEMMA KeysStay ==
    ASSUME KeyInv, now' \in 0..MaxTime, now' >= now, UNCHANGED <<hkey, hreq, ever>>,
           \A h \in Handlers : hpc'[h] # "idle" => hpc[h] # "idle"
    PROVE  KeyInv'
  <1>1. 0..now \subseteq 0..now'
    BY IntakeAssumption DEF KeyInv
  <1>2. hkey' \in [Handlers -> {KeyAt(q, t) : q \in Requests, t \in 0..now'} \cup {NoKey}]
    BY <1>1 DEF KeyInv
  <1>3. \A h \in Handlers : hpc'[h] # "idle" =>
          hreq'[h] \in Requests /\ \E t \in 0..now' : hkey'[h] = KeyAt(hreq[h], t)
    BY <1>1 DEF KeyInv
  <1>4. \A r \in ever' : \E q \in Requests, t \in 0..now' :
          r.service = q.service /\ r.key = KeyAt(q, t)
    BY <1>1 DEF KeyInv
  <1> QED
    BY <1>2, <1>3, <1>4 DEF KeyInv, KeyAt, ReminderAt

\* A request takes the key of its moment and keeps it to the end.
LEMMA KeyStep ==
    ASSUME KeyInv, QInv, [Next]_vars
    PROVE  KeyInv'
  <1>0. now \in 0..MaxTime /\ now \in Nat /\ MaxTime \in Nat /\ now <= now
    BY IntakeAssumption DEF KeyInv
  <1>1. ASSUME NEW h \in Handlers, NEW q \in Requests, Post(h, q) PROVE KeyInv'
    <2>1. /\ hreq' = [hreq EXCEPT ![h] = q] /\ hkey' = [hkey EXCEPT ![h] = KeyAt(q, now)]
          /\ hpc' = [hpc EXCEPT ![h] = "lookup"] /\ UNCHANGED <<now, ever>>
      BY <1>1, KeyNow DEF Post, Goto
    <2>2. now \in 0..now
      BY <1>0
    <2>3. KeyAt(q, now) \in {KeyAt(p, t) : p \in Requests, t \in 0..now}
      BY <2>2
    <2>4. hkey' \in [Handlers -> {KeyAt(p, t) : p \in Requests, t \in 0..now'} \cup {NoKey}]
      BY <2>1, <2>3 DEF KeyInv
    <2>5. ASSUME NEW g \in Handlers, hpc'[g] # "idle"
          PROVE  hreq'[g] \in Requests /\ \E t \in 0..now : hkey'[g] = KeyAt(hreq'[g], t)
      <3>1. CASE g = h
        <4>1. hreq'[h] = q /\ hkey'[h] = KeyAt(q, now)
          BY <2>1 DEF QInv, Shape
        <4> QED
          BY <2>2, <3>1, <4>1
      <3>2. CASE g # h
        <4>1. hreq'[g] = hreq[g] /\ hkey'[g] = hkey[g] /\ hpc'[g] = hpc[g]
          BY <2>1, <3>2 DEF QInv, Shape
        <4> QED
          BY <2>5, <4>1 DEF KeyInv
      <3> QED
        BY <3>1, <3>2
    <2>6. \A g \in Handlers : hpc'[g] # "idle" =>
             hreq'[g] \in Requests /\ \E t \in 0..now' : hkey'[g] = KeyAt(hreq'[g], t)
      BY <2>1, <2>5
    <2>7. now' \in 0..MaxTime /\ \A r \in ever' : \E p \in Requests, t \in 0..now' :
             r.service = p.service /\ r.key = KeyAt(p, t)
      BY <2>1 DEF KeyInv
    <2> QED
      BY <2>4, <2>6, <2>7 DEF KeyInv
  <1>2. ASSUME NEW h \in Handlers, Insert(h) PROVE KeyInv'
    <2>1. PICK ids : ever' \subseteq ever \cup {[id |-> i, service |-> hreq[h].service, key |-> hkey[h]] : i \in ids}
      BY <1>2 DEF Insert
    <2>2. hpc[h] = "insert" /\ UNCHANGED <<now, hreq, hkey>>
      BY <1>2 DEF Insert
    <2>3. \A g \in Handlers : hpc'[g] # "idle" => hpc[g] # "idle"
      BY <1>2, <2>2 DEF Insert, Goto, QInv, Shape
    <2>4. hreq[h] \in Requests /\ \E t \in 0..now : hkey[h] = KeyAt(hreq[h], t)
      BY <2>2 DEF KeyInv
    <2>5. \A r \in ever' : \E q \in Requests, t \in 0..now :
             r.service = q.service /\ r.key = KeyAt(q, t)
      <3> SUFFICES ASSUME NEW r \in ever'
                   PROVE  \E q \in Requests, t \in 0..now : r.service = q.service /\ r.key = KeyAt(q, t)
        OBVIOUS
      <3>1. CASE r \in ever
        BY <3>1 DEF KeyInv
      <3>2. CASE r \notin ever
        <4>1. r.service = hreq[h].service /\ r.key = hkey[h]
          BY <2>1, <3>2
        <4> QED
          BY <2>4, <4>1
      <3> QED
        BY <3>1, <3>2
    <2>6. \A g \in Handlers : hpc'[g] # "idle" =>
             hreq[g] \in Requests /\ \E t \in 0..now : hkey[g] = KeyAt(hreq[g], t)
      BY <2>3 DEF KeyInv
    <2>7. /\ now' \in 0..MaxTime
          /\ hkey' \in [Handlers -> {KeyAt(q, t) : q \in Requests, t \in 0..now'} \cup {NoKey}]
      BY <2>2 DEF KeyInv
    <2>8. \A g \in Handlers : hpc'[g] # "idle" =>
             hreq'[g] \in Requests /\ \E t \in 0..now' : hkey'[g] = KeyAt(hreq'[g], t)
      BY <2>2, <2>6
    <2>9. \A r \in ever' : \E q \in Requests, t \in 0..now' :
             r.service = q.service /\ r.key = KeyAt(q, t)
      BY <2>2, <2>5
    <2> QED
      BY <2>7, <2>8, <2>9 DEF KeyInv
  <1>3. ASSUME NEW h \in Handlers,
               Reject(h) \/ Replay(h) \/ Miss(h) \/ Lose(h) \/ Reraise(h) \/ Accept(h) \/ Locked(h)
        PROVE  KeyInv'
    <2>1. UNCHANGED <<now, hreq, hkey, ever>> /\ hpc[h] # "idle"
      BY <1>3 DEF Reject, Replay, Miss, Lose, Reraise, Accept, Locked
    <2>2. \A g \in Handlers : hpc'[g] # "idle" => hpc[g] # "idle"
      BY <1>3, <2>1 DEF Reject, Replay, Miss, Lose, Reraise, Accept, Locked, Goto, QInv, Shape
    <2> QED
      BY <1>0, <2>1, <2>2, KeysStay
  <1>4. ASSUME NEW r \in table, Prune(r) PROVE KeyInv'
    BY <1>0, <1>4, KeysStay DEF Prune
  <1>5. CASE Tick
    <2>1. now' = now + 1 /\ now < MaxTime /\ UNCHANGED <<hpc, hreq, hkey, ever>>
      BY <1>5 DEF Tick
    <2>2. now' \in 0..MaxTime /\ now' >= now
      BY <1>0, <2>1
    <2> QED
      BY <2>1, <2>2, KeysStay
  <1>6. CASE Kill
    <2>1. \A g \in Handlers : hpc'[g] # "idle" => hpc[g] # "idle"
      BY <1>6 DEF Kill
    <2> QED
      BY <1>0, <1>6, <2>1, KeysStay DEF Kill
  <1>7. CASE UNCHANGED vars
    BY <1>0, <1>7, KeysStay DEF vars
  <1> QED
    BY <1>1, <1>2, <1>3, <1>4, <1>5, <1>6, <1>7 DEF Next

\* Keys are of requests, each of a time past.
THEOREM KeysInvariance == Spec => []KeyInv
  <1>1. Init => KeyInv
    BY IntakeAssumption DEF Init, KeyInv
  <1> QED
    BY <1>1, KeyStep, IntakeInvariance, PTL DEF Spec

\* What a group has been reminded of by a time: its alerts with the reminders
\* that were due.
Past(q, t) == UNION {{a} \X (1..ReminderAt(a, t)) : a \in q.alerts}

LEMMA PastFinite ==
    ASSUME NEW q \in Requests, NEW t \in Nat
    PROVE  IsFiniteSet(Past(q, t)) /\ Cardinality(Past(q, t)) \in Nat
  <1> DEFINE f == [a \in q.alerts |-> {a} \X (1..ReminderAt(a, t))]
             F == {{a} \X (1..ReminderAt(a, t)) : a \in q.alerts}
  <1>1. f \in Surjection(q.alerts, F)
    BY DEF Surjection
  <1>2. IsFiniteSet(q.alerts)
    BY IntakeAssumption
  <1>3. IsFiniteSet(F)
    BY <1>1, <1>2, FS_Surjection
  <1>4. ASSUME NEW a \in q.alerts PROVE IsFiniteSet({a} \X (1..ReminderAt(a, t)))
    <2>1. a.starts \in Nat
      BY IntakeAssumption
    <2>2. ReminderAt(a, t) \in Int
      BY <2>1, RemindersGrow
    <2>3. IsFiniteSet({a})
      BY FS_Singleton
    <2>4. IsFiniteSet(1..ReminderAt(a, t))
      BY <2>2, FS_Interval
    <2> QED
      BY <2>3, <2>4, FS_Product
  <1>5. IsFiniteSet(UNION F)
    BY <1>3, <1>4, FS_UNION
  <1> QED
    BY <1>5, FS_CardinalityType DEF Past

LEMMA PastGrows ==
    ASSUME NEW q \in Requests, NEW t \in Nat, NEW u \in Nat, t <= u
    PROVE  Past(q, t) \subseteq Past(q, u)
  <1> SUFFICES ASSUME NEW a \in q.alerts, NEW n \in 1..ReminderAt(a, t)
               PROVE  n \in 1..ReminderAt(a, u)
    BY DEF Past
  <1>1. a.starts \in Nat
    BY IntakeAssumption
  <1>2. ReminderAt(a, t) \in Nat /\ ReminderAt(a, t) <= ReminderAt(a, u) /\ ReminderAt(a, u) \in Nat
    BY <1>1, RemindersGrow
  <1> QED
    BY <1>2

\* As many reminders of each alert make the same key.
LEMMA PastTells ==
    ASSUME NEW q \in Requests, NEW t \in Nat, NEW u \in Nat, Past(q, t) = Past(q, u)
    PROVE  KeyAt(q, t) = KeyAt(q, u)
  <1>1. ASSUME NEW a \in q.alerts PROVE ReminderAt(a, t) = ReminderAt(a, u)
    <2>1. a.starts \in Nat
      BY IntakeAssumption
    <2>2. ReminderAt(a, t) \in Nat /\ ReminderAt(a, u) \in Nat
      BY <2>1, RemindersGrow
    <2>3. \A n : <<a, n>> \in Past(q, t) <=> n \in 1..ReminderAt(a, t)
      BY DEF Past
    <2>4. \A n : <<a, n>> \in Past(q, u) <=> n \in 1..ReminderAt(a, u)
      BY DEF Past
    <2>5. \A n : n \in 1..ReminderAt(a, t) <=> n \in 1..ReminderAt(a, u)
      BY <2>3, <2>4
    <2>6. ReminderAt(a, t) <= ReminderAt(a, u)
      BY <2>2, <2>5
    <2>7. ReminderAt(a, u) <= ReminderAt(a, t)
      BY <2>2, <2>5
    <2> QED
      BY <2>2, <2>6, <2>7
  <1> QED
    BY <1>1 DEF KeyAt

\* However often and however long Grafana repeats a group, overlapping or not,
\* it is texted once and once more per reminder that has come due: the rows of
\* a group have keys of different times, and each has more of them behind it.
THEOREM Paced == Spec => []RemindersArePaced
  <1>1. QInv /\ KeyInv => RemindersArePaced
    <2> SUFFICES ASSUME QInv, KeyInv, NEW q \in Requests, q.alerts # {}
                 PROVE  Cardinality({r \in table : AlertsOf(r) = q.alerts})
                           <= 1 + Cardinality(UNION {{a} \X (1..Reminder(a)) : a \in q.alerts})
      BY DEF RemindersArePaced
    <2> DEFINE R == {r \in table : AlertsOf(r) = q.alerts}
               N == Cardinality(Past(q, now))
               time == [r \in R |-> CHOOSE t \in 0..now : r.key = KeyAt(q, t)]
               f == [r \in R |-> Cardinality(Past(q, time[r]))]
    <2>0. now \in Nat
      BY IntakeAssumption DEF KeyInv
    <2>1. Past(q, now) = UNION {{a} \X (1..Reminder(a)) : a \in q.alerts}
      BY DEF Past, Reminder, ReminderAt
    <2>2. ASSUME NEW r \in R
          PROVE  /\ r.service = q.service /\ r.key # NoKey
                 /\ time[r] \in 0..now /\ r.key = KeyAt(q, time[r])
      <3>1. PICK p \in Requests, t \in 0..now : r.service = p.service /\ r.key = KeyAt(p, t)
        BY <2>2 DEF QInv, TableInv, KeyInv
      <3>1a. r.key.group = {<<a, ReminderAt(a, t)>> : a \in p.alerts}
        BY <3>1 DEF KeyAt
      <3>1b. ASSUME NEW a \in p.alerts PROVE a \in AlertsOf(r)
        <4>1. <<a, ReminderAt(a, t)>> \in r.key.group
          BY <3>1a
        <4>2. <<a, ReminderAt(a, t)>>[1] \in AlertsOf(r)
          BY <4>1 DEF AlertsOf
        <4> QED
          BY <4>2
      <3>1c. ASSUME NEW a \in AlertsOf(r) PROVE a \in p.alerts
        <4>1. PICK pair \in r.key.group : a = pair[1]
          BY DEF AlertsOf
        <4> QED
          BY <3>1a, <4>1
      <3>2. AlertsOf(r) = p.alerts
        BY <3>1b, <3>1c
      <3>3. p.alerts = q.alerts
        BY <3>2
      <3>4. p.service = q.service /\ p.key = q.key
        BY <3>3, IntakeAssumption
      <3>5. r.key = KeyAt(q, t)
        BY <3>1, <3>3, <3>4 DEF KeyAt
      <3>6. r.key.group # {}
        BY <3>1a, <3>3
      <3>7. r.key # NoKey
        BY <3>6 DEF NoKey
      <3> QED
        BY <3>1, <3>4, <3>5, <3>7
    <2> HIDE DEF time
    <2>3. ASSUME NEW r \in R PROVE f[r] \in 0..N
      <3>1. time[r] \in Nat /\ time[r] <= now
        BY <2>0, <2>2
      <3>2. Past(q, time[r]) \subseteq Past(q, now)
        BY <2>0, <3>1, PastGrows
      <3>3. Cardinality(Past(q, time[r])) <= N /\ Cardinality(Past(q, time[r])) \in Nat /\ N \in Nat
        BY <2>0, <3>1, <3>2, PastFinite, FS_Subset
      <3> QED
        BY <3>3
    <2>4. ASSUME NEW r \in R, NEW s \in R, f[r] = f[s], time[r] <= time[s]
          PROVE  r = s
      <3>1. time[r] \in Nat /\ time[s] \in Nat
        BY <2>0, <2>2
      <3>2. Past(q, time[r]) \subseteq Past(q, time[s])
        BY <2>4, <3>1, PastGrows
      <3>3. Past(q, time[r]) = Past(q, time[s])
        BY <2>4, <3>1, <3>2, PastFinite, FS_Subset
      <3>4. r.key = s.key
        BY <2>2, <3>1, <3>3, PastTells
      <3> QED
        BY <2>2, <3>4 DEF QInv, TableInv
    <2>5. f \in Injection(R, 0..N)
      <3>1. f \in [R -> 0..N]
        BY <2>3
      <3>2. ASSUME NEW r \in R, NEW s \in R, f[r] = f[s] PROVE r = s
        <4>1. time[r] \in Nat /\ time[s] \in Nat
          BY <2>0, <2>2
        <4>2. CASE time[r] <= time[s]
          BY <2>4, <3>2, <4>2
        <4>3. CASE time[s] <= time[r]
          BY <2>4, <3>2, <4>3
        <4> QED
          BY <4>1, <4>2, <4>3
      <3> QED
        BY <3>1, <3>2 DEF Injection, IsInjective
    <2>6. N \in Nat
      BY <2>0, PastFinite
    <2>7. IsFiniteSet(0..N) /\ Cardinality(0..N) = N + 1
      BY <2>6, FS_Interval
    <2>8. Cardinality(R) <= N + 1
      BY <2>5, <2>7, FS_Injection
    <2>9. Cardinality(R) \in Nat
      BY <2>5, <2>7, FS_Injection, FS_CardinalityType
    <2> HIDE DEF R, N
    <2>10. Cardinality(R) <= 1 + N
      BY <2>6, <2>8, <2>9
    <2> QED
      BY <2>1, <2>10 DEF R, N
  <1> QED
    BY <1>1, IntakeInvariance, KeysInvariance, PTL

-----------------------------------------------------------------------------
(* Types, and the ids that are left.                                       *)

\* The rows that the requests in H will commit, were they all to.
RowsOf(H) == UNION {{h} \X (1..hreq[h].to) : h \in H}

\* The requests that may still commit.
Writers == {h \in Handlers : hpc[h] \in {"lookup", "insert"}}

\* There is an id for every row that a request in progress may commit.
TypeInv ==
    /\ TypeOK
    /\ nextId + Cardinality(RowsOf(Writers)) <= MaxRows + 1

LEMMA RowsFinite ==
    ASSUME NEW H \in SUBSET Handlers, hreq \in [Handlers -> Requests]
    PROVE  IsFiniteSet(RowsOf(H)) /\ Cardinality(RowsOf(H)) \in Nat
  <1> DEFINE f == [h \in H |-> {h} \X (1..hreq[h].to)]
             F == {{h} \X (1..hreq[h].to) : h \in H}
  <1>1. f \in Surjection(H, F)
    BY DEF Surjection
  <1>2. IsFiniteSet(Handlers)
    BY IntakeAssumption
  <1>3. IsFiniteSet(H)
    BY <1>2, FS_Subset
  <1>4. IsFiniteSet(F)
    BY <1>1, <1>3, FS_Surjection
  <1>5. ASSUME NEW h \in H PROVE IsFiniteSet({h} \X (1..hreq[h].to))
    <2>1. hreq[h].to \in Int
      <3>1. hreq[h] \in Requests
        OBVIOUS
      <3>2. hreq[h].to \in Nat \ {0}
        BY <3>1, IntakeAssumption
      <3> QED
        BY <3>2
    <2>2. IsFiniteSet({h})
      BY FS_Singleton
    <2>3. IsFiniteSet(1..hreq[h].to)
      BY <2>1, FS_Interval
    <2> QED
      BY <2>2, <2>3, FS_Product
  <1>6. IsFiniteSet(UNION F)
    BY <1>4, <1>5, FS_UNION
  <1> QED
    BY <1>6, FS_CardinalityType DEF RowsOf

\* The rows of one request.
LEMMA RowsOfOne ==
    ASSUME NEW h, NEW n \in Nat
    PROVE  IsFiniteSet({h} \X (1..n)) /\ Cardinality({h} \X (1..n)) = n
  <1>1. IsFiniteSet({h}) /\ Cardinality({h}) = 1
    BY FS_Singleton
  <1>2. IsFiniteSet(1..n) /\ Cardinality(1..n) = IF 1 > n THEN 0 ELSE n - 1 + 1
    BY FS_Interval
  <1>3. IsFiniteSet({h} \X (1..n))
        /\ Cardinality({h} \X (1..n)) = Cardinality({h}) * Cardinality(1..n)
    BY <1>1, <1>2, FS_Product
  <1>4. Cardinality(1..n) = n
    BY <1>2
  <1> QED
    BY <1>1, <1>3, <1>4

\* Keys are typed.
LEMMA KeysAreKeys == KeyInv => hkey \in [Handlers -> Key]
  <1> SUFFICES ASSUME KeyInv PROVE hkey \in [Handlers -> Key]
    OBVIOUS
  <1>1. now \in Nat /\ 0..now \subseteq 0..MaxTime
    BY IntakeAssumption DEF KeyInv
  <1>2. ASSUME NEW q \in Requests, NEW t \in 0..now PROVE KeyAt(q, t) \in Key
    <2>1. ASSUME NEW a \in q.alerts PROVE ReminderAt(a, t) \in 0..MaxTime
      <3>1. a.starts \in Nat /\ t \in Nat /\ t <= t
        BY <1>1, IntakeAssumption
      <3>2. ReminderAt(a, t) \in 0..t
        BY <3>1, RemindersGrow
      <3> QED
        BY <1>1, <3>1, <3>2, IntakeAssumption
    <2>2. {<<a, ReminderAt(a, t)>> : a \in q.alerts}
            \subseteq (UNION {p.alerts : p \in Requests}) \X (0..MaxTime)
      BY <2>1
    <2> QED
      BY <2>2 DEF KeyAt, Key
  <1>3. NoKey \in Key
    BY DEF NoKey, Key
  <1> QED
    BY <1>2, <1>3 DEF KeyInv

\* What moves on without committing leaves the ids that are left to others.
LEMMA IdsLeft ==
    ASSUME TypeInv, hreq' = hreq, nextId' = nextId, Writers' \subseteq Writers
    PROVE  nextId' + Cardinality(RowsOf(Writers))' <= MaxRows + 1
  <1>1. hreq \in [Handlers -> Requests] /\ nextId \in Nat /\ MaxRows \in Nat
    BY IntakeAssumption DEF TypeInv, TypeOK
  <1>2. RowsOf(Writers)' = RowsOf(Writers')
    BY DEF RowsOf
  <1>3. RowsOf(Writers') \subseteq RowsOf(Writers)
    BY DEF RowsOf
  <1>4. Writers \in SUBSET Handlers
    BY DEF Writers
  <1>5. IsFiniteSet(RowsOf(Writers)) /\ Cardinality(RowsOf(Writers)) \in Nat
    BY <1>1, <1>4, RowsFinite
  <1>6. /\ Cardinality(RowsOf(Writers')) <= Cardinality(RowsOf(Writers))
        /\ Cardinality(RowsOf(Writers')) \in Nat
    BY <1>3, <1>5, FS_Subset, FS_CardinalityType
  <1> QED
    BY <1>1, <1>2, <1>5, <1>6 DEF TypeInv

\* A request that arrives finds an id for each of its rows.
LEMMA PostTypes ==
    ASSUME TypeInv, KeyInv', NEW h \in Handlers, NEW q \in Requests, Post(h, q)
    PROVE  TypeInv'
  <1> DEFINE own == {h} \X (1..q.to)
             left == RowsOf(Writers)
             all == RowsOf({g \in Handlers : hpc[g] # "idle"})
  <1>1. /\ hpc[h] = "idle" /\ nextId + q.to + Reserved <= MaxRows + 1
        /\ hreq' = [hreq EXCEPT ![h] = q] /\ hpc' = [hpc EXCEPT ![h] = "lookup"]
        /\ UNCHANGED <<table, nextId, now, hids, ever, answers, faults>>
    BY DEF Post, Goto
  <1>2. /\ hreq \in [Handlers -> Requests] /\ nextId \in Nat /\ MaxRows \in Nat
        /\ hpc \in [Handlers -> {"idle", "lookup", "insert", "conflict", "answer"}]
    BY IntakeAssumption DEF TypeInv, TypeOK
  <1>3. q.to \in Nat
    <2>1. q.to \in Nat \ {0}
      BY IntakeAssumption
    <2> QED
      BY <2>1
  <1>4. RowsOf(Writers)' = left \cup own
    <2>1. Writers' = Writers \cup {h} /\ h \notin Writers
      BY <1>1, <1>2 DEF Writers
    <2>2. \A g \in Writers : hreq'[g] = hreq[g]
      BY <1>1, <1>2, <2>1 DEF Writers
    <2>3. hreq'[h] = q
      BY <1>1, <1>2
    <2> QED
      BY <2>1, <2>2, <2>3 DEF RowsOf
  <1>5. left \subseteq all
    BY DEF RowsOf, Writers
  <1>6. Reserved = Cardinality(all)
    BY DEF Reserved, RowsOf
  <1>7. IsFiniteSet(all) /\ Cardinality(all) \in Nat
    BY <1>2, RowsFinite
  <1>8. IsFiniteSet(own) /\ Cardinality(own) = q.to
    BY <1>3, RowsOfOne
  <1> HIDE DEF own, left, all
  <1>9. IsFiniteSet(left) /\ Cardinality(left) <= Cardinality(all) /\ Cardinality(left) \in Nat
    BY <1>5, <1>7, FS_Subset, FS_CardinalityType
  <1>10. Cardinality(left \cup own) =
            Cardinality(left) + Cardinality(own) - Cardinality(left \cap own)
    BY <1>8, <1>9, FS_Union
  <1>11. Cardinality(left \cap own) \in Nat
    BY <1>8, FS_Intersection, FS_CardinalityType
  <1>12. nextId' + Cardinality(RowsOf(Writers))' <= MaxRows + 1
    <2>1. nextId + Cardinality(left \cup own) <= MaxRows + 1
      BY <1>1, <1>2, <1>3, <1>6, <1>7, <1>8, <1>9, <1>10, <1>11
    <2> QED
      BY <1>1, <1>4, <2>1
  <1>13. hreq' \in [Handlers -> Requests]
         /\ hpc' \in [Handlers -> {"idle", "lookup", "insert", "conflict", "answer"}]
    BY <1>1, <1>2
  <1>14. hkey' \in [Handlers -> Key]
    <2>1. (hkey \in [Handlers -> Key])'
      BY KeyInv', KeysAreKeys, PTL
    <2> QED
      BY <2>1 DEF Key
  <1> QED
    BY <1>1, <1>12, <1>13, <1>14 DEF TypeInv, TypeOK

\* A commit takes the ids that were left for it.
LEMMA InsertTypes ==
    ASSUME TypeInv, NEW h \in Handlers, Insert(h)
    PROVE  TypeInv'
  <1> DEFINE q == hreq[h]
             ids == nextId..nextId + q.to - 1
             new == {[id |-> i, service |-> q.service, key |-> hkey[h]] : i \in ids}
             own == {h} \X (1..q.to)
             others == RowsOf(Writers \ {h})
  <1>1. /\ hpc[h] = "insert" /\ hids' = [hids EXCEPT ![h] = ids] /\ nextId' = nextId + q.to
        /\ UNCHANGED <<now, hreq, hkey, answers, faults>>
    BY DEF Insert
  <1>2. /\ hreq \in [Handlers -> Requests] /\ nextId \in Nat /\ nextId >= 1 /\ MaxRows \in Nat
        /\ hpc \in [Handlers -> {"idle", "lookup", "insert", "conflict", "answer"}]
        /\ hids \in [Handlers -> SUBSET (1..MaxRows)] /\ hkey \in [Handlers -> Key]
    BY IntakeAssumption DEF TypeInv, TypeOK
  <1>3. q \in Requests /\ q.to \in Nat
    <2>1. q.to \in Nat \ {0}
      BY <1>2, IntakeAssumption
    <2> QED
      BY <1>2, <2>1
  <1>4. h \in Writers
    BY <1>1 DEF Writers
  <1>5. RowsOf(Writers) = others \cup own /\ others \cap own = {}
    BY <1>4 DEF RowsOf
  <1>6. IsFiniteSet(own) /\ Cardinality(own) = q.to
    BY <1>3, RowsOfOne
  <1>7. IsFiniteSet(others) /\ Cardinality(others) \in Nat
    BY <1>2, RowsFinite DEF Writers
  <1>8. Writers' = Writers \ {h}
    BY <1>1, <1>2 DEF Insert, Goto, Writers
  <1>9. RowsOf(Writers)' = others
    BY <1>1, <1>8 DEF RowsOf
  <1>10. nextId + q.to + Cardinality(others) <= MaxRows + 1
    <2> HIDE DEF own, others, q
    <2>1. Cardinality(others \cup own) =
             Cardinality(others) + Cardinality(own) - Cardinality({})
      BY <1>5, <1>6, <1>7, FS_Union
    <2>2. Cardinality({}) = 0
      BY FS_EmptySet
    <2>3. nextId + Cardinality(others \cup own) <= MaxRows + 1
      BY <1>5 DEF TypeInv
    <2> QED
      BY <1>2, <1>3, <1>6, <1>7, <2>1, <2>2, <2>3
  <1>11. nextId' + Cardinality(RowsOf(Writers))' <= MaxRows + 1
    BY <1>1, <1>9, <1>10
  <1>12. ids \subseteq 1..MaxRows
    <2> HIDE DEF others, q
    <2> QED
      BY <1>2, <1>3, <1>7, <1>10
  <1>13. nextId' \in 1..MaxRows + 1
    <2> HIDE DEF others, q
    <2> QED
      BY <1>1, <1>2, <1>3, <1>7, <1>10
  <1>14. new \subseteq Row
    <2>1. hkey[h] \in Key /\ q.service \in {p.service : p \in Requests}
      BY <1>2, <1>3
    <2> HIDE DEF ids, q
    <2> QED
      BY <1>12, <2>1 DEF Row
  <1>15. hids' \in [Handlers -> SUBSET (1..MaxRows)]
    BY <1>1, <1>2, <1>12
  <1>16. hpc' \in [Handlers -> {"idle", "lookup", "insert", "conflict", "answer"}]
    BY <1>2 DEF Insert, Goto
  <1>17. table' \subseteq Row /\ ever' \subseteq Row /\ table' \subseteq ever'
    <2>1. \/ UNCHANGED <<table, ever>>
          \/ table' = table \cup new /\ ever' = ever \cup new
      BY DEF Insert
    <2> HIDE DEF new
    <2> QED
      BY <1>14, <2>1 DEF TypeInv, TypeOK
  <1> HIDE DEF q, ids, new, own, others
  <1>18. TypeOK'
    BY <1>1, <1>13, <1>15, <1>16, <1>17 DEF TypeInv, TypeOK, Row, Key
  <1> QED
    BY <1>11, <1>18 DEF TypeInv

\* The steps of a request that commit nothing.
LEMMA RequestTypes ==
    ASSUME TypeInv, NEW h \in Handlers,
           \/ Reject(h) \/ Replay(h) \/ Miss(h) \/ Lose(h) \/ Reraise(h)
           \/ Accept(h) \/ Locked(h)
    PROVE  TypeInv'
  <1>1. /\ hreq \in [Handlers -> Requests] /\ hkey \in [Handlers -> Key]
        /\ hpc \in [Handlers -> {"idle", "lookup", "insert", "conflict", "answer"}]
        /\ hids \in [Handlers -> SUBSET (1..MaxRows)] /\ table \subseteq Row
    BY DEF TypeInv, TypeOK
  <1>2. UNCHANGED <<table, nextId, now, hreq, hkey, ever>>
    BY DEF Reject, Replay, Miss, Lose, Reraise, Accept, Locked
  <1>3. \E step \in {"idle", "insert", "answer"} :
           Goto(h, step) /\ (step = "insert" => hpc[h] = "lookup")
    BY DEF Reject, Replay, Miss, Lose, Reraise, Accept, Locked
  <1>4. hpc' \in [Handlers -> {"idle", "lookup", "insert", "conflict", "answer"}]
    BY <1>1, <1>3 DEF Goto
  <1>5. Writers' \subseteq Writers
    BY <1>1, <1>3 DEF Goto, Writers
  <1>6. hids' \in [Handlers -> SUBSET (1..MaxRows)]
    <2>1. Ids(Matching(hreq[h].service, hkey[h])) \subseteq 1..MaxRows
      BY <1>1 DEF Ids, Matching, Row
    <2>2. hids' = hids \/ hids' = [hids EXCEPT ![h] = Ids(Matching(hreq[h].service, hkey[h]))]
      BY DEF Reject, Replay, Miss, Lose, Reraise, Accept, Locked
    <2> QED
      BY <1>1, <2>1, <2>2
  <1>7. answers' \subseteq [req : Requests, key : Key, code : {202, 422, 500},
                             ids : SUBSET (1..MaxRows)]
    <2>1. \/ answers' = answers
          \/ \E code \in {202, 422, 500}, ids \in SUBSET (1..MaxRows) : Answer(h, code, ids)
      <3>1. hids[h] \in SUBSET (1..MaxRows) /\ {} \in SUBSET (1..MaxRows)
        BY <1>1
      <3>2. \/ answers' = answers
            \/ Answer(h, 422, {}) \/ Answer(h, 500, {}) \/ Answer(h, 202, hids[h])
        BY DEF Reject, Replay, Miss, Lose, Reraise, Accept, Locked
      <3> QED
        BY <3>1, <3>2
    <2>2. answers \subseteq [req : Requests, key : Key, code : {202, 422, 500},
                              ids : SUBSET (1..MaxRows)]
      BY DEF TypeInv, TypeOK
    <2>3. hreq[h] \in Requests /\ hkey[h] \in Key
      BY <1>1
    <2> QED
      BY <2>1, <2>2, <2>3 DEF Answer
  <1>8. faults' \in 0..MaxFaults
    <2>1. faults \in Nat /\ MaxFaults \in Nat /\ faults <= MaxFaults
      BY IntakeAssumption DEF TypeInv, TypeOK
    <2>2. \/ faults' = faults
          \/ faults < MaxFaults /\ faults' = faults + 1
      <3>1. CASE Locked(h)
        BY <3>1 DEF Locked, Fault
      <3>2. CASE ~Locked(h)
        <4>1. UNCHANGED faults
          BY <3>2 DEF Reject, Replay, Miss, Lose, Reraise, Accept
        <4> QED
          BY <4>1
      <3> QED
        BY <3>1, <3>2
    <2> QED
      BY <2>1, <2>2
  <1>9. nextId' + Cardinality(RowsOf(Writers))' <= MaxRows + 1
    BY <1>2, <1>5, IdsLeft
  <1>10. TypeOK'
    BY <1>2, <1>4, <1>6, <1>7, <1>8 DEF TypeInv, TypeOK, Row, Key
  <1> QED
    BY <1>9, <1>10 DEF TypeInv

\* Everything stays in its type, and ids never run out under a request.
THEOREM IntakeTypes == Spec => []TypeOK
  <1>1. Init => TypeInv
    <2> SUFFICES ASSUME Init PROVE TypeInv
      OBVIOUS
    <2>1. Writers = {}
      BY DEF Init, Writers
    <2>2. RowsOf(Writers) = {}
      BY <2>1 DEF RowsOf
    <2>3. Cardinality(RowsOf(Writers)) = 0
      BY <2>2, FS_EmptySet
    <2>4. hreq \in [Handlers -> Requests]
      BY IntakeAssumption DEF Init
    <2>5. NoKey \in Key
      BY DEF NoKey, Key
    <2>6. nextId = 1 /\ nextId \in 1..MaxRows + 1 /\ nextId + 0 <= MaxRows + 1
      BY IntakeAssumption DEF Init
    <2>7. TypeOK
      BY <2>4, <2>5, <2>6, IntakeAssumption DEF Init, TypeOK
    <2> QED
      BY <2>3, <2>6, <2>7 DEF TypeInv
  <1>2. TypeInv /\ KeyInv' /\ [Next]_vars => TypeInv'
    <2> SUFFICES ASSUME TypeInv, KeyInv', [Next]_vars PROVE TypeInv'
      OBVIOUS
    <2>1. ASSUME NEW h \in Handlers, NEW q \in Requests, Post(h, q) PROVE TypeInv'
      BY <2>1, PostTypes
    <2>2. ASSUME NEW h \in Handlers, Insert(h) PROVE TypeInv'
      BY <2>2, InsertTypes
    <2>3. ASSUME NEW h \in Handlers,
                 \/ Reject(h) \/ Replay(h) \/ Miss(h) \/ Lose(h) \/ Reraise(h)
                 \/ Accept(h) \/ Locked(h)
          PROVE  TypeInv'
      BY <2>3, RequestTypes
    <2>4. ASSUME NEW r \in table, Prune(r) PROVE TypeInv'
      <3>1. Writers' = Writers /\ hreq' = hreq /\ nextId' = nextId
        BY <2>4 DEF Prune, Writers
      <3>2. nextId' + Cardinality(RowsOf(Writers))' <= MaxRows + 1
        BY <3>1, IdsLeft
      <3>3. TypeOK'
        BY <2>4 DEF Prune, TypeInv, TypeOK, Row, Key
      <3> QED
        BY <3>2, <3>3 DEF TypeInv
    <2>5. CASE Tick
      <3>1. Writers' = Writers /\ hreq' = hreq /\ nextId' = nextId
        BY <2>5 DEF Tick, Writers
      <3>2. nextId' + Cardinality(RowsOf(Writers))' <= MaxRows + 1
        BY <3>1, IdsLeft
      <3>3. now' \in 0..MaxTime
        BY <2>5, IntakeAssumption DEF Tick, TypeInv, TypeOK
      <3>4. TypeOK'
        BY <2>5, <3>3 DEF Tick, TypeInv, TypeOK, Row, Key
      <3> QED
        BY <3>2, <3>4 DEF TypeInv
    <2>6. CASE Kill
      <3>1. Writers' = {} /\ hreq' = hreq /\ nextId' = nextId
        BY <2>6 DEF Kill, Writers
      <3>2. nextId' + Cardinality(RowsOf(Writers))' <= MaxRows + 1
        BY <3>1, IdsLeft
      <3>3. faults' \in 0..MaxFaults
        BY <2>6, IntakeAssumption DEF Kill, Fault, TypeInv, TypeOK
      <3>4. TypeOK'
        BY <2>6, <3>3 DEF Kill, TypeInv, TypeOK, Row, Key
      <3> QED
        BY <3>2, <3>4 DEF TypeInv
    <2>7. CASE UNCHANGED vars
      BY <2>7 DEF vars, TypeInv, TypeOK, Row, Key, RowsOf, Writers
    <2> QED
      BY <2>1, <2>2, <2>3, <2>4, <2>5, <2>6, <2>7 DEF Next
  <1>3. TypeInv => TypeOK
    BY DEF TypeInv
  <1> QED
    BY <1>1, <1>2, <1>3, KeysInvariance, PTL DEF Spec

=============================================================================
