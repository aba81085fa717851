-------------------------------- MODULE Fanout --------------------------------
(***************************************************************************)
(* Inbound texts: the gateway's webhook (routes/inbound.py), the delivery   *)
(* rows it fans out (webhooks.enqueue_fanout), the loop that posts them to  *)
(* subscribers (worker.fanout_loop, webhooks.deliver), and retention        *)
(* (worker.prune_loop), over one SQLite file.                               *)
(*                                                                         *)
(* The loop works in batches: the outcomes of all the posts of a batch are  *)
(* in memory until the one commit at its end.  From the moment a second     *)
(* message is loaded in a batch that has outcomes, the session has flushed  *)
(* them and holds SQLite's writer lock (locked) across the posts that       *)
(* follow.  Delivery rows are pairs <<message row, subscriber>>.            *)
(***************************************************************************)
EXTENDS Integers, FiniteSets

CONSTANTS Texts,        \* the texts the handset receives
          Unnamed,      \* those whose event bears no provider id
          Rows,         \* message rows, numbered in the order they are stored
          Subs,         \* the subscribers a configuration may name
          Poison,       \* those whose url makes httpx raise something other than HTTPError
          Handlers,     \* webhook requests in progress at one time
          MaxDelivery,  \* MAX_DELIVERY_ATTEMPTS
          BatchLimit,   \* deliveries read per batch
          FaultKinds,   \* the faults the environment may inject
          MaxFaults,    \* bound: how many of them
          Cap           \* bound: where the history's counters stop

ASSUME FanoutAssumption ==
    /\ Rows \subseteq Nat \ {0} /\ IsFiniteSet(Rows)
    /\ Unnamed \subseteq Texts /\ "none" \notin Texts /\ IsFiniteSet(Handlers)
    /\ Poison \subseteq Subs /\ IsFiniteSet(Subs)
    /\ MaxDelivery \in Nat \ {0} /\ BatchLimit \in Nat \ {0}
    /\ FaultKinds \subseteq {"raise", "kill"} /\ MaxFaults \in Nat
    /\ Cap \in Nat \ {0}

Deliveries == Rows \X Subs

VARIABLES
    (* The database *)
    row,      \* per row: "absent", "stored", "pruned"
    textOf,   \* the text it stores
    dstatus, dattempts, ddue,   \* columns of webhook_deliveries
    locked,   \* the fan-out session holds the writer lock
    (* The fan-out loop *)
    pc, todo, cur, out, loaded,
    (* The webhook and the gateway *)
    hpc, htext, acked,
    (* The process *)
    proc, subs,
    (* History *)
    posts,       \* posts opened, per delivery
    acks,        \* posts the subscriber accepted
    lostAcks,    \* of those, the ones no committed row tells of
    unrecorded,  \* posts the attempts column never counted
    wanted,      \* subscribers configured when a row was stored
    faults

database == <<row, textOf, dstatus, dattempts, ddue>>
loop == <<pc, todo, cur, out, loaded, locked>>
gateway == <<hpc, htext, acked>>
history == <<posts, acks, lostAcks, unrecorded, wanted>>
vars == <<database, loop, gateway, proc, subs, history, faults>>

Nobody == <<0, "none">>
DStatus == {"absent", "pending", "delivered", "failed", "cancelled"}
Settled == {"delivered", "failed", "cancelled"}

TypeOK ==
    /\ row \in [Rows -> {"absent", "stored", "pruned"}]
    /\ textOf \in [Rows -> Texts \cup {"none"}]
    /\ dstatus \in [Deliveries -> DStatus]
    /\ dattempts \in [Deliveries -> 0..MaxDelivery]
    /\ ddue \in [Deliveries -> BOOLEAN]
    /\ locked \in BOOLEAN
    /\ pc \in {"top", "next", "posting"}
    /\ todo \subseteq Deliveries /\ cur \in Deliveries \cup {Nobody}
    /\ out \in [Deliveries -> {"none"} \cup DStatus]
    /\ loaded \subseteq Rows
    /\ hpc \in [Handlers -> {"idle", "read", "insert", "reply"}]
    /\ htext \in [Handlers -> Texts \cup {"none"}]
    /\ acked \in [Texts -> BOOLEAN]
    /\ proc \in {"up", "down"} /\ subs \subseteq Subs
    /\ posts \in [Deliveries -> 0..Cap] /\ acks \in [Deliveries -> 0..Cap]
    /\ lostAcks \in [Deliveries -> 0..Cap] /\ unrecorded \in [Deliveries -> 0..Cap]
    /\ wanted \in [Rows -> SUBSET Subs]
    /\ faults \in 0..MaxFaults

\* One more for each delivery of S.
Count(f, S) == [d \in Deliveries |-> IF d \in S /\ f[d] < Cap THEN f[d] + 1 ELSE f[d]]

None == [d \in Deliveries |-> "none"]
Zero == [d \in Deliveries |-> 0]

Init ==
    /\ row = [r \in Rows |-> "absent"] /\ textOf = [r \in Rows |-> "none"]
    /\ dstatus = [d \in Deliveries |-> "absent"]
    /\ dattempts = Zero /\ ddue = [d \in Deliveries |-> FALSE]
    /\ pc = "top" /\ todo = {} /\ cur = Nobody /\ out = None /\ loaded = {}
    /\ locked = FALSE
    /\ hpc = [h \in Handlers |-> "idle"] /\ htext = [h \in Handlers |-> "none"]
    /\ acked = [t \in Texts |-> FALSE]
    /\ proc = "up" /\ subs = Subs
    /\ posts = Zero /\ acks = Zero /\ lostAcks = Zero /\ unrecorded = Zero
    /\ wanted = [r \in Rows |-> {}]
    /\ faults = 0

-----------------------------------------------------------------------------
(* The gateway posts a text until it gets a 2xx; a retry may overtake the   *)
(* request it repeats.                                                      *)

Stored(t) == {r \in Rows : row[r] = "stored" /\ textOf[r] = t}

Goto(h, step) == hpc' = [hpc EXCEPT ![h] = step]

Post(h, t) ==
    /\ proc = "up" /\ hpc[h] = "idle" /\ ~acked[t]
    /\ Goto(h, "read") /\ htext' = [htext EXCEPT ![h] = t]
    /\ UNCHANGED <<database, loop, acked, proc, subs, history, faults>>

\* The copies that the lookup by provider id finds; none without one.
Known(t) == {r \in Stored(t) : t \notin Unnamed}

DedupMissing(h) == Goto(h, "insert")   \* mutant
\* scalar_one_or_none: a duplicate is acknowledged; two rows raise (a 500).
Dedup(h) ==
    \/ Known(htext[h]) = {} /\ Goto(h, "insert")
    \/ Cardinality(Known(htext[h])) = 1 /\ Goto(h, "reply")
    \/ Cardinality(Known(htext[h])) > 1 /\ Goto(h, "idle")

PostRead(h) ==
    /\ hpc[h] = "read"
    /\ Dedup(h)
    /\ UNCHANGED <<database, loop, htext, acked, proc, subs, history, faults>>

FanoutOnce(r) ==   \* mutant: a subscriber with a delivery already is skipped
    dstatus' = [d \in Deliveries |->
        IF d[1] = r /\ d[2] \in subs /\ \A q \in Rows : dstatus[<<q, d[2]>>] = "absent"
        THEN "pending" ELSE dstatus[d]]
\* A pending row per configured subscriber, in the message's own transaction.
EnqueueFanout(r) ==
    dstatus' = [d \in Deliveries |->
        IF d[1] = r /\ d[2] \in subs THEN "pending" ELSE dstatus[d]]

\* (Bound: the request waits once no row number is left.)
PostCommit(h) ==
    /\ hpc[h] = "insert" /\ ~locked
    /\ \E r \in Rows :
          /\ row[r] = "absent" /\ \A q \in Rows : q < r => row[q] # "absent"
          /\ row' = [row EXCEPT ![r] = "stored"]
          /\ textOf' = [textOf EXCEPT ![r] = htext[h]]
          /\ EnqueueFanout(r)
          /\ ddue' = [d \in Deliveries |-> d[1] = r \/ ddue[d]]
          /\ wanted' = [wanted EXCEPT ![r] = subs]
    /\ Goto(h, "reply")
    /\ UNCHANGED <<dattempts, loop, htext, acked, proc, subs,
                   posts, acks, lostAcks, unrecorded, faults>>

\* busy_timeout runs out while the fan-out session holds the lock: a 500.
PostRefused(h) ==
    /\ hpc[h] = "insert" /\ locked
    /\ Goto(h, "idle")
    /\ UNCHANGED <<database, loop, htext, acked, proc, subs, history, faults>>

AckBeforeCommit(h) ==   \* mutant: a 2xx for whatever was parsed
    /\ hpc[h] \in {"insert", "reply"}
    /\ Goto(h, "idle")
    /\ \E heard \in BOOLEAN : acked' = [acked EXCEPT ![htext[h]] = @ \/ heard]
    /\ UNCHANGED <<database, loop, htext, proc, subs, history, faults>>

\* The 2xx, which the gateway may or may not see.
Reply(h) ==
    /\ hpc[h] = "reply"
    /\ Goto(h, "idle")
    /\ \E heard \in BOOLEAN : acked' = [acked EXCEPT ![htext[h]] = @ \/ heard]
    /\ UNCHANGED <<database, loop, htext, proc, subs, history, faults>>

-----------------------------------------------------------------------------
(* The fan-out loop.                                                       *)

DueWhateverItsStatus == {d \in Deliveries : ddue[d] /\ dstatus[d] # "absent"}   \* mutant
DueIfNew == {d \in Deliveries : dstatus[d] = "pending" /\ dattempts[d] = 0}     \* mutant
Due == {d \in Deliveries : dstatus[d] = "pending" /\ ddue[d]}

Dirty == {d \in Deliveries : out[d] # "none"}
\* A flush of these updates meets a delivery row that retention has deleted.
StaleData == \E d \in Dirty : dstatus[d] = "absent"

\* ORDER BY created_at LIMIT 20; with nothing due the loop sleeps.
BatchRead ==
    /\ proc = "up" /\ pc = "top"
    /\ \E batch \in SUBSET Due :
          /\ Cardinality(batch) = IF Cardinality(Due) < BatchLimit THEN Cardinality(Due)
                                                                   ELSE BatchLimit
          /\ \A d \in batch, e \in Due \ batch : d[1] <= e[1]
          /\ todo' = batch
          /\ pc' = IF batch = {} THEN "top" ELSE "next"
    /\ UNCHANGED <<database, cur, out, loaded, locked, gateway, proc, subs, history, faults>>

Forget == /\ pc' = "top" /\ todo' = {} /\ cur' = Nobody /\ out' = None
          /\ loaded' = {} /\ locked' = FALSE

\* An exception, a cancellation or a crash: nothing of the batch is recorded,
\* not the acknowledgements already received, nor one on its way (took).
Abandon ==
    /\ \E took \in IF pc = "posting" THEN {{}, {cur}} ELSE {{}} :
          /\ acks' = Count(acks, took)
          /\ lostAcks' = Count(lostAcks, took \cup {d \in Dirty : out[d] = "delivered"})
    /\ unrecorded' = Count(unrecorded, {cur} \cup {d \in Dirty : out[d] # "cancelled"})
    /\ UNCHANGED <<posts, wanted>>
    /\ Forget

\* The next delivery, in order of creation.
IsNext(d) == d \in todo /\ \A e \in todo : d[1] <= e[1]

\* session.get of a message the session has not loaded flushes what is dirty
\* (and so takes the writer lock), then reads.
Loads(d) == d[1] \notin loaded

\* The flush finds a deleted row.
FlushFails ==
    /\ pc = "next"
    /\ \E d \in todo : IsNext(d) /\ Loads(d)
    /\ StaleData
    /\ Abandon
    /\ UNCHANGED <<database, gateway, proc, subs, faults>>

\* A delivery that needs no post: its message is gone, or its subscriber is.
Cancel(d) ==
    /\ pc = "next" /\ IsNext(d)
    /\ Loads(d) => ~StaleData
    /\ \/ Loads(d) /\ row[d[1]] # "stored"
       \/ ~Loads(d) /\ d[2] \notin subs
       \/ Loads(d) /\ row[d[1]] = "stored" /\ d[2] \notin subs
    /\ locked' = (locked \/ (Loads(d) /\ Dirty # {}))
    /\ loaded' = IF row[d[1]] = "stored" THEN loaded \cup {d[1]} ELSE loaded
    /\ out' = [out EXCEPT ![d] = "cancelled"]
    /\ todo' = todo \ {d}
    /\ UNCHANGED <<database, pc, cur, gateway, proc, subs, history, faults>>

\* deliver opens the post.
Deliver(d) ==
    /\ pc = "next" /\ IsNext(d)
    /\ Loads(d) => ~StaleData /\ row[d[1]] = "stored"
    /\ d[2] \in subs
    /\ locked' = (locked \/ (Loads(d) /\ Dirty # {}))
    /\ loaded' = loaded \cup {d[1]}
    /\ cur' = d /\ todo' = todo \ {d} /\ pc' = "posting"
    /\ posts' = Count(posts, {d})
    /\ UNCHANGED <<database, out, gateway, proc, subs, acks, lostAcks, unrecorded,
                   wanted, faults>>

Outcome(status) ==
    /\ out' = [out EXCEPT ![cur] = status]
    /\ cur' = Nobody /\ pc' = "next"

\* A 2xx.
Acknowledged ==
    /\ pc = "posting" /\ cur[2] \notin Poison
    /\ acks' = Count(acks, {cur})
    /\ Outcome("delivered")
    /\ UNCHANGED <<database, todo, loaded, locked, gateway, proc, subs, posts, lostAcks,
                   unrecorded, wanted, faults>>

GiveUpLate(n) == n > MaxDelivery   \* mutant
GiveUp(n) == n >= MaxDelivery

\* Any other status, or an HTTPError, behind which may hide a post that was
\* acted upon (took).
Refused ==
    /\ pc = "posting" /\ cur[2] \notin Poison
    /\ \E took \in {{}, {cur}} : acks' = Count(acks, took) /\ lostAcks' = Count(lostAcks, took)
    /\ Outcome(IF GiveUp(dattempts[cur] + 1) THEN "failed" ELSE "pending")
    /\ UNCHANGED <<database, todo, loaded, locked, gateway, proc, subs, posts, unrecorded,
                   wanted, faults>>

\* Not an HTTPError: deliver does not catch it, the loop drops the batch.
Poisoned ==
    /\ pc = "posting" /\ cur[2] \in Poison
    /\ Abandon
    /\ acks' = acks
    /\ UNCHANGED <<database, gateway, proc, subs, faults>>

\* One commit for the batch...
BatchCommit ==
    /\ pc = "next" /\ todo = {} /\ ~StaleData
    /\ dstatus' = [d \in Deliveries |-> IF d \in Dirty THEN out[d] ELSE dstatus[d]]
    /\ dattempts' = [d \in Deliveries |->
          dattempts[d] + IF out[d] \in {"none", "cancelled"} THEN 0 ELSE 1]
    /\ ddue' = [d \in Deliveries |-> ddue[d] /\ out[d] # "pending"]
    /\ Forget
    /\ UNCHANGED <<row, textOf, gateway, proc, subs, history, faults>>

\* ...or none: StaleDataError.
CommitFails ==
    /\ pc = "next" /\ todo = {} /\ StaleData
    /\ Abandon
    /\ UNCHANGED <<database, gateway, proc, subs, faults>>

BackoffElapses(d) ==
    /\ dstatus[d] = "pending" /\ ~ddue[d]
    /\ ddue' = [ddue EXCEPT ![d] = TRUE]
    /\ UNCHANGED <<row, textOf, dstatus, dattempts, loop, gateway, proc, subs, history, faults>>

-----------------------------------------------------------------------------
(* Retention, faults, restarts.                                            *)

PruneKeepsDeliveries(r) ==   \* mutant: foreign_keys off
    /\ proc = "up" /\ row[r] = "stored" /\ ~locked
    /\ row' = [row EXCEPT ![r] = "pruned"]
    /\ UNCHANGED <<textOf, dstatus, dattempts, ddue, loop, gateway, proc, subs, history, faults>>

\* `received` is terminal: a row older than the retention window goes, and
\* ON DELETE CASCADE takes its deliveries.  (While the fan-out session holds
\* the lock the delete fails, and is tried again hours later.)  created_at is
\* the gateway's clock, so any row may be old.
Prune(r) ==
    /\ proc = "up" /\ row[r] = "stored" /\ ~locked
    /\ row' = [row EXCEPT ![r] = "pruned"]
    /\ dstatus' = [d \in Deliveries |-> IF d[1] = r THEN "absent" ELSE dstatus[d]]
    /\ UNCHANGED <<textOf, dattempts, ddue, loop, gateway, proc, subs, history, faults>>

Fault(kind) == kind \in FaultKinds /\ faults < MaxFaults /\ faults' = faults + 1

\* A locked database, or any other exception of an iteration.
IterationRaises ==
    /\ proc = "up" /\ pc # "top"
    /\ Fault("raise") /\ Abandon
    /\ UNCHANGED <<database, gateway, proc, subs>>

\* The process goes, and with it the batch and the requests in progress.
Kill ==
    /\ proc = "up"
    /\ Fault("kill") /\ Abandon
    /\ proc' = "down"
    /\ hpc' = [h \in Handlers |-> "idle"]
    /\ UNCHANGED <<database, htext, acked, subs>>

\* The next one may be deployed with other subscribers.
Restart ==
    /\ proc = "down"
    /\ proc' = "up" /\ subs' \in SUBSET Subs
    /\ UNCHANGED <<database, loop, gateway, history, faults>>

-----------------------------------------------------------------------------
Webhook(h) == PostRead(h) \/ PostCommit(h) \/ PostRefused(h) \/ Reply(h)

LoopStep ==
    \/ BatchRead \/ FlushFails
    \/ \E d \in Deliveries : Cancel(d) \/ Deliver(d)
    \/ Acknowledged \/ Refused \/ Poisoned \/ BatchCommit \/ CommitFails

Next ==
    \/ \E h \in Handlers : (\E t \in Texts : Post(h, t)) \/ Webhook(h)
    \/ LoopStep
    \/ \E d \in Deliveries : BackoffElapses(d)
    \/ \E r \in Rows : Prune(r)
    \/ IterationRaises \/ Kill \/ Restart

Spec == Init /\ [][Next]_vars

\* The gateway keeps posting what was not acknowledged; requests, the loop,
\* the clock and Kubernetes go on.
FairSpec ==
    /\ Spec
    /\ \A h \in Handlers : WF_vars(Webhook(h))
    /\ \A t \in Texts : WF_vars(\E h \in Handlers : Post(h, t))
    /\ WF_vars(LoopStep)
    /\ \A d \in Deliveries : WF_vars(BackoffElapses(d))
    /\ WF_vars(Restart)

-----------------------------------------------------------------------------
(* What inbound delivery promises.                                         *)

\* The gateway's webhook answers 2xx only for a text that is in the database,
\* whatever crashes or repeats: no text it stops retrying is lost.
AckedIsStored == \A t \in Texts : acked[t] => \E r \in Rows : textOf[r] = t

\* The gateway "retries until it gets a 2xx, so duplicates are normal": a
\* text is stored once, if it can be told from others.
StoredOnce == \A t \in Texts \ Unnamed : Cardinality(Stored(t)) <= 1

\* Nothing makes provider ids unique: the read and the insert of a webhook
\* request are two transactions.  Each request in progress can add a copy, so
\* a text with an id is stored at most once per request the process serves at a
\* time.
CopiesNeedOverlap == \A t \in Texts \ Unnamed : Cardinality(Stored(t)) <= Cardinality(Handlers)

\* A stored text keeps a delivery for every subscriber configured when it
\* arrived, until both are pruned.
NoDeliveryForgotten ==
    \A r \in Rows : row[r] = "stored" =>
        \A s \in wanted[r] : dstatus[<<r, s>>] # "absent"

\* A subscriber accepts the same delivery again only if an earlier acceptance
\* never reached its row.
DuplicatesNeedLostAcks == \A d \in Deliveries : acks[d] <= 1 + lostAcks[d]

\* Six attempts per delivery, but for the posts of batches that were dropped.
PostBudget == \A d \in Deliveries : posts[d] <= MaxDelivery + unrecorded[d]

\* A delivery that is delivered, failed or cancelled is never posted again,
\* and changes only by being pruned.
SettledIsFinal ==
    [][\A d \in Deliveries : dstatus[d] \in Settled =>
          /\ dstatus'[d] \in {dstatus[d], "absent"}
          /\ posts'[d] = posts[d]]_vars

\* A delivery is cancelled only because its subscriber is not configured.
\* The loop also cancels one whose message is gone, but that commit cannot
\* succeed: the delivery went with the message.
CancelledIsUnconfigured ==
    [][\A d \in Deliveries :
          dstatus[d] = "pending" /\ dstatus'[d] = "cancelled" => d[2] \notin subs]_vars

\* What became of a delivery: a row that was there once is gone with its
\* message.
Fate(d) == IF dstatus[d] # "absent" THEN dstatus[d]
           ELSE IF d[2] \in wanted[d[1]] THEN "forgotten" ELSE "none"

Promise == INSTANCE Inbox WITH message <- row, text <- textOf,
    fate <- [d \in Deliveries |-> Fate(d)], copies <- acks, told <- {t \in Texts : acked[t]}

\* Requests that overlap, batches that are dropped, crashes and retention keep
\* the promise of the inbox: each text acknowledged was kept, each delivery
\* settles once and as it went, and none is taken but with its message.
ImplementsInbox == Promise!Spec

\* Every pending delivery is settled or pruned in the end.
EveryDeliverySettles ==
    \A d \in Deliveries : dstatus[d] = "pending" ~> dstatus[d] # "pending"

\* Every text the gateway holds is stored in the end.
EveryTextIsStored == \A t \in Texts : <>(\E r \in Rows : textOf[r] = t)

-----------------------------------------------------------------------------
(* What the documentation says and the code does not do.                   *)

\* webhooks.py: one dead consumer retries "without holding up the others".
OthersAreNotHeldUp ==
    \A d \in Deliveries : d[2] \notin Poison =>
        (dstatus[d] = "pending" ~> dstatus[d] # "pending")
=============================================================================
