------------------------------ MODULE SendLoop ------------------------------
(***************************************************************************)
(* The outbound queue: the rows of the messages table, the send loop that  *)
(* drains them (worker.py), and the life of the process around it          *)
(* (main.py).  Every await of the loop is a point where its memory can be  *)
(* lost, so one iteration is a chain of steps: read, commit, call, commit. *)
(*                                                                         *)
(* A message is a number; a smaller number was created earlier, which is   *)
(* the order the claim query uses.  Time is two facts about a row: its     *)
(* next_attempt_at has passed (due), its updated_at is older than          *)
(* stuck_after_seconds (stuck).  What upstream (the handset's gateway or   *)
(* the ntfy server) did, and what the relay never learnt of it, is kept in *)
(* history variables that no action reads.                                 *)
(***************************************************************************)
EXTENDS Integers, FiniteSets

CONSTANTS Msgs,         \* the outbound messages callers may post
          Channels,     \* the transports the configured routes give
          MaxAttempts,  \* settings.max_attempts
          FaultKinds,   \* the faults the environment may inject
          MaxFaults     \* bound: how many of them

ASSUME MsgsAssumption == Msgs \subseteq Nat \ {0} /\ IsFiniteSet(Msgs)
ASSUME ChannelsAssumption == Channels \subseteq {"sms", "ntfy"}
ASSUME MaxAttemptsAssumption == MaxAttempts \in Nat \ {0}
ASSUME FaultAssumption == /\ FaultKinds \subseteq {"raise", "kill", "stop", "fetch"}
                          /\ MaxFaults \in Nat

VARIABLES
    (* Columns of the messages table, as last committed *)
    status, transport, attempts, due, stuck, error, pid,
    (* The send loop *)
    pc,      \* the next step of the iteration
    stale,   \* rows _requeue_stuck has read and not yet committed
    mem,     \* the claimed row as the session holds it
    proc,    \* the process the loop runs in
    (* History *)
    ntfyTries, smsTries,  \* calls started, per message
    accepted,    \* calls upstream accepted, per message
    lost,        \* of those, the ones no committed row tells of
    unrecorded,  \* SMS calls that never reached the attempts column
    faults       \* faults so far

columns == <<status, transport, attempts, due, stuck, error, pid>>
history == <<ntfyTries, smsTries, accepted, lost, unrecorded>>
vars == <<columns, pc, stale, mem, proc, history, faults>>

\* How the loop leaves a row; `delivered`, and `gone` for a deleted row, come
\* from others (see Relay).
Settled == {"sent", "published", "failed"}
Pending == {"queued", "sending"}
Status == {"absent", "delivered", "gone"} \cup Pending \cup Settled
Steps == {"top", "requeue", "claim", "claimed", "publishing", "published",
          "fallback", "acquire", "sending", "record"}
Outcomes == {"none", "ok", "transient", "permanent"}

\* No message in memory.
Idle == [id |-> 0, transport |-> "sms", attempts |-> 0, outcome |-> "none"]

TypeOK ==
    /\ status \in [Msgs -> Status]
    /\ transport \in [Msgs -> {"sms", "ntfy", "sms-fallback"}]
    /\ attempts \in [Msgs -> 0..MaxAttempts]
    /\ due \in [Msgs -> BOOLEAN] /\ stuck \in [Msgs -> BOOLEAN]
    /\ error \in [Msgs -> {"none", "ntfy", "transient", "permanent"}]
    /\ pid \in [Msgs -> Nat]
    /\ pc \in Steps
    /\ stale \subseteq Msgs
    /\ mem \in [id : Msgs \cup {0}, transport : {"sms", "ntfy", "sms-fallback"},
                attempts : 0..MaxAttempts, outcome : Outcomes]
    /\ proc \in {"up", "stopping", "stopped", "crashed"}
    /\ ntfyTries \in [Msgs -> Nat] /\ smsTries \in [Msgs -> Nat]
    /\ accepted \in [Msgs -> Nat] /\ lost \in [Msgs -> Nat]
    /\ unrecorded \in [Msgs -> Nat]
    /\ faults \in 0..MaxFaults

Init ==
    /\ status = [m \in Msgs |-> "absent"]
    /\ transport = [m \in Msgs |-> "sms"]
    /\ attempts = [m \in Msgs |-> 0]
    /\ due = [m \in Msgs |-> FALSE] /\ stuck = [m \in Msgs |-> FALSE]
    /\ error = [m \in Msgs |-> "none"]
    /\ pid = [m \in Msgs |-> 0]
    /\ pc = "top" /\ stale = {} /\ mem = Idle /\ proc = "up"
    /\ ntfyTries = [m \in Msgs |-> 0] /\ smsTries = [m \in Msgs |-> 0]
    /\ accepted = [m \in Msgs |-> 0] /\ lost = [m \in Msgs |-> 0]
    /\ unrecorded = [m \in Msgs |-> 0]
    /\ faults = 0

Alive == proc \in {"up", "stopping"}

\* f with v in the place of the message in memory.
Put(f, v) == [f EXCEPT ![mem.id] = v]
\* f with n more for the message in memory.
More(f, n) == [f EXCEPT ![mem.id] = @ + n]

-----------------------------------------------------------------------------
(* Rows arrive, and time passes over them. *)

\* POST /messages commits a new row; a route makes it "ntfy".
Enqueue(m, via) ==
    /\ proc = "up" /\ status[m] = "absent"
    /\ status' = [status EXCEPT ![m] = "queued"]
    /\ transport' = [transport EXCEPT ![m] = via]
    /\ due' = [due EXCEPT ![m] = TRUE]
    /\ UNCHANGED <<attempts, stuck, error, pid, pc, stale, mem, proc, history, faults>>

\* next_attempt_at, at most 15 minutes ahead, passes.
BackoffElapses(m) ==
    /\ status[m] = "queued" /\ ~due[m]
    /\ due' = [due EXCEPT ![m] = TRUE]
    /\ UNCHANGED <<status, transport, attempts, stuck, error, pid,
                   pc, stale, mem, proc, history, faults>>

\* updated_at of a row in `sending` falls behind the requeue cutoff.
GoesStuck(m) ==
    /\ status[m] = "sending" /\ ~stuck[m]
    /\ stuck' = [stuck EXCEPT ![m] = TRUE]
    /\ UNCHANGED <<status, transport, attempts, due, error, pid,
                   pc, stale, mem, proc, history, faults>>

-----------------------------------------------------------------------------
(* One iteration of send_loop. *)

\* The rows _requeue_stuck selects.
OrphansOfWrongStatus == {m \in Msgs : status[m] = "queued" /\ stuck[m]}   \* mutant
Orphans == {m \in Msgs : status[m] = "sending" /\ stuck[m]}

\* The rows the claim query matches, and the one it takes.
ClaimableIfDue == {m \in Msgs : due[m]}   \* mutant
Claimable == {m \in Msgs : status[m] = "queued" /\ due[m]}
Oldest(S) == CHOOSE m \in S : \A n \in S : m <= n

\* while not stop.is_set(): the event is looked at here and nowhere else.
RequeueRead ==
    /\ proc = "up" /\ pc = "top"
    /\ stale' = Orphans
    /\ pc' = "requeue"
    /\ UNCHANGED <<columns, mem, proc, history, faults>>

RequeueCommit ==
    /\ Alive /\ pc = "requeue"
    /\ status' = [m \in Msgs |-> IF m \in stale THEN "queued" ELSE status[m]]
    /\ due' = [m \in Msgs |-> m \in stale \/ due[m]]
    /\ stuck' = [m \in Msgs |-> m \notin stale /\ stuck[m]]
    /\ stale' = {} /\ pc' = "claim"
    /\ UNCHANGED <<transport, attempts, error, pid, mem, proc, history, faults>>

ClaimRead ==
    /\ Alive /\ pc = "claim"
    /\ \/ /\ Claimable = {}
          /\ pc' = "top" /\ UNCHANGED mem
       \/ \E m \in Claimable :
             /\ m = Oldest(Claimable)
             /\ pc' = "claimed"
             /\ mem' = [id |-> m, transport |-> transport[m],
                        attempts |-> attempts[m], outcome |-> "none"]
    /\ UNCHANGED <<columns, stale, proc, history, faults>>

\* The row becomes `sending`; the ntfy call, if it is its turn, opens.
ClaimCommit ==
    /\ Alive /\ pc = "claimed"
    /\ status' = Put(status, "sending")
    /\ stuck' = Put(stuck, FALSE)
    /\ IF mem.transport = "ntfy"
       THEN pc' = "publishing" /\ ntfyTries' = More(ntfyTries, 1)
       ELSE pc' = "acquire" /\ UNCHANGED ntfyTries
    /\ UNCHANGED <<transport, attempts, due, error, pid, stale, mem, proc,
                   smsTries, accepted, lost, unrecorded, faults>>

PublishOk ==
    /\ Alive /\ pc = "publishing"
    /\ accepted' = More(accepted, 1)
    /\ pc' = "published"
    /\ UNCHANGED <<columns, stale, mem, proc, ntfyTries, smsTries, lost,
                   unrecorded, faults>>

PublishedThenSms ==   \* mutant: no `continue`
    /\ Alive /\ pc = "published"
    /\ status' = Put(status, "published")
    /\ error' = Put(error, "none")
    /\ stuck' = Put(stuck, FALSE)
    /\ pc' = "acquire"
    /\ UNCHANGED <<transport, attempts, due, pid, stale, mem, proc, history, faults>>

PublishedCommit ==
    /\ Alive /\ pc = "published"
    /\ status' = Put(status, "published")
    /\ error' = Put(error, "none")
    /\ stuck' = Put(stuck, FALSE)
    /\ pc' = "top" /\ mem' = Idle
    /\ UNCHANGED <<transport, attempts, due, pid, stale, proc, history, faults>>

\* HTTPError, ValueError or TimeoutError.  A timeout or a reply that is not
\* JSON may hide an acceptance (took = 1).
PublishFails ==
    /\ Alive /\ pc = "publishing"
    /\ \E took \in {0, 1} : accepted' = More(accepted, took) /\ lost' = More(lost, took)
    /\ mem' = [mem EXCEPT !.transport = "sms-fallback"]
    /\ pc' = "fallback"
    /\ UNCHANGED <<columns, stale, proc, ntfyTries, smsTries, unrecorded, faults>>

FallbackUncommitted ==   \* mutant: the decision stays in memory
    /\ Alive /\ pc = "fallback"
    /\ pc' = "acquire"
    /\ UNCHANGED <<columns, stale, mem, proc, history, faults>>

FallbackThenContinue ==   \* mutant: the SMS is left to another iteration
    /\ Alive /\ pc = "fallback"
    /\ transport' = Put(transport, mem.transport)
    /\ error' = Put(error, "ntfy")
    /\ stuck' = Put(stuck, FALSE)
    /\ pc' = "top" /\ mem' = Idle
    /\ UNCHANGED <<status, attempts, due, pid, stale, proc, history, faults>>

\* The fallback decision is committed before any SMS.
FallbackCommit ==
    /\ Alive /\ pc = "fallback"
    /\ transport' = Put(transport, mem.transport)
    /\ error' = Put(error, "ntfy")
    /\ stuck' = Put(stuck, FALSE)
    /\ pc' = "acquire"
    /\ UNCHANGED <<status, attempts, due, pid, stale, mem, proc, history, faults>>

\* limiter.acquire() returns (see RateLimiter) and the SMS call opens.
Acquire ==
    /\ Alive /\ pc = "acquire"
    /\ smsTries' = More(smsTries, 1)
    /\ pc' = "sending"
    /\ UNCHANGED <<columns, stale, mem, proc, ntfyTries, accepted, lost,
                   unrecorded, faults>>

SendOk ==
    /\ Alive /\ pc = "sending"
    /\ accepted' = More(accepted, 1)
    /\ mem' = [mem EXCEPT !.outcome = "ok"]
    /\ pc' = "record"
    /\ UNCHANGED <<columns, stale, proc, ntfyTries, smsTries, lost, unrecorded, faults>>

\* ProviderError.  A 4xx is a refusal; a network error, a timeout, a 5xx or a
\* 429 is transient, and the handset may have taken the message all the same.
SendFails ==
    /\ Alive /\ pc = "sending"
    /\ \E kind \in {"permanent", "transient"}, took \in {0, 1} :
          /\ kind = "permanent" => took = 0
          /\ accepted' = More(accepted, took) /\ lost' = More(lost, took)
          /\ mem' = [mem EXCEPT !.outcome = kind]
    /\ pc' = "record"
    /\ UNCHANGED <<columns, stale, proc, ntfyTries, smsTries, unrecorded, faults>>

ExhaustedOneLate(n) == n > MaxAttempts         \* mutant
ExhaustedOneEarly(n) == n >= MaxAttempts - 1   \* mutant
Exhausted(n) == n >= MaxAttempts

StatusAfter(outcome, n) ==
    CASE outcome = "ok" -> "sent"
      [] outcome = "permanent" \/ (outcome = "transient" /\ Exhausted(n)) -> "failed"
      [] OTHER -> "queued"

\* The commit that ends the iteration.  The handset's id is the number of the
\* call it answers, or none (0): a reply without one is accepted too.
RecordCommit ==
    /\ Alive /\ pc = "record"
    /\ attempts' = Put(attempts, mem.attempts + 1)
    /\ status' = Put(status, StatusAfter(mem.outcome, mem.attempts + 1))
    /\ due' = IF StatusAfter(mem.outcome, mem.attempts + 1) = "queued"
              THEN Put(due, FALSE) ELSE due
    /\ error' = Put(error, IF mem.outcome = "ok" THEN "none" ELSE mem.outcome)
    /\ stuck' = Put(stuck, FALSE)
    /\ IF mem.outcome = "ok"
       THEN \E id \in {0, smsTries[mem.id]} : pid' = Put(pid, id)
       ELSE UNCHANGED pid
    /\ pc' = "top" /\ mem' = Idle
    /\ UNCHANGED <<transport, stale, proc, history, faults>>

-----------------------------------------------------------------------------
(* Faults: what the iteration held in memory is gone.                      *)

CallOpen == pc \in {"publishing", "sending"}
\* Upstream's answer is in memory only.
Unsaved == pc = "published" \/ (pc = "record" /\ mem.outcome = "ok")

Abandon ==
    \E took \in IF CallOpen THEN {0, 1} ELSE {0} :
       /\ accepted' = [m \in Msgs |-> accepted[m] + IF m = mem.id THEN took ELSE 0]
       /\ lost' = [m \in Msgs |-> lost[m] + IF m = mem.id
                                            THEN took + IF Unsaved THEN 1 ELSE 0
                                            ELSE 0]
       /\ unrecorded' = [m \in Msgs |-> unrecorded[m]
                            + IF m = mem.id /\ pc \in {"sending", "record"} THEN 1 ELSE 0]
       /\ stale' = {} /\ mem' = Idle /\ pc' = "top"
       /\ UNCHANGED <<columns, ntfyTries, smsTries>>

Fault(kind) ==
    /\ kind \in FaultKinds /\ faults < MaxFaults
    /\ faults' = faults + 1

\* `except Exception`: a locked database at a read or a commit, or anything
\* the two inner handlers do not name (a reply whose JSON is not an object,
\* an OSError of the dev provider).  The session is dropped, nothing is counted.
IterationRaises ==
    /\ Alive /\ pc \notin {"top", "acquire"}
    /\ Fault("raise") /\ Abandon
    /\ UNCHANGED proc

\* The pod is killed.
Kill ==
    /\ Alive
    /\ Fault("kill") /\ Abandon
    /\ proc' = "crashed"

\* A rolling restart: lifespan sets the stop event...
Stop ==
    /\ proc = "up"
    /\ Fault("stop")
    /\ proc' = "stopping"
    /\ UNCHANGED <<columns, pc, stale, mem, history>>

\* ...the loop notices it at the top of an iteration...
GracefulExit ==
    /\ proc = "stopping" /\ pc = "top"
    /\ proc' = "stopped"
    /\ UNCHANGED <<columns, pc, stale, mem, history, faults>>

\* ...or is cancelled after ten seconds, wherever it waits.
CancelTasks ==
    /\ proc = "stopping" /\ pc # "top"
    /\ Abandon
    /\ proc' = "stopped"
    /\ UNCHANGED faults

Restart ==
    /\ proc \in {"stopped", "crashed"}
    /\ proc' = "up"
    /\ UNCHANGED <<columns, pc, stale, mem, history, faults>>

-----------------------------------------------------------------------------
LoopStep ==
    \/ RequeueRead \/ RequeueCommit \/ ClaimRead \/ ClaimCommit
    \/ PublishOk \/ PublishedCommit \/ PublishFails \/ FallbackCommit
    \/ Acquire \/ SendOk \/ SendFails \/ RecordCommit

Next ==
    \/ \E m \in Msgs : \/ \E via \in Channels : Enqueue(m, via)
                       \/ BackoffElapses(m)
                       \/ GoesStuck(m)
    \/ LoopStep
    \/ IterationRaises \/ Kill \/ Stop
    \/ GracefulExit \/ CancelTasks \/ Restart

Spec == Init /\ [][Next]_vars

\* The event loop keeps running the task, the clock moves, a stopping process
\* goes away and Kubernetes starts the next one.  Nothing makes callers post.
FairSpec ==
    /\ Spec
    /\ WF_vars(LoopStep)
    /\ WF_vars(GracefulExit \/ CancelTasks)
    /\ WF_vars(Restart)
    /\ \A m \in Msgs : WF_vars(BackoffElapses(m)) /\ WF_vars(GoesStuck(m))

-----------------------------------------------------------------------------
(* What the queue promises.                                                *)

\* Upstream takes a message twice only if the relay never learnt, on disk, of
\* an earlier acceptance: duplicates cost a lost answer each, across both
\* channels, any number of retries and any number of restarts.
DuplicatesNeedLostAnswers == \A m \in Msgs : accepted[m] <= 1 + lost[m]

\* max_attempts bounds the SMS calls of a message, but for the calls whose
\* iteration died before the commit that counts them.
RetryBudget == \A m \in Msgs : smsTries[m] <= MaxAttempts + unrecorded[m]

\* Once an SMS call has opened for a message, no iteration of this process or
\* a later one publishes it to ntfy.
NoNtfyAfterSms ==
    [][\A m \in Msgs : smsTries[m] > 0 => ntfyTries'[m] = ntfyTries[m]]_vars

\* A row the loop has settled is never touched by it again, nor is its
\* message handed to anyone: not by requeueing, not by a late claim.
SettledIsFinal ==
    [][\A m \in Msgs : status[m] \in Settled =>
          /\ status'[m] = status[m] /\ transport'[m] = transport[m]
          /\ attempts'[m] = attempts[m] /\ pid'[m] = pid[m]
          /\ smsTries'[m] = smsTries[m] /\ ntfyTries'[m] = ntfyTries[m]
          /\ accepted'[m] = accepted[m]]_vars

\* While a call or a wait is open for a message, its committed row says
\* `sending` and agrees with the copy in memory: a process that dies now
\* leaves behind exactly what the next one needs to resume on the same channel.
Held == pc \in {"publishing", "published", "fallback", "acquire", "sending", "record"}
WrittenAhead ==
    Held => /\ status[mem.id] = "sending"
            /\ attempts[mem.id] = mem.attempts
            /\ pc # "fallback" => transport[mem.id] = mem.transport

\* A row in `sending` that no iteration holds was left there by a fault: the
\* loop's own paths always put a row back or settle it.
Stranded == {m \in Msgs : status[m] = "sending" /\ m # mem.id}
OrphansNeedFaults == Cardinality(Stranded) <= faults

\* `failed` is always accounted for: a refusal, the last attempt, or a verdict
\* of the handset on a message it had taken.
FailedIsExplained ==
    \A m \in Msgs : status[m] = "failed" =>
        \/ error[m] = "permanent"
        \/ error[m] = "transient" /\ attempts[m] = MaxAttempts
        \/ error[m] = "none" /\ pid[m] # 0

\* Every message a caller was told is queued is settled in the end, whatever
\* the finitely many crashes, restarts and exceptions on the way.
EventuallySettled ==
    \A m \in Msgs : status[m] # "absent" ~> status[m] \in Settled

-----------------------------------------------------------------------------
\* The loop is an at-least-once outbox (see Outbox): what a caller may read of
\* a message's fate, and the copies upstream took of it.
Fate(m) == CASE status[m] = "absent" -> "none"
             [] status[m] \in Pending -> "pending"
             [] OTHER -> status[m]
Promise == INSTANCE Outbox WITH fate <- [m \in Msgs |-> Fate(m)], copies <- accepted
ImplementsOutbox == Promise!FairSpec
=============================================================================
