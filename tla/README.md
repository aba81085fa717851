# A verification development of sms-relay

sms-relay is one Python process over one SQLite file. Services queue texts
through its HTTP API; a background loop sends them through an Android handset's
gateway, or publishes them to ntfy and falls back to SMS; texts the handset
receives are stored and fanned out to subscribers' webhooks. This directory
holds TLA+ models of that program, TLC configurations that check them on small
instances, and TLAPS proofs for every instance. Paths below are relative to
`src/app/sms_relay/` unless they start elsewhere.

## 1. The system

| Part | State | Operations | Correct when |
|---|---|---|---|
| Send API `routes/messages.py` | rows of `messages`, UNIQUE (service, idempotency_key) | POST /messages, GET one, GET list | a repeated key names the original; 202 means durable; a page walk misses or repeats a message only for cause |
| Grafana webhook `routes/grafana.py` | none; derives a key from the alerts and the time, and one text from the alerts | POST /grafana, calls `send_message` | one text per group and reminder period; it fits, and leaves out only the least urgent |
| Send loop `worker.send_loop` | status, transport, attempts, next_attempt_at, updated_at, error, provider id | requeue orphans, claim, publish, fall back, send, record | at-least-once, bounded retries, duplicates only for lost answers, nothing stranded |
| Rate limiter `worker.RateLimiter` | a deque of grant times, in memory | acquire | never more than the limit in a window of one process; no needless or endless wait |
| Status loop and receipts `worker.status_loop`, `routes/inbound._apply_receipt` | status of `sent` rows; a session's answers, in memory | poll, apply a pushed receipt | a verdict in a row is the handset's, of the copy the row names, and arrives |
| Inbound webhook `routes/inbound.py` | inbound rows | store a text once, enqueue deliveries | no acknowledged text is lost, none is stored twice |
| Fan-out `webhooks.py`, `worker.fanout_loop` | rows of `webhook_deliveries`; a batch in memory | read a batch, post each, commit once | every delivery settles, on its own schedule |
| Retention `worker.prune_loop` | both tables | delete old terminal rows, deliveries by cascade | takes nothing another part still needs |
| Process `main.lifespan` | tasks, the stop event | start, stop, cancel after ten seconds | a restart loses nothing |
| Providers, ntfy client | none | send, fetch_status, publish | external outcomes |
| Authentication, configuration, phone numbers, schemas, health, metrics, static page, chart | none that changes | pure checks, parsing, reads | mostly not modelled: see 7 |

How they interact: only through the database. The loops and the request handlers
are coroutines of one event loop, so **every await is a point where another
component runs, or where the process dies**; SQLite lets one writer commit at a
time and fails the others after `busy_timeout`. Callers, the gateway and Grafana
repeat requests whose answer they did not get; upstream may act on a call whose
answer the relay does not get.

What is hard: the gap between a remote call and the commit that records it;
in-memory state of an iteration lost to an exception, a cancellation or a kill;
reads before an await used after it (dedup, requeue, fan-out); one commit for
twenty posts; retention deleting what a session holds; timers that fire early;
retries of callers that overlap. `PROJECT.json` lists these hazards by line with
the properties that cover each.

## 2. Modules

| Module | Models |
|---|---|
| `SendLoop` | the outbound queue, the send loop and the life of the process |
| `Relay` | extends `SendLoop` with the handset, the status loop, pushed receipts and retention: one table, one process |
| `Outbox` | what the queue promises a caller, abstractly |
| `RateLimiter` | `RateLimiter.acquire` against a clock |
| `Inbox` | what is promised of a received text and its deliveries, abstractly |
| `Fanout` | inbound webhook, fan-out loop, retention of inbound rows, restarts |
| `Intake` | POST /messages, its idempotency keys, Grafana's keys |
| `Digest` | the check, sort, packing and key of a Grafana group's text |
| `MessageLog` | GET one message and GET the list, page by page, over a table that changes |
| `SendLoopProofs`, `RelayProofs`, `RateLimiterProofs`, `FanoutProofs`, `IntakeProofs`, `DigestProofs`, `MessageLogProofs` | theorems and proofs about the module of that name |
| `MCSendLoop`, `MCRelay`, `MCFanout`, `MCIntake`, `MCDigest`, `MCMessageLog` | small sets for the constants of the module of that name (RateLimiter takes numbers only, and needs none) |

`Relay` composes by extension: its steps are those of `SendLoop`, each beside
what it means to the others, and the others' own. `Outbox` is the abstract
specification of both, `Inbox` that of `Fanout`. `Fanout`, `Intake`, `Digest` and
`MessageLog` share no state with the first two but the process and the table, and
each models as much of those as it meets.

### SendLoop
One iteration is a chain of steps `pc`: `top -> requeue -> claim -> claimed ->
(publishing -> published | fallback) -> acquire -> sending -> record -> top`,
cut at the awaits of `worker.py`: `RequeueRead`/`RequeueCommit`
(`_requeue_stuck`), `ClaimRead`/`ClaimCommit` (`_claim_next`), `PublishOk`,
`PublishedCommit`, `PublishFails`, `FallbackCommit`, `Acquire`, `SendOk`,
`SendFails`, `RecordCommit`. The columns are those of `messages` as committed;
`mem` is the ORM object between two commits. Time is two booleans per row: `due`
(`next_attempt_at` has passed) and `stuck` (`updated_at` is older than the
requeue cutoff). `PublishFails` and `SendFails` choose whether upstream took the
message all the same; a refusal (4xx) is never taken. `IterationRaises` is the
loop's `except Exception`, `Kill` the pod, `Stop`/`GracefulExit`/`CancelTasks`
the shutdown of `main.lifespan`, each losing `mem`. `Channels` are the
transports a deployment's routes give its messages. `accepted`, `lost`,
`unrecorded`, `ntfyTries` and `smsTries` are history that no guard reads, except
that the provider's id is named after the call it answers.

### Relay
`PollRead`, `Fetch`/`FetchFails`, `PollCommit`/`PollRaises` are a round of
`status_loop`: the rows are read once, each answer waits in the session (`news`)
while the next is fetched, and one commit writes them all. `ReceiptRead` and
`ReceiptCommit` are `_apply_receipt`. `Prune` is `prune_loop`'s DELETE of
terminal rows; a commit that finds its row deleted raises StaleDataError and
writes nothing. `AgesOut` is the day after which a row is not asked about any
more. The handset gives a verdict on a copy, `delivered` or `failed`, for good
(`HandsetSettles`): `ReceiptCommit` and `PollCommit` overwrite what is there, as
inbound.py:138 and worker.py:224 do, and `VerdictsAreTrue` rests on this
assumption about the handset. Only the last copy it accepted is told apart: an
earlier one has an id that no row holds. One pushed receipt is in hand at a time:
the handler's two steps touch nothing but its row, and two of them for one row
write the same word. Everything but `status` belongs to the send loop.

### Outbox
A message is submitted, copies are handed over while it is pending, and it
settles once; success needs a copy; a sent message may be reported on once; what
can change no more may be forgotten. `SendLoop!Promise` maps a row's status to
its fate and the acceptances to the copies.

### RateLimiter
`acquire` awaits only in its sleep, so an attempt (pop what has aged, take a slot
or sleep) is atomic: `Grant` or `GoToSleep`. asyncio may fire a timer up to its
clock's resolution early and any bounded amount late (`Early`, `Late`).
`Restart` empties the deque, as a new process does; `lives` records which process
granted a slot.

### Fanout
`Post`, `PostRead`, `PostCommit`/`PostRefused`, `Reply` are the webhook request,
cut at its awaits; the gateway repeats a text until it hears a 2xx. A text whose
event bears no provider id (`Unnamed`) is never found again by the lookup
(`Known`, inbound.py:84), and is stored anew at each repeat: nothing is promised of
its copies. `BatchRead`,
`Deliver`/`Cancel`, `Acknowledged`/`Refused`/`Poisoned`, `BatchCommit` are the
loop. Three effects of the session matter and are modelled: `session.get` of a
message not yet loaded flushes the outcomes so far and so holds the writer lock
across the next posts (`locked`); a flush or commit that meets a deleted row
raises StaleDataError (`FlushFails`, `CommitFails`); any exception drops the
outcomes of the whole batch (`Abandon`). `Poison` subscribers have a URL for
which httpx raises something that is not an `HTTPError`. `Prune` removes any
stored row, because `created_at` is the gateway's timestamp.

### Inbox
A text arrives and is kept, with a delivery for each subscriber of that moment;
the gateway is told of texts that are kept; copies are handed over while a
delivery is pending, or was when the message was forgotten (the one on its way);
a commit settles pending deliveries, as delivered only what was taken; a message
is forgotten with all its deliveries. `Fanout!Promise` maps a delivery row to its
fate (a wanted delivery without a row is forgotten), and requests, batches,
attempts and the lock to nothing.

### Intake
`Post`, `Reject`/`Replay`/`Miss`, `Insert`, `Lose`/`Reraise`, `Accept` are
`send_message`, cut at its two lookups and its commit. The constraint and the
truth tests see different things: NULL does not collide, `""` does, and neither
passes `if request.idempotency_key`. For a Grafana request the key is the set of
its alerts, each with its reminder number, computed when the request arrives.

### Digest
`Post` and `Repost` bring a group, in any order; `Receive` checks it (one
malformed alert, none, or more than a hundred refuse it) and sorts it; `Pack`
adds an alert while it fits, `Finish` counts the rest and hands the text to
`SendRequest`, whose `max_length` is the second check. A payload past 64 KiB is
refused with a 413 before anything is read of it (grafana.py:31) and is no group
here, so `WellFormedIsQueued` is about the composed text only. A text is its length: the
limits 1800, 3800 and 4000 and the 34 characters and digits of the last line are
those of the code. An alert's fingerprint, start and reminder are one number.
`Orders` keeps Python's sort stable: the sort key omits the text, so entries that
agree in priority and identity stay in the order they came.

### MessageLog
`Begin`, `Count`, `Page` are a walk with `list_messages`: a count and a page of
rows per request, each query over the table of its moment; `Get` is
`get_message`. `StoreOutbound`, `StoreInbound` (whose `created_at` is the
gateway's), `Move` and `Prune` are the rest of the program as the log sees it.
SQL leaves the order of equal `created_at` open, so a page is any rows that some
such order gives (`PageAt`).

## 3. Runs

Passing:

| Run | Shows |
|---|---|
| `SendLoop` | duplicates across ntfy and SMS need a lost answer each; SMS calls stay within max_attempts plus uncounted calls; an open call is written ahead; orphans need faults; `failed` is explained; no ntfy after an SMS; settled rows are final; every message settles; the loop implements `Outbox` with its fairness |
| `Relay` | with the handset, polls, receipts and retention around it: a row's verdict is the handset's, of the copy the row names; a verdict reaches its row while it is asked about; the whole still implements `Outbox` |
| `LimiterSafety` | within a process life no window is exceeded, and a burst over restarts grows by one window's worth for each; bounded wait and no needless nap, for early and late timers |
| `FanoutSafety` | acknowledged texts are stored; copies need overlapping requests; no delivery is forgotten; a duplicate needs a lost answer; only unconfigured subscribers are cancelled; requests, loop and retention together implement `Inbox`; all this beside a poisonous subscriber |
| `FanoutLiveness` | with overlapping requests and retries: posts stay within their budget, every delivery settles and every text is stored, despite a fault |
| `IntakeSafety` | races and repeats on one key, two services, retention, a crash or a locked database |
| `IntakeReminders` | a group is texted once, and once more per reminder period of its alerts |
| `MessageLog` | what a walk misses or repeats is explained by what left or entered meanwhile, or by a tie; a quiet walk is exact; a listed message that is a 404 was pruned |
| `Digest` | a well-formed group is never refused for its length; the text names an alert of its priority and hides no more urgent one; a repeat in another order has the same key, and the same text |

Violations, each a disagreement between a document or comment and the code, told
in `PROJECT.json` under findings:

| Run | What happens |
|---|---|
| `FanoutRace` | overlapping repeats store a text twice |
| `FanoutHeldUp` | one bad URL keeps the other subscribers' deliveries from being recorded |
| `IntakeEmptyKey` | a repeat with the key `""` gets a 500 |

Other places where the words and the code part ways, visible in the models but
given no run of their own:
- main.py:54-56 waits for the loops "so a rolling restart doesn't strand a row
  in `sending`"; a call or a wait for a slot that outlasts the ten seconds is
  cancelled and leaves one (`SendLoop!CancelTasks`; `OrphansNeedFaults` counts
  them, and `EventuallySettled` shows that they are requeued).
- README.md:55 has "Every message on the record"; an exception that is not a
  `ProviderError` leaves an SMS call uncounted, and it is repeated without bound
  (`RetryBudget` counts such calls apart).
- README.md:52-54 says an unreachable phone "delays delivery; it doesn't lose
  it"; `max_attempts` transient errors (five, unless configured
  otherwise: config.py:73) settle a message as `failed` (worker.py:160).
- worker.py:3-6 says state lives in the database; the limiter's window is in
  memory, and a restart lets up to twice the limit through in a minute
  (`BurstBound` says how much, for any number of restarts).
- values.yaml:78 says the limit is "Per API key"; one limiter serves them all.
- webhooks.py:3-5 says acknowledged deliveries are not repeated; a batch dropped
  after its acknowledgements repeats them (`DuplicatesNeedLostAcks` counts them).
- routes/grafana.py:71-72 says "identical webhook retries do not" change the key;
  one that straddles a reminder boundary does (`RemindersArePaced` allows it).

### Bounds and why they are enough
- `SendLoop`: two messages (claim order, a stranded row beside a held one), two
  attempts (a retry and a last attempt), one fault of any kind. The proofs remove
  these bounds for every safety property; for liveness, a fault costs an
  iteration, and a second one only another.
- `Relay`: two messages, so that a round holds one answer while it fetches
  another and one commit writes both; one attempt and SMS only, because what a
  retry and a fallback do is the send loop's and was asked there, and ntfy rows
  are never polled; two faults, so that a round is lost after a crash. The
  proofs remove these bounds for the safety properties.
- `RateLimiter`: two slots per window of three ticks, nine ticks, seven sends,
  three lives: three windows, with two restarts anywhere. The proofs remove these
  bounds too.
- `FanoutSafety`: two texts, one of them without an id, two rows, two subscribers of which one is poisonous,
  one request at a time, one attempt: a batch has two deliveries of one text or of
  two, which is what a shared commit, a flush in the middle and a deletion
  underneath need, and a request can meet the lock it holds. `FanoutLiveness`: one
  text, two rows, two overlapping requests, two attempts, which make a retry and a
  last one. `Cap` stops history counters; a counter that reaches it only weakens
  the two inequalities that read it. A request waits at its insert once the row
  numbers are used up: they are a bound. The proofs remove all of them for safety.
- `Intake`: two requests at once are the race of the code's comment; `MaxRows`
  bounds ids; one fault. `IntakeReminders` runs one request at a time past a
  reminder boundary of each of two alerts with different start times. The callers
  may stop once the ids are used up: these configurations do not check deadlock.
- `Digest`: three alerts of lengths 196, 197 and 5000, where the last is cut to
  1800: two cut texts leave room for 196 characters and not for 197, so the loop
  ends, breaks at the second entry and breaks at the third; two posts. It stops
  after them, and deadlock is not checked. The proofs allow up to a hundred
  alerts of any lengths, and any number of posts.
- `MessageLog`: three rows, one row a page (four requests to a walk), three
  times, so that rows tie, precede and follow; rows are symmetric. The walk may
  begin at any reachable table; there is one, and after it nothing need happen, so
  deadlock is not checked.
- `MaxFaults` bounds faults everywhere; a stop counts as one.

## 4. Fairness
`SendLoop!FairSpec`: weak fairness of the loop's steps (the event loop runs ready
tasks; every await of the loop ends, because the HTTP clients have timeouts and
SQLite a busy timeout), of the end of a stopping process (the ten-second wait and
the cancellation), of `Restart` (Kubernetes), and of the clock (`BackoffElapses`,
`GoesStuck`). Nothing makes callers post, upstream accept, or faults happen.
`Relay!RelayFairSpec`: weak fairness of the status loop, of the end of a stopping
process and of `Restart`; none of the send loop, which a verdict no longer needs,
nor of the handset, its pushes or a row's ageing: `VerdictsArrive` is the polling's
doing alone.
`Fanout!FairSpec`: weak fairness of the loop and the process as in `SendLoop`, of
each request in progress and of the gateway's repeats of a text it has no 2xx for;
none of retention or faults.

## 5. Proofs
Every safety invariant and action property of the passing runs is a theorem, and
so is the safety half of each refinement. The proofs assume only the constants'
assumptions in the modules: that messages, rows, subscribers, handlers and the
alerts of a group are finitely many; that times are natural numbers, periods and
limits positive ones (the limiter's may be any integer); that a sentinel is not
also a value (`"none"` is no row and no text); and, of `Intake`, that only
Grafana's credential posts groups and that their keys are made, not given
(grafana.py:24). They are about the models: that a model is faithful to the code
rests on the map in `PROJECT.json` and on reading. Each has the same plan: an
inductive invariant that conjoins what the properties leave unsaid, one lemma per
action or group of actions, and the properties from it.

`SendLoopProofs` proves, for every set of messages, every `max_attempts` and any
faults, every safety property of the run `SendLoop`, and `OutboxSafety`: the loop
implements the safety part of `Outbox`. `IInv` says what `mem` is at each step
(`MemoryInv`); that rows read are unchanged until they are written (`ReadInv`,
true because one loop writes them); that unsettled rows have attempts left
(`AttemptsInv`); and two exact accounts: calls started = counted + uncounted + in
flight (`AccountingInv`), and acceptances = lost + (settled successfully or about
to be) (`AcceptanceInv`). `RetryBudget` and `DuplicatesNeedLostAnswers` are
inequalities that follow from these equations, and are not inductive without
them. `OrphanInv` adds that a stopping process has spent a fault on the row it
may yet strand.

`RelayProofs` proves the same of the composition. `RInv` adds that a row with a
provider's id is a reported one and its last copy is the one it names
(`IdentifiedInv`), that a handset's copy came by a call that was made
(`HandsetInv`) and that what a session holds is what the handset said of the row's
copy, and, being a verdict, says still (`SessionInv`): this is why a stale answer
does no harm. Two facts carry `IInv` over: the others change `status` only, and
only of rows the send loop has let go of (`OthersKeepIInv`), and the send loop
does not touch such rows (`OnlyOpenTouched`). The safety properties of the run
`SendLoop` are proved again of the whole (`RetriesBoundedTogether`,
`OrphansTogether`, `FallbackTogether` and so on): `OthersLeaveTheQueue` says that
the polls, the receipts and retention change nothing of the queue but the status
of rows that are out of it, and into no status that would bring one back
(`SettlementTogether`). `RelayRefines` maps commits of many rows to one step of
`Outbox`; through it a fact of the outbox is one of the relay: a row that says
`sent`, `published` or `delivered` is of a message upstream has taken
(`SuccessReal`).

`RateLimiterProofs` proves all properties of `LimiterSafety` for every
limit (zero and negative ones included), window, nap, timer error and number of
lives. `LInv` says that the deque is the end of this life's log, that what it
dropped has aged (`DequeInv`), that grants are in order (`OrderInv`) and where a
timer stands (`TimerInv`). A burst over several lives is cut at the restarts:
`BurstsAdd` adds what each part may hold. That the deque is never longer than the
limit (`LimiterTypes`) is the guard of the one step that lengthens it.

`FanoutProofs` proves every safety property of the two Fanout runs for any texts,
subscribers, overlapping requests, attempts and faults. `FInv`: the three parts of
a batch are disjoint (`LoopInv`); a delivery in a batch is pending with attempts
left, or gone with its message (`BatchInv`, the fact a shared batch rests on);
deliveries come and go with their message (`RowInv`); posts are counted, lost from
the count or in flight, and acceptances lost but for one (`CountInv`); a request
about to answer 2xx has its text in the database (`GateInv`); copies and those on
their way number at most the requests (`CopyInv`). `InboxSafety` proves the
refinement of `Inbox`; it needs besides that a delivery that is in the table or in
a batch was wanted, and that an outcome `delivered` was an acceptance
(`WantedInv`). `InboxStep` has a step per action: a batch's commit is one `Settle`
of all it settled, a dropped batch hands over at most the post that was open, and
whatever else the loop and the requests do the inbox does not see. Through it, a
delivery recorded as delivered is one its subscriber has accepted
(`DeliveredReal`). That a settled delivery is never posted again is
`SettledForGood`.

`IntakeProofs` proves the properties of `IntakeSafety` and of `IntakeReminders`
for any requests, handlers and faults. `QInv`: ids are fresh, and a key in the
table is there once (`TableInv`); what a request has found out is true still when it acts on it, rows
being only added to the history and what was pruned staying so (`HandlerOk`); and
so for answers (`AnswerOk`). `RemindersArePaced` rests on what a key says
(`KeyInv`): a row's key is that of its group at some time past. Two rows of one
group differ in their key, so at least one alert's reminder differs; reminders
only grow with time, so the keys of a group are ordered, and the number of
reminders gone by when each was made is an injection of the rows into 0..N, where
N counts the reminders to date: one row more than N at most. In
`IntakeTypes` the hard part is the bound on ids: `TypeInv` reserves one for each
row that a request past its lookups may still insert (`IdsLeft`).

`DigestProofs` proves that no group of up to a hundred alerts, of any lengths, in
any order, makes a text past `max_length` or one that names nothing, and that what
is left out is no more urgent than what is told. `DInv`: the entries are the group
in order of priority (`Sorted`, `Same`) and the text so far fits its budget
(`Budget`); `FinishStep` adds the last line to it. `RetriesSame` is about two sorts
and two packings. Two sorted orders of one group agree at every place up to the
identity of the alert (`SortsTheSame`): otherwise, at the first place where they
part, one has more alerts ahead of it than there is room for, a pigeonhole
argument (`NoRoomAhead`); so the keys agree, and if the identities are distinct so
do the entries (`DistinctSortTheSame`). `RetryInv` then keeps the first packing,
with the characters it had used after each entry, as a record that a repeated
packing retraces (`Packing`, `NowIs`), stopping where it stopped (`IsFull`).

`MessageLogProofs` proves the properties of a walk for any rows, services, times
and page size. `PositionInv` relates a row to the offset by the rows that come
before it in every order SQL may choose (`Newer`): but for ties and for newer rows
that left, a row not shown yet has at least `offset` of them; but for ties and
newer rows that entered, a row that was shown has fewer, and was shown once. Both
halves follow from what a page is, the difference of two heads of the order
(`PageShape`, `HeadsAreFirst`), and from what one arrival or departure does to
such a count. At the end of the walk no row can have `offset` others before it,
and `WalksAreExplained` follows; with nothing entered or left, `CountInv` gives
the total.

## 6. Checked but not proved
Liveness, the fairness half of the refinements, and ENABLED are beyond TLAPS and
stay with TLC, on the instances of section 3: `EventuallySettled` and the fairness
in `ImplementsOutbox` (run `SendLoop`), `VerdictsArrive` (`Relay`),
`EveryDeliverySettles` and `EveryTextIsStored` (`FanoutLiveness`). The theorems'
safety part of `ImplementsOutbox` is `OutboxSafety`, of the other refinements the
whole. The three disagreements of section 3 are counterexamples, and TLC's.

## 7. Not modelled, and the plan
Not modelled: authentication (`auth.py`, a pure check before a handler), the
parsing of the environment (`config.py`; which subscribers a deployment has is
modelled, in `Fanout`), phone numbers and the field checks of `schemas.py` (but for
the limit on the body, in `Digest`), health and metrics (reads), the static page,
the chart, the scripts and the docs' demo server: they keep no state or change
none, and the properties here do not tell their data apart. Of `init_db` the
column migration is left out: three ALTERs, each tried only if its column is
missing, by the one process the chart runs (`replicas: 1`, `Recreate`), before any
loop; a start after a crash does what is left. Message bodies are abstracted away
except for their length.

What could be added: the backoff schedules and topic routing as pure operators
against reference definitions.
