------------------------------ MODULE MessageLog ------------------------------
(***************************************************************************)
(* Reading the message log (routes/messages.py): get_message, and            *)
(* list_messages walked page by page, while messages are stored, move        *)
(* between statuses and are deleted.  Every page is two queries, a count     *)
(* and the rows, with no transaction around them or around the walk: each    *)
(* query sees the table as it is when it runs.                               *)
(***************************************************************************)
EXTENDS Integers, FiniteSets

CONSTANTS Rows,      \* message ids
          Services,  \* API keys' services
          Reader,    \* the one that reads
          Times,     \* created_at values
          Limit      \* rows per page

ASSUME LogAssumption ==
    /\ IsFiniteSet(Rows) /\ "none" \notin Rows /\ Reader \in Services
    /\ Times \subseteq Nat /\ Limit \in Nat \ {0}

VARIABLES
    (* The table *)
    stored,     \* the rows that exist
    direction, service, status, created,   \* their columns
    clock,      \* utcnow(): no row's default is later
    (* The reader's walk *)
    pc,         \* "idle", "count", "page", "look"
    filter,     \* the status asked for, or "all"
    offset, total, told, again,   \* told: the rows it was shown; again: shown twice
    answer,     \* of its last get_message: a row, and whether it was found
    (* History of the walk *)
    throughout, \* rows that matched from the first page to now
    entered, left,   \* rows that began, or ceased, to match since
    pruned

table == <<stored, direction, service, status, created, clock>>
walk == <<pc, filter, offset, total, told, again, answer>>
history == <<throughout, entered, left, pruned>>
vars == <<table, walk, history>>

Statuses == {"queued", "sending", "delivered", "received"}
NoAnswer == [row |-> "none", found |-> FALSE]

TypeOK ==
    /\ stored \subseteq Rows
    /\ direction \in [Rows -> {"outbound", "inbound"}]
    /\ service \in [Rows -> Services \cup {"inbound"}]
    /\ status \in [Rows -> Statuses]
    /\ created \in [Rows -> Times] /\ clock \in Times
    /\ pc \in {"idle", "count", "page", "look"}
    /\ filter \in {"all", "queued"}
    /\ offset \in Nat /\ total \in 0..Cardinality(Rows)
    /\ told \subseteq Rows /\ again \subseteq told /\ Cardinality(told) <= offset
    /\ answer \in [row : Rows \cup {"none"}, found : BOOLEAN]
    /\ throughout \subseteq stored /\ throughout \cap left = {}
    /\ entered \subseteq Rows /\ left \subseteq Rows /\ pruned \subseteq Rows

Init ==
    /\ stored = {}
    /\ direction = [r \in Rows |-> "outbound"] /\ service = [r \in Rows |-> Reader]
    /\ status = [r \in Rows |-> "queued"]
    /\ clock \in {t \in Times : \A u \in Times : t <= u}
    /\ created = [r \in Rows |-> clock]
    /\ pc = "idle" /\ filter = "all" /\ offset = 0 /\ total = 0
    /\ told = {} /\ again = {} /\ answer = NoAnswer
    /\ throughout = {} /\ entered = {} /\ left = {} /\ pruned = {}

-----------------------------------------------------------------------------
(* The two handlers' conditions.                                           *)

\* list_messages: filters.  (A direction, which never changes, can be asked
\* for too.)
Matches(r) ==
    /\ r \in stored
    /\ service[r] = Reader \/ direction[r] = "inbound"
    /\ filter # "all" => status[r] = filter

ReadableIfOwn(r) == r \in stored /\ service[r] = Reader   \* mutant
\* get_message: what is not a 404.
Readable(r) ==
    /\ r \in stored
    /\ ~(direction[r] = "outbound" /\ service[r] # Reader)

Matching == {r \in Rows : Matches(r)}

\* ORDER BY created_at DESC: q may come before r.  SQL leaves ties open.
Follows(r, q) == created[q] >= created[r]

Least(a, b) == IF a < b THEN a ELSE b

\* What LIMIT n can return.
Heads(n) ==
    {S \in SUBSET Matching :
        /\ Cardinality(S) = Least(n, Cardinality(Matching))
        /\ \A q \in S, r \in Matching \ S : Follows(r, q)}

PageAt(from, to) ==
    {P \in SUBSET Matching : \E S \in Heads(from) : P \cap S = {} /\ P \cup S \in Heads(to)}

PagesFromOneBefore(skip) ==   \* mutant: OFFSET counts from one
    IF skip = 0 THEN PageAt(0, Limit) ELSE PageAt(skip - 1, skip - 1 + Limit)
PagesAndOneMore(skip) == PageAt(skip, skip + Limit + 1)   \* mutant: one row over LIMIT
\* OFFSET skip LIMIT Limit.
Pages(skip) == PageAt(skip, skip + Limit)

-----------------------------------------------------------------------------
(* The rest of the service, as the log sees it.                            *)

\* What the step does to the reader's result.
Track ==
    /\ UNCHANGED walk
    /\ IF pc = "idle"
       THEN UNCHANGED <<throughout, entered, left>>
       ELSE /\ throughout' = throughout \cap Matching'
            /\ entered' = entered \cup (Matching' \ Matching)
            /\ left' = left \cup (Matching \ Matching')

\* POST /messages: created_at defaults to the time of the insert.
StoreOutbound(r, s) ==
    /\ r \notin stored \cup pruned
    /\ stored' = stored \cup {r}
    /\ direction' = [direction EXCEPT ![r] = "outbound"]
    /\ service' = [service EXCEPT ![r] = s]
    /\ status' = [status EXCEPT ![r] = "queued"]
    /\ clock' \in {t \in Times : t >= clock}
    /\ created' = [created EXCEPT ![r] = clock']
    /\ UNCHANGED pruned /\ Track

\* The gateway's webhook: created_at is the gateway's receivedAt, whenever
\* that was.
StoreInbound(r) ==
    /\ r \notin stored \cup pruned
    /\ stored' = stored \cup {r}
    /\ direction' = [direction EXCEPT ![r] = "inbound"]
    /\ service' = [service EXCEPT ![r] = "inbound"]
    /\ status' = [status EXCEPT ![r] = "received"]
    /\ \E t \in Times : created' = [created EXCEPT ![r] = t]
    /\ UNCHANGED <<clock, pruned>> /\ Track

\* The send loop claims, requeues and settles.
Progress == {<<"queued", "sending">>, <<"sending", "queued">>, <<"sending", "delivered">>}

Move(r) ==
    /\ r \in stored
    /\ \E new \in Statuses :
          /\ <<status[r], new>> \in Progress
          /\ status' = [status EXCEPT ![r] = new]
    /\ UNCHANGED <<stored, direction, service, created, clock, pruned>> /\ Track

\* prune_loop.
Prune(r) ==
    /\ r \in stored /\ status[r] \in {"delivered", "received"}
    /\ stored' = stored \ {r}
    /\ pruned' = pruned \cup {r}
    /\ UNCHANGED <<direction, service, status, created, clock>> /\ Track

-----------------------------------------------------------------------------
(* The reader.                                                             *)

\* (Bound: one walk.  It begins at any table, so another would add nothing.)
Begin ==
    /\ pc = "idle"
    /\ pc' = "count" /\ filter' \in {"all", "queued"}
    /\ UNCHANGED <<table, offset, total, told, again, answer, pruned>>
    /\ throughout' = Matching' /\ entered' = {} /\ left' = {}

CountOfAll == Cardinality(stored)   \* mutant: no filters
CountOf == Cardinality(Matching)

\* select(func.count())
Count ==
    /\ pc = "count"
    /\ total' = CountOf
    /\ pc' = "page"
    /\ UNCHANGED <<table, filter, offset, told, again, answer, history>>

\* The rows, and the answer.  The reader asks for the next page until one is
\* short.
Page ==
    /\ pc = "page"
    /\ \E rows \in Pages(offset) :
          /\ told' = told \cup rows
          /\ again' = again \cup (told \cap rows)
          /\ pc' = IF Cardinality(rows) = Limit THEN "count" ELSE "look"
    /\ offset' = offset + Limit
    /\ UNCHANGED <<table, filter, total, answer, history>>

\* get_message, of something that was listed.
Get(r) ==
    /\ pc = "look" /\ r \in told
    /\ answer' = [row |-> r, found |-> Readable(r)]
    /\ UNCHANGED <<table, pc, filter, offset, total, told, again, history>>

Next ==
    \/ \E r \in Rows : \/ \E s \in Services : StoreOutbound(r, s)
                       \/ StoreInbound(r) \/ Move(r) \/ Prune(r) \/ Get(r)
    \/ Begin \/ Count \/ Page

Spec == Init /\ [][Next]_vars

-----------------------------------------------------------------------------
(* What a reader of the log can rely on.                                   *)

Ties(r) == {q \in (throughout \cup entered \cup left) \ {r} : created[q] = created[r]}

\* A walk over offsets misses a message that was there all along only if a
\* newer one left the result meanwhile (pruned, or moved out of the status
\* asked for), and shows one twice only if a newer one entered it; or else one
\* has the same created_at.
WalksAreExplained ==
    /\ pc = "look" => \A r \in throughout \ told :
          Ties(r) # {} \/ \E q \in left : created[q] > created[r]
    /\ \A r \in again : Ties(r) # {} \/ \E q \in entered : created[q] > created[r]

\* While the log is quiet a walk shows what there is, and total counts it.
QuietWalksAreExact ==
    pc = "look" /\ entered \cup left = {} /\ (\A r \in throughout : Ties(r) = {}) =>
        told = throughout /\ total = Cardinality(told)

\* Both handlers scope their reads alike: a message that was listed and is a
\* 404 now has been pruned.
GoneMeansPruned == ~answer.found /\ answer.row \in told => answer.row \in pruned
=============================================================================
