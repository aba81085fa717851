-------------------------------- MODULE Relay --------------------------------
(***************************************************************************)
(* The life of an outbound row after the send loop has let go of it: the    *)
(* handset carries the copy it accepted, the status loop (worker.py) asks   *)
(* for its state, the handset pushes receipts of its own (inbound.py), and  *)
(* retention deletes what can change no more.  All of them share the table  *)
(* and the process with the send loop, whose module this one extends.       *)
(*                                                                         *)
(* The handset reports on the last copy of a message it accepted.  Earlier  *)
(* copies bear ids that no row holds or ever will, and what is said of them *)
(* is answered `unknown` and changes nothing.  One pushed receipt is in     *)
(* hand at a time.                                                          *)
(***************************************************************************)
EXTENDS SendLoop

VARIABLES
    handset,  \* the last copy accepted: the call it came by, and its state
    recent,   \* sent_at is less than a day ago
    (* The status loop: where it is, the rows still to ask about, and what the *)
    (* session holds for the rows already asked about.                        *)
    poll, round, news,
    receipt   \* the row a pushed `sms:delivered` has read and not yet written

loops == <<poll, round, news, receipt>>
\* The others write a row's status and nothing else the send loop reads.
allButStatus == <<transport, attempts, due, stuck, error, pid, pc, stale, mem, proc,
                  history, faults, handset, recent>>
relayVars == <<vars, handset, recent, loops>>

Verdicts == {"delivered", "failed"}
Terminal == Verdicts \cup {"published"}
NoNews == [m \in Msgs |-> "none"]

RelayTypeOK ==
    /\ TypeOK
    /\ handset \in [Msgs -> [call : Nat, state : {"none", "pending"} \cup Verdicts]]
    /\ recent \in [Msgs -> BOOLEAN]
    /\ poll \in {"asleep", "asking"}
    /\ round \subseteq Msgs
    /\ news \in [Msgs -> {"none"} \cup Verdicts]
    /\ receipt \in Msgs \cup {0}

RelayInit ==
    /\ Init
    /\ handset = [m \in Msgs |-> [call |-> 0, state |-> "none"]]
    /\ recent = [m \in Msgs |-> FALSE]
    /\ poll = "asleep" /\ round = {} /\ news = NoNews /\ receipt = 0

-----------------------------------------------------------------------------
(* The send loop's steps, and what they mean to the others.                *)

\* A copy the handset accepts bears the number of the call that brought it.
HandsetTakes ==
    handset' = [m \in Msgs |-> IF pc = "sending" /\ accepted'[m] > accepted[m]
                               THEN [call |-> smsTries[m], state |-> "pending"]
                               ELSE handset[m]]

\* sent_at is set with the status.
SentNow ==
    recent' = [m \in Msgs |-> recent[m] \/ (status[m] = "sending" /\ status'[m] = "sent")]

\* Handlers and loops die with the process; a status loop that is asleep
\* returns at the stop event.
DieWithProcess ==
    IF Alive /\ proc' \notin {"up", "stopping"}
    THEN poll' = "asleep" /\ round' = {} /\ news' = NoNews /\ receipt' = 0
    ELSE UNCHANGED loops

\* uvicorn lets the requests in hand finish before the lifespan ends.
RequestsFinish == proc' = "stopping" => proc = "stopping" \/ receipt = 0

Beside(A) == A /\ HandsetTakes /\ SentNow /\ DieWithProcess /\ RequestsFinish

SendStep == Beside(Next)

-----------------------------------------------------------------------------
(* The handset, and time.                                                  *)

\* A message is delivered or has failed, for good.
HandsetSettles(m) ==
    /\ handset[m].state = "pending"
    /\ \E v \in Verdicts : handset' = [handset EXCEPT ![m].state = v]
    /\ UNCHANGED <<vars, recent, loops>>

\* "A receipt that hasn't arrived within a day is not going to."
AgesOut(m) ==
    /\ status[m] = "sent" /\ recent[m]
    /\ recent' = [recent EXCEPT ![m] = FALSE]
    /\ UNCHANGED <<vars, handset, loops>>

-----------------------------------------------------------------------------
(* status_loop.                                                            *)

Unreported == {m \in Msgs : status[m] = "sent" /\ pid[m] # 0 /\ recent[m]}

PollReadOldest ==   \* mutant: one row at a time, oldest first
    /\ proc = "up" /\ poll = "asleep"
    /\ Unreported # {}
    /\ round' = {Oldest(Unreported)}
    /\ poll' = "asking"
    /\ UNCHANGED <<vars, handset, recent, news, receipt>>

PollRead ==
    /\ proc = "up" /\ poll = "asleep"
    /\ Unreported # {}
    /\ round' = Unreported
    /\ poll' = "asking"
    /\ UNCHANGED <<vars, handset, recent, news, receipt>>

\* fetch_status(provider_message_id): what the handset says of that copy now.
\* Anything short of a verdict maps to `sent`, which is no news.
AnswerAtOnce(m) == IF handset[m].state # "none" THEN "delivered" ELSE "none"   \* mutant
Answer(m) == IF handset[m].call = pid[m] /\ handset[m].state \in Verdicts
             THEN handset[m].state ELSE "none"

Fetch(m) ==
    /\ Alive /\ poll = "asking" /\ m \in round
    /\ round' = round \ {m}
    /\ news' = [news EXCEPT ![m] = Answer(m)]
    /\ UNCHANGED <<vars, handset, recent, poll, receipt>>

\* A 404, an error status, a timeout or a body that is not JSON: None.
FetchFails(m) ==
    /\ Alive /\ poll = "asking" /\ m \in round
    /\ Fault("fetch")
    /\ round' = round \ {m}
    /\ UNCHANGED <<columns, pc, stale, mem, proc, history, handset, recent, poll, news, receipt>>

ChangedIfNot == {m \in Msgs : status[m] = "sent" /\ news[m] # "sent"}   \* mutant: no test for None
Changed == {m \in Msgs : news[m] # "none"}

PollEnds == poll' = "asleep" /\ round' = {} /\ news' = NoNews

\* One commit for the round.  An UPDATE that finds its row deleted raises
\* StaleDataError, and the round is rolled back.
PollCommitUnread ==   \* mutant: a deleted row is written all the same
    /\ Alive /\ poll = "asking" /\ round = {}
    /\ status' = [m \in Msgs |-> IF m \in Changed THEN news[m] ELSE status[m]]
    /\ PollEnds
    /\ UNCHANGED <<allButStatus, receipt>>

PollCommit ==
    /\ Alive /\ poll = "asking" /\ round = {}
    /\ status' = IF \E m \in Changed : status[m] = "gone" THEN status
                 ELSE [m \in Msgs |-> IF m \in Changed THEN news[m] ELSE status[m]]
    /\ PollEnds
    /\ UNCHANGED <<allButStatus, receipt>>

\* `except Exception`: a locked database, or a reply whose JSON is no object.
PollRaises ==
    /\ Alive /\ poll = "asking"
    /\ Fault("fetch")
    /\ PollEnds
    /\ UNCHANGED <<columns, pc, stale, mem, proc, history, handset, recent, receipt>>

-----------------------------------------------------------------------------
(* _apply_receipt.  The handset repeats a push until it gets a 2xx, and may *)
(* be late; a push for an id that no row holds gets one too, for good.      *)

\* Only `sms:delivered` changes anything.
ReceiptRead(m) ==
    /\ proc = "up" /\ receipt = 0
    /\ handset[m].state = "delivered"
    /\ handset[m].call = pid[m] /\ status[m] \notin {"delivered", "gone"}
    /\ receipt' = m
    /\ UNCHANGED <<vars, handset, recent, poll, round, news>>

\* The UPDATE of a deleted row raises StaleDataError: a 500.
ReceiptCommit ==
    /\ proc = "up" /\ receipt # 0
    /\ status' = IF status[receipt] = "gone" THEN status
                 ELSE [status EXCEPT ![receipt] = "delivered"]
    /\ receipt' = 0
    /\ UNCHANGED <<allButStatus, poll, round, news>>

-----------------------------------------------------------------------------
\* prune_loop: one DELETE of the terminal rows older than the retention, which
\* may be any of them.
Prune ==
    /\ Alive
    /\ \E S \in SUBSET {m \in Msgs : status[m] \in Terminal} :
          S # {} /\ status' = [m \in Msgs |-> IF m \in S THEN "gone" ELSE status[m]]
    /\ UNCHANGED <<allButStatus, loops>>

-----------------------------------------------------------------------------
PollStep == PollRead \/ (\E m \in Msgs : Fetch(m)) \/ PollCommit

RelayNext ==
    \/ SendStep
    \/ \E m \in Msgs : HandsetSettles(m) \/ AgesOut(m) \/ FetchFails(m) \/ ReceiptRead(m)
    \/ PollStep \/ PollRaises
    \/ ReceiptCommit
    \/ Prune

RelaySpec == RelayInit /\ [][RelayNext]_relayVars

\* The status loop is run, a process that stops goes away, the next one starts.
\* Nothing makes the handset reach a verdict, push one, or a row grow old.
RelayFairSpec ==
    /\ RelaySpec
    /\ WF_relayVars(PollStep)
    /\ WF_relayVars(Beside(GracefulExit \/ CancelTasks))
    /\ WF_relayVars(Beside(Restart))

-----------------------------------------------------------------------------
(* What a caller may rely on.                                              *)

\* A row that says `delivered` says so of the copy whose id it holds, and the
\* handset has said it; so has it of a `failed` that came after the sending.
\* No answer of another copy or an earlier state gets into the row, by either
\* path, in any order of polls, pushes, commits and restarts.
VerdictsAreTrue ==
    \A m \in Msgs : status[m] = "delivered" \/ (status[m] = "failed" /\ pid[m] # 0) =>
        handset[m] = [call |-> pid[m], state |-> status[m]]

\* A verdict of the handset reaches the row while it is young enough to be
\* asked about, whatever faults drop the rounds and pushes on the way.
VerdictsArrive ==
    \A m \in Msgs : status[m] = "sent" /\ pid[m] # 0 /\ handset[m].state \in Verdicts
                      ~> status[m] # "sent" \/ ~recent[m]

\* The whole relay is the outbox: a verdict is given once, to a sent message,
\* and what is deleted was terminal and stays deleted.
RelayImplementsOutbox == Promise!Spec
=============================================================================
