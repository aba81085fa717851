----------------------------- MODULE RelayProofs -----------------------------
(***************************************************************************)
(* Proofs about the composition: the send loop's invariant survives the     *)
(* other writers of its table, and what they write is true.                 *)
(***************************************************************************)
EXTENDS Relay, SendLoopProofs

Reported == {"sent", "gone"} \cup Verdicts

\* A row that holds the handset's id is past the send loop, and the copy it
\* names is the last one the handset took.
IdentifiedInv ==
    \A m \in Msgs : pid[m] # 0 =>
        /\ status[m] \in Reported /\ error[m] = "none"
        /\ handset[m].call = pid[m]

\* The handset's copies are numbered by the calls that brought them.
HandsetInv ==
    /\ \A m \in Msgs : handset[m].state = "none" <=> handset[m].call = 0
    /\ pc = "record" /\ mem.outcome = "ok" => handset[mem.id].call = smsTries[mem.id]

\* What the status loop and the receipt handler hold in memory.
SessionInv ==
    /\ \A m \in round : pid[m] # 0
    /\ \A m \in Msgs : news[m] # "none" => pid[m] # 0 /\ handset[m].state = news[m]
    /\ receipt # 0 => pid[receipt] # 0 /\ handset[receipt].state = "delivered"

RInv == /\ IInv /\ RelayTypeOK /\ IdentifiedInv /\ HandsetInv /\ SessionInv
        /\ VerdictsAreTrue

-----------------------------------------------------------------------------
LEMMA InitRInv == RelayInit => RInv
<1> SUFFICES ASSUME RelayInit PROVE RInv
  OBVIOUS
<1>1. IInv
  BY InitIInv DEF RelayInit
<1>2. TypeOK
  BY <1>1 DEF IInv
<1> QED
  BY <1>1, <1>2 DEF RInv, RelayInit, Init, RelayTypeOK, IdentifiedInv, HandsetInv, SessionInv,
     VerdictsAreTrue, Verdicts, NoNews, Idle

-----------------------------------------------------------------------------
(* The send loop beside the others.                                        *)

\* The send loop's invariant does not mind the others writing verdicts, or
\* deletions, into rows it has left.
LEMMA OthersKeepIInv ==
    ASSUME IInv, faults' \in 0..MaxFaults, status' \in [Msgs -> Status],
           UNCHANGED <<transport, attempts, due, stuck, error, pid, pc, stale, mem, proc, history>>,
           \A m \in Msgs : \/ status'[m] = status[m]
                           \/ ~Open(m) /\ status'[m] \in {"delivered", "gone"}
                           \/ ~Open(m) /\ status'[m] = "failed" /\ error[m] = "none" /\ pid[m] # 0
    PROVE  IInv'
<1> USE DEF history
<1>1. \A m \in Msgs : (Open(m))' <=> Open(m)
  BY DEF Open, Pending
<1>2. \A m \in Msgs : Open(m) => status'[m] = status[m]
  OBVIOUS
<1>3. TypeOK'
  BY DEF IInv, TypeOK
<1>4. MemoryInv'
  BY DEF IInv, MemoryInv
<1>5. ReadInv' /\ WrittenAhead'
  <2>1. \A m \in Msgs : status[m] \in Pending => status'[m] = status[m]
    BY <1>2 DEF Open
  <2>2. stale \subseteq Msgs /\ pc \in Steps
    BY DEF IInv, TypeOK
  <2>3. ReadInv'
    BY <2>1, <2>2 DEF IInv, MemoryInv, ReadInv, Pending
  <2>4. WrittenAhead'
    BY <2>1, <2>2 DEF IInv, MemoryInv, WrittenAhead, Held, Pending
  <2> QED
    BY <2>3, <2>4
<1>6. AttemptsInv' /\ ChannelInv' /\ AccountingInv' /\ AcceptanceInv'
  BY <1>1 DEF IInv, AttemptsInv, ChannelInv, AccountingInv, AcceptanceInv, InSmsCall, Unsaved
<1>7. FreshInv'
  BY <1>1, <1>2 DEF IInv, FreshInv, Open
<1>8. FailedIsExplained'
  BY DEF IInv, FailedIsExplained
<1> QED
  BY <1>3, <1>4, <1>5, <1>6, <1>7, <1>8 DEF IInv

\* A copy changes hands only while its message is sent.
LEMMA HandsetChanges ==
    ASSUME RInv, Next, HandsetTakes, NEW m \in Msgs
    PROVE  \/ handset'[m] = handset[m]
           \/ /\ m = mem.id /\ pc = "sending" /\ smsTries[m] > 0
              /\ handset'[m] = [call |-> smsTries[m], state |-> "pending"]
<1> SUFFICES ASSUME pc = "sending", accepted'[m] > accepted[m]
             PROVE  m = mem.id /\ smsTries[m] > 0
  BY DEF HandsetTakes
<1>1. accepted[m] \in Nat /\ mem.id \in Msgs
  BY DEF RInv, IInv, TypeOK, MemoryInv
<1>2. m = mem.id
  <2> SUFFICES ASSUME m # mem.id PROVE accepted'[m] = accepted[m]
    BY <1>1
  <2> USE DEF columns, history, More, RInv, IInv, TypeOK
  <2>1. CASE LoopStep
    BY <2>1 DEF LoopStep, RequeueRead, RequeueCommit, ClaimRead, ClaimCommit, PublishOk,
       PublishedCommit, PublishFails, FallbackCommit, Acquire, SendOk, SendFails, RecordCommit
  <2>2. CASE IterationRaises \/ Kill \/ CancelTasks
    BY <2>2 DEF IterationRaises, Kill, CancelTasks, Abandon
  <2>3. CASE ~LoopStep /\ ~(IterationRaises \/ Kill \/ CancelTasks)
    BY <2>3 DEF Next, Enqueue, BackoffElapses, GoesStuck, Stop, GracefulExit, Restart
  <2> QED
    BY <2>1, <2>2, <2>3
<1>3. smsTries[m] > 0
  BY <1>2 DEF RInv, IInv, TypeOK, AccountingInv, InSmsCall
<1> QED
  BY <1>2, <1>3

\* A row is identified by the commit that records a success, and by no other.
LEMMA PidChanges ==
    ASSUME RInv, Next, NEW m \in Msgs, pid'[m] # pid[m]
    PROVE  /\ m = mem.id /\ pc = "record" /\ mem.outcome = "ok"
           /\ pid'[m] \in {0, smsTries[m]}
           /\ status'[m] = "sent" /\ error'[m] = "none"
<1>1. RecordCommit
  BY DEF Next, LoopStep, columns, Enqueue, BackoffElapses, GoesStuck, RequeueRead, RequeueCommit,
     ClaimRead, ClaimCommit, PublishOk, PublishedCommit, PublishFails, FallbackCommit, Acquire,
     SendOk, SendFails, IterationRaises, Kill, Stop, GracefulExit, CancelTasks, Restart, Abandon
<1>2. mem.outcome = "ok" /\ m = mem.id
  BY <1>1 DEF RecordCommit, Put, RInv, IInv, TypeOK
<1>3. StatusAfter(mem.outcome, mem.attempts + 1) = "sent"
  BY <1>2 DEF StatusAfter
<1> QED
  BY <1>1, <1>2, <1>3 DEF RecordCommit, Put, RInv, IInv, TypeOK

\* The send loop writes no verdict of the handset.
LEMMA NoVerdictOfItsOwn ==
    ASSUME RInv, Next, NEW m \in Msgs, status'[m] = "delivered"
    PROVE  status[m] = "delivered"
<1>1. CASE ~Open(m)
  BY <1>1, OnlyOpenTouched DEF RInv, Untouched
<1>2. CASE Open(m)
  BY <1>2 DEF Open, Pending, RInv, IInv, TypeOK, Next, LoopStep, columns, Put, StatusAfter,
     Enqueue, BackoffElapses, GoesStuck, RequeueRead, RequeueCommit, ClaimRead, ClaimCommit,
     PublishOk, PublishedCommit, PublishFails, FallbackCommit, Acquire, SendOk, SendFails,
     RecordCommit, IterationRaises, Kill, Stop, GracefulExit, CancelTasks, Restart, Abandon
<1> QED
  BY <1>1, <1>2

LEMMA SendRInv == RInv /\ SendStep => RInv'
<1> SUFFICES ASSUME RInv, SendStep PROVE RInv'
  OBVIOUS
<1> USE DEF SendStep, Beside
<1>1. IInv'
  BY LoopIInv, EnvironmentIInv DEF RInv
<1>2. ASSUME NEW m \in Msgs, pid[m] # 0
      PROVE  Untouched(m) /\ handset'[m] = handset[m]
  <2>1. ~Open(m)
    BY <1>2 DEF RInv, IdentifiedInv, Reported, Verdicts, Open, Pending
  <2>2. Untouched(m)
    BY <2>1, OnlyOpenTouched DEF RInv
  <2>3. accepted[m] \in Nat
    BY DEF RInv, IInv, TypeOK
  <2>4. handset'[m] = handset[m]
    BY <2>2, <2>3 DEF HandsetTakes, Untouched
  <2> QED
    BY <2>2, <2>4
<1>3. ASSUME NEW m \in Msgs, pid[m] = 0, pid'[m] # 0
      PROVE  /\ status'[m] = "sent" /\ error'[m] = "none"
             /\ handset'[m] = handset[m] /\ handset[m].call = pid'[m]
  <2>1. /\ m = mem.id /\ pc = "record" /\ mem.outcome = "ok"
        /\ pid'[m] \in {0, smsTries[m]} /\ status'[m] = "sent" /\ error'[m] = "none"
    BY <1>3, PidChanges
  <2> QED
    BY <1>3, <2>1, HandsetChanges DEF RInv, HandsetInv
<1>4. RelayTypeOK'
  <2>1. TypeOK'
    BY <1>1 DEF IInv
  <2>2. handset' \in [Msgs -> [call : Nat, state : {"none", "pending"} \cup Verdicts]]
    BY DEF HandsetTakes, RInv, RelayTypeOK, TypeOK
  <2>3. recent' \in [Msgs -> BOOLEAN]
    BY DEF SentNow, RInv, RelayTypeOK
  <2> QED
    BY <2>1, <2>2, <2>3 DEF DieWithProcess, NoNews, loops, RInv, RelayTypeOK
<1>5. IdentifiedInv'
  BY <1>2, <1>3 DEF RInv, IdentifiedInv, Untouched, Reported
<1>6. HandsetInv'
  <2>1. \A m \in Msgs : handset'[m].state = "none" <=> handset'[m].call = 0
    <3> SUFFICES ASSUME NEW m \in Msgs
                 PROVE  handset'[m].state = "none" <=> handset'[m].call = 0
      OBVIOUS
    <3>1. CASE handset'[m] = handset[m]
      BY <3>1 DEF RInv, HandsetInv
    <3>2. CASE handset'[m] = [call |-> smsTries[m], state |-> "pending"] /\ smsTries[m] > 0
      BY <3>2 DEF RInv, IInv, TypeOK
    <3> QED
      BY <3>1, <3>2, HandsetChanges
  <2>2. ASSUME pc' = "record", mem'.outcome = "ok"
        PROVE  handset'[mem'.id].call = smsTries'[mem'.id]
    <3>1. CASE SendOk
      BY <3>1 DEF SendOk, HandsetTakes, More, RInv, IInv, TypeOK, MemoryInv, columns
    <3>2. CASE ~SendOk
      <4>1. pc = "record" /\ mem' = mem /\ smsTries' = smsTries
        BY <2>2, <3>2 DEF RInv, IInv, TypeOK, MemoryInv, Next, LoopStep, columns, history, Enqueue,
           BackoffElapses, GoesStuck, RequeueRead, RequeueCommit, ClaimRead, ClaimCommit,
           PublishOk, PublishedCommit, PublishFails, FallbackCommit, Acquire, SendFails,
           RecordCommit, IterationRaises, Kill, Stop, GracefulExit, CancelTasks, Restart, Abandon,
           Idle
      <4>2. mem.id \in Msgs
        BY <4>1 DEF RInv, IInv, MemoryInv
      <4> QED
        BY <2>2, <4>1, <4>2, HandsetChanges DEF RInv, HandsetInv
    <3> QED
      BY <3>1, <3>2
  <2> QED
    BY <2>1, <2>2 DEF HandsetInv
<1>7. SessionInv'
  <2>1. CASE UNCHANGED loops
    BY <1>2, <2>1 DEF loops, RInv, RelayTypeOK, SessionInv, Untouched
  <2>2. CASE ~UNCHANGED loops
    BY <2>2 DEF DieWithProcess, SessionInv, NoNews
  <2> QED
    BY <2>1, <2>2
<1>8. VerdictsAreTrue'
  <2> SUFFICES ASSUME NEW m \in Msgs,
                      status'[m] = "delivered" \/ (status'[m] = "failed" /\ pid'[m] # 0)
               PROVE  handset'[m] = [call |-> pid'[m], state |-> status'[m]]
    BY DEF VerdictsAreTrue
  <2>1. pid[m] # 0
    <3>1. CASE status'[m] = "delivered"
      <4>1. handset[m].state = "delivered" /\ handset[m].call = pid[m]
        <5>1. status[m] = "delivered"
          BY <3>1, NoVerdictOfItsOwn
        <5>2. handset[m] = [call |-> pid[m], state |-> status[m]]
          BY <5>1 DEF RInv, VerdictsAreTrue
        <5> QED
          BY <5>1, <5>2
      <4> QED
        BY <4>1 DEF RInv, HandsetInv
    <3>2. CASE status'[m] = "failed" /\ pid'[m] # 0
      BY <1>3, <3>2
    <3> QED
      BY <3>1, <3>2
  <2> QED
    BY <1>2, <2>1 DEF RInv, VerdictsAreTrue, Untouched
<1> QED
  BY <1>1, <1>4, <1>5, <1>6, <1>7, <1>8 DEF RInv

-----------------------------------------------------------------------------
(* The others.                                                             *)

\* Steps that write no row leave the send loop's invariant as it is.
LEMMA ReadersKeepIInv ==
    ASSUME IInv, UNCHANGED vars \/ (/\ faults' \in 0..MaxFaults
                                   /\ UNCHANGED <<columns, pc, stale, mem, proc, history>>)
    PROVE  IInv'
<1>1. faults' \in 0..MaxFaults /\ UNCHANGED <<columns, pc, stale, mem, proc, history>>
  BY DEF vars, IInv, TypeOK
<1>2. status' \in [Msgs -> Status] /\ \A m \in Msgs : status'[m] = status[m]
  BY <1>1 DEF columns, IInv, TypeOK
<1> QED
  BY <1>1, <1>2, OthersKeepIInv DEF columns

\* Neither do they disturb what the rows and the sessions say of each other.
LEMMA ReadersRInv ==
    RInv /\ (\/ \E m \in Msgs : HandsetSettles(m) \/ AgesOut(m) \/ Fetch(m) \/ FetchFails(m)
                               \/ ReceiptRead(m)
             \/ PollRead \/ PollRaises) => RInv'
<1> USE DEF RInv, IdentifiedInv, HandsetInv, SessionInv, VerdictsAreTrue, RelayTypeOK, loops
<1>1. ASSUME RInv, NEW m \in Msgs, HandsetSettles(m) PROVE RInv'
  <2> USE <1>1 DEF HandsetSettles
  <2>1. IInv'
    BY ReadersKeepIInv
  <2>2. PICK v \in Verdicts : handset' = [handset EXCEPT ![m].state = v]
    OBVIOUS
  <2>3. UNCHANGED <<vars, recent, loops>>
    OBVIOUS
  <2>4. handset' \in [Msgs -> [call : Nat, state : {"none", "pending"} \cup Verdicts]]
    BY <2>2
  <2>5. ASSUME NEW n \in Msgs
        PROVE  /\ handset'[n].call = handset[n].call
               /\ handset[n].state # "pending" => handset'[n] = handset[n]
               /\ (handset'[n].state = "none") <=> (handset[n].state = "none")
    <3>1. \A k \in Msgs : k # m => handset'[k] = handset[k]
      BY <2>2
    <3>2. handset'[m] = [handset[m] EXCEPT !.state = v]
      BY <2>2
    <3> QED
      BY <3>1, <3>2 DEF Verdicts
  <2>6. RelayTypeOK'
    BY <2>1, <2>3, <2>4 DEF vars, columns, history, IInv, TypeOK
  <2>7. IdentifiedInv'
    BY <2>3, <2>5 DEF vars, columns
  <2>8. HandsetInv'
    <3>1. pc = "record" => mem.id \in Msgs
      BY DEF IInv, MemoryInv
    <3>2. ASSUME NEW n \in Msgs PROVE (handset'[n].state = "none") <=> (handset'[n].call = 0)
      BY <2>5
    <3> QED
      BY <2>3, <2>5, <3>1, <3>2 DEF vars, history
  <2>9. SessionInv' /\ VerdictsAreTrue'
    BY <2>3, <2>5 DEF vars, columns, Verdicts
  <2> QED
    BY <2>1, <2>6, <2>7, <2>8, <2>9
<1>2. ASSUME RInv, NEW m \in Msgs, AgesOut(m) PROVE RInv'
  <2>1. IInv'
    BY <1>2, ReadersKeepIInv DEF AgesOut
  <2> QED
    BY <1>2, <2>1 DEF AgesOut, vars, columns, history, IInv
<1>3. ASSUME RInv, NEW m \in Msgs, Fetch(m) PROVE RInv'
  <2>1. IInv'
    BY <1>3, ReadersKeepIInv DEF Fetch
  <2>2. Answer(m) \in {"none"} \cup Verdicts
        /\ (Answer(m) # "none" => handset[m].state = Answer(m))
    BY DEF Answer
  <2> QED
    BY <1>3, <2>1, <2>2 DEF Fetch, vars, columns, history, IInv
<1>4. ASSUME RInv, NEW m \in Msgs, FetchFails(m) PROVE RInv'
  <2>0. faults' \in 0..MaxFaults
    BY <1>4, FaultAssumption DEF FetchFails, Fault, IInv, TypeOK
  <2>1. IInv'
    BY <1>4, <2>0, ReadersKeepIInv DEF FetchFails
  <2> QED
    BY <1>4, <2>1 DEF FetchFails, columns, history, IInv
<1>5. ASSUME RInv, NEW m \in Msgs, ReceiptRead(m) PROVE RInv'
  <2>1. IInv'
    BY <1>5, ReadersKeepIInv DEF ReceiptRead
  <2> QED
    BY <1>5, <2>1 DEF ReceiptRead, vars, columns, history, IInv
<1>6. ASSUME RInv, PollRead PROVE RInv'
  <2>1. IInv'
    BY <1>6, ReadersKeepIInv DEF PollRead
  <2> QED
    BY <1>6, <2>1 DEF PollRead, Unreported, vars, columns, history, IInv
<1>7. ASSUME RInv, PollRaises PROVE RInv'
  <2>0. faults' \in 0..MaxFaults
    BY <1>7, FaultAssumption DEF PollRaises, Fault, IInv, TypeOK
  <2>1. IInv'
    BY <1>7, <2>0, ReadersKeepIInv DEF PollRaises
  <2> QED
    BY <1>7, <2>1 DEF PollRaises, PollEnds, NoNews, columns, history, IInv
<1> QED
  BY <1>1, <1>2, <1>3, <1>4, <1>5, <1>6, <1>7

\* A writer changes a row from one of the reported statuses to another, and
\* only to what the handset says of it.
LEMMA WritersRInv ==
    ASSUME RInv, status' \in [Msgs -> Status], UNCHANGED allButStatus,
           poll' \in {"asleep", "asking"}, round' \subseteq round,
           news' \in {news, NoNews}, receipt' \in {receipt, 0},
           \A m \in Msgs : \/ status'[m] = status[m]
                           \/ ~Open(m) /\ status'[m] = "gone"
                           \/ /\ pid[m] # 0 /\ status'[m] \in Verdicts
                              /\ handset[m].state = status'[m]
    PROVE  RInv'
<1>1. UNCHANGED <<transport, attempts, due, stuck, error, pid, pc, stale, mem, proc, history,
                  handset, recent>> /\ faults' \in 0..MaxFaults
  BY DEF allButStatus, RInv, IInv, TypeOK
<1>2. \A m \in Msgs : pid[m] # 0 => ~Open(m) /\ error[m] = "none"
  BY DEF RInv, IdentifiedInv, Reported, Verdicts, Open, Pending
<1>3. IInv'
  BY <1>1, <1>2, OthersKeepIInv DEF RInv, Verdicts
<1>4. RelayTypeOK'
  BY <1>1, <1>3 DEF RInv, RelayTypeOK, IInv, NoNews
<1>5. IdentifiedInv'
  BY <1>1 DEF RInv, IdentifiedInv, Reported
<1>6. HandsetInv'
  BY <1>1 DEF RInv, HandsetInv, history
<1>7. SessionInv'
  BY <1>1 DEF RInv, SessionInv, NoNews
<1>8. VerdictsAreTrue'
  <2> SUFFICES ASSUME NEW m \in Msgs,
                      status'[m] = "delivered" \/ (status'[m] = "failed" /\ pid[m] # 0)
               PROVE  handset[m] = [call |-> pid[m], state |-> status'[m]]
    BY <1>1 DEF VerdictsAreTrue
  <2>1. CASE status'[m] = status[m]
    BY <2>1 DEF RInv, VerdictsAreTrue
  <2>2. CASE pid[m] # 0 /\ handset[m].state = status'[m]
    BY <2>2 DEF RInv, IdentifiedInv, RelayTypeOK
  <2> QED
    BY <2>1, <2>2
<1> QED
  BY <1>3, <1>4, <1>5, <1>6, <1>7, <1>8 DEF RInv

LEMMA PollCommitRInv == RInv /\ PollCommit => RInv'
<1> SUFFICES ASSUME RInv, PollCommit PROVE RInv'
  OBVIOUS
<1>1. \A m \in Msgs : \/ status'[m] = status[m]
                      \/ /\ pid[m] # 0 /\ status'[m] \in Verdicts
                         /\ handset[m].state = status'[m]
  BY DEF PollCommit, Changed, RInv, SessionInv, RelayTypeOK
<1>2. status' \in [Msgs -> Status]
  BY <1>1 DEF PollCommit, RInv, IInv, TypeOK, Status, Settled, Verdicts
<1> QED
  BY <1>1, <1>2, WritersRInv DEF PollCommit, PollEnds

LEMMA ReceiptCommitRInv == RInv /\ ReceiptCommit => RInv'
<1> SUFFICES ASSUME RInv, ReceiptCommit PROVE RInv'
  OBVIOUS
<1>1. receipt \in Msgs /\ pid[receipt] # 0 /\ handset[receipt].state = "delivered"
  BY DEF ReceiptCommit, RInv, SessionInv, RelayTypeOK
<1>2. status' \in [Msgs -> Status]
  BY DEF ReceiptCommit, RInv, IInv, TypeOK, Status
<1>3. \A m \in Msgs : \/ status'[m] = status[m]
                      \/ /\ pid[m] # 0 /\ status'[m] \in Verdicts
                         /\ handset[m].state = status'[m]
  BY <1>1 DEF ReceiptCommit, RInv, IInv, TypeOK, Verdicts
<1> QED
  BY <1>2, <1>3, WritersRInv DEF ReceiptCommit, RInv, RelayTypeOK

LEMMA PruneRInv == RInv /\ Prune => RInv'
<1> SUFFICES ASSUME RInv, Prune PROVE RInv'
  OBVIOUS
<1>1. PICK S \in SUBSET {m \in Msgs : status[m] \in Terminal} :
        status' = [m \in Msgs |-> IF m \in S THEN "gone" ELSE status[m]]
  BY DEF Prune
<1>2. status' \in [Msgs -> Status]
  BY <1>1 DEF RInv, IInv, TypeOK, Status
<1>3. \A m \in Msgs : status'[m] = status[m] \/ (~Open(m) /\ status'[m] = "gone")
  BY <1>1 DEF Terminal, Verdicts, Open, Pending
<1> QED
  BY <1>2, <1>3, WritersRInv DEF Prune, loops, RInv, RelayTypeOK

\* The invariant of the composition.
THEOREM RelayInvariance == RelaySpec => []RInv
<1>1. RInv /\ [RelayNext]_relayVars => RInv'
  <2>1. RInv /\ UNCHANGED relayVars => RInv'
    <3> SUFFICES ASSUME RInv, UNCHANGED relayVars PROVE RInv'
      OBVIOUS
    <3>1. IInv'
      BY ReadersKeepIInv DEF relayVars, RInv
    <3> QED
      BY <3>1 DEF relayVars, loops, vars, columns, history, RInv, RelayTypeOK, IInv, IdentifiedInv,
         HandsetInv, SessionInv, VerdictsAreTrue
  <2> QED
    BY <2>1, SendRInv, ReadersRInv, PollCommitRInv, ReceiptCommitRInv, PruneRInv
       DEF RelayNext, PollStep
<1> QED
  BY InitRInv, <1>1, PTL DEF RelaySpec

-----------------------------------------------------------------------------
(* The promises.                                                           *)

\* The rows, the handset's copies and the sessions keep their ranges.
THEOREM RelayTypes == RelaySpec => []RelayTypeOK
<1>1. RInv => RelayTypeOK
  BY DEF RInv
<1> QED
  BY <1>1, RelayInvariance, PTL

\* `delivered`, and a `failed` after the sending, are what the handset said.
THEOREM VerdictsTrue == RelaySpec => []VerdictsAreTrue
<1>1. RInv => VerdictsAreTrue
  BY DEF RInv
<1> QED
  BY <1>1, RelayInvariance, PTL

\* Neither retention nor a receipt reaches a row whose call is open.
THEOREM WriteAheadTogether == RelaySpec => []WrittenAhead
<1>1. RInv => WrittenAhead
  BY DEF RInv, IInv
<1> QED
  BY <1>1, RelayInvariance, PTL

\* Nor do they add a duplicate: the send loop's count holds of the whole.
THEOREM DuplicateSafetyTogether == RelaySpec => []DuplicatesNeedLostAnswers
<1>1. RInv => DuplicatesNeedLostAnswers
  BY DEF RInv, IInv, TypeOK, AcceptanceInv, DuplicatesNeedLostAnswers
<1> QED
  BY <1>1, RelayInvariance, PTL

\* `failed` is explained whoever wrote it: the send loop, or a verdict.
THEOREM FailuresExplainedTogether == RelaySpec => []FailedIsExplained
<1>1. RInv => FailedIsExplained
  BY DEF RInv, IInv
<1> QED
  BY <1>1, RelayInvariance, PTL

\* No poll, receipt or deletion gives a message another round of attempts.
THEOREM RetriesBoundedTogether == RelaySpec => []RetryBudget
<1>1. RInv => RetryBudget
  BY CallsAreAccounted DEF RInv
<1> QED
  BY <1>1, RelayInvariance, PTL

\* The steps of the others leave alone all of the queue but the statuses of
\* rows that are not open.
LEMMA OthersLeaveTheQueue ==
    ASSUME RInv, [RelayNext]_relayVars
    PROVE  \/ SendStep
           \/ /\ UNCHANGED <<transport, attempts, pid, pc, mem, proc, history>>
              /\ faults' \in Nat /\ faults' >= faults
              /\ \A m \in Msgs : (Open(m))' <=> Open(m)
              /\ \A m \in Msgs : Open(m) => status'[m] = status[m]
<1> USE DEF Open, Pending, allButStatus, columns, history
<1>1. faults \in Nat
  BY DEF RInv, IInv, TypeOK
<1>2. CASE PollCommit
  <2>1. \A m \in Changed : status[m] \in Reported
    BY DEF Changed, RInv, SessionInv, IdentifiedInv
  <2>2. \A m \in Changed : news[m] \in Verdicts
    BY DEF Changed, RInv, RelayTypeOK
  <2> QED
    BY <1>1, <1>2, <2>1, <2>2 DEF PollCommit, Reported, Verdicts
<1>3. CASE ReceiptCommit
  <2>1. status[receipt] \in Reported /\ status \in [Msgs -> Status]
    BY <1>3 DEF ReceiptCommit, RInv, IInv, TypeOK, RelayTypeOK, SessionInv, IdentifiedInv
  <2> QED
    BY <1>1, <1>3, <2>1 DEF ReceiptCommit, Reported, Verdicts
<1>4. CASE Prune
  BY <1>1, <1>4 DEF Prune, Terminal, Verdicts
<1>5. CASE ~(SendStep \/ PollCommit \/ ReceiptCommit \/ Prune)
  BY <1>1, <1>5 DEF RelayNext, PollStep, PollRead, Fetch, FetchFails, PollRaises, ReceiptRead,
     HandsetSettles, AgesOut, Fault, relayVars, vars
<1> QED
  BY <1>2, <1>3, <1>4, <1>5

\* A row in `sending` that no iteration holds is a fault's doing still: a
\* verdict that is late, or retention, leaves none behind.
THEOREM OrphansTogether == RelaySpec => []OrphansNeedFaults
<1>1. RelayInit => OrphanInv
  BY NoOrphansYet DEF RelayInit
<1>2. RInv /\ OrphanInv /\ [RelayNext]_relayVars => OrphanInv'
  <2> SUFFICES ASSUME RInv, OrphanInv, [RelayNext]_relayVars PROVE OrphanInv'
    OBVIOUS
  <2>1. CASE SendStep
    BY <2>1, OrphanStep DEF RInv, SendStep, Beside
  <2>2. CASE ~SendStep
    <3>1. UNCHANGED <<mem, proc>> /\ faults' \in Nat /\ faults' >= faults
      BY <2>2, OthersLeaveTheQueue
    <3>2. \A m \in Msgs : /\ (Open(m))' <=> Open(m)
                          /\ Open(m) => status'[m] = status[m]
      BY <2>2, OthersLeaveTheQueue
    <3>3. Stranded' = Stranded
      BY <3>1, <3>2 DEF Stranded, Open, Pending
    <3>4. Cardinality(Stranded) \in Nat /\ faults \in Nat
      BY FS_Subset, FS_CardinalityType, MsgsAssumption DEF Stranded, RInv, IInv, TypeOK
    <3> QED
      BY <3>1, <3>3, <3>4 DEF OrphanInv
  <2> QED
    BY <2>1, <2>2
<1>3. RInv /\ OrphanInv => OrphansNeedFaults
  BY OrphansPaid DEF RInv
<1> QED
  BY <1>1, <1>2, <1>3, RelayInvariance, PTL DEF RelaySpec

\* No step of any part publishes to ntfy what an SMS call has opened for.
FallbackStays ==
    [][\A m \in Msgs : smsTries[m] > 0 => ntfyTries'[m] = ntfyTries[m]]_relayVars

\* The fallback is for good whatever the other parts write to the row.
THEOREM FallbackTogether == RelaySpec => FallbackStays
<1>1. RInv /\ [RelayNext]_relayVars =>
        \A m \in Msgs : smsTries[m] > 0 => ntfyTries'[m] = ntfyTries[m]
  <2> SUFFICES ASSUME RInv, [RelayNext]_relayVars
               PROVE  \A m \in Msgs : smsTries[m] > 0 => ntfyTries'[m] = ntfyTries[m]
    OBVIOUS
  <2>1. CASE SendStep
    BY <2>1, NoPublishAfterSms DEF RInv, SendStep, Beside
  <2>2. CASE ~SendStep
    BY <2>2, OthersLeaveTheQueue DEF history
  <2> QED
    BY <2>1, <2>2
<1> QED
  BY <1>1, RelayInvariance, PTL DEF RelaySpec, FallbackStays

\* What the send loop has let go of is never claimed, called for or counted
\* again, nor given another id, although others go on writing its status: no
\* verdict and no deletion sends a row back to the queue.
LetGoForGood ==
    [][\A m \in Msgs : ~Open(m) =>
          /\ (~Open(m))'
          /\ transport'[m] = transport[m] /\ attempts'[m] = attempts[m]
          /\ pid'[m] = pid[m] /\ accepted'[m] = accepted[m]
          /\ smsTries'[m] = smsTries[m] /\ ntfyTries'[m] = ntfyTries[m]]_relayVars

\* A row that a poll, a receipt or retention may write is out of the queue.
THEOREM SettlementTogether == RelaySpec => LetGoForGood
<1> DEFINE Kept(m) == /\ (~Open(m))'
                      /\ transport'[m] = transport[m] /\ attempts'[m] = attempts[m]
                      /\ pid'[m] = pid[m] /\ accepted'[m] = accepted[m]
                      /\ smsTries'[m] = smsTries[m] /\ ntfyTries'[m] = ntfyTries[m]
<1>1. RInv /\ [RelayNext]_relayVars => \A m \in Msgs : ~Open(m) => Kept(m)
  <2> SUFFICES ASSUME RInv, [RelayNext]_relayVars, NEW m \in Msgs, ~Open(m) PROVE Kept(m)
    OBVIOUS
  <2>1. CASE SendStep
    <3>1. Untouched(m)
      BY <2>1, OnlyOpenTouched DEF RInv, SendStep, Beside
    <3> QED
      BY <3>1 DEF Untouched, Open
  <2>2. CASE ~SendStep
    BY <2>2, OthersLeaveTheQueue DEF history
  <2> QED
    BY <2>1, <2>2
<1> QED
  BY <1>1, RelayInvariance, PTL DEF RelaySpec, LetGoForGood

-----------------------------------------------------------------------------
(* The relay implements the outbox.                                        *)

LEMMA PollMaps == RInv /\ PollCommit => Promise!Next \/ UNCHANGED Promise!vars
<1> SUFFICES ASSUME RInv, PollCommit PROVE Promise!Next \/ UNCHANGED Promise!vars
  OBVIOUS
<1> DEFINE S == {m \in Msgs : status'[m] # status[m]}
           f == [m \in S |-> status'[m]]
<1>1. UNCHANGED accepted
  BY DEF PollCommit, allButStatus, history
<1>2. ASSUME NEW m \in S PROVE status[m] = "sent" /\ status'[m] \in Verdicts
  <2>1. m \in Changed /\ status'[m] = news[m] /\ status[m] # "gone"
    BY DEF PollCommit
  <2>2. pid[m] # 0 /\ handset[m].state = news[m] /\ news[m] \in Verdicts
    BY <2>1 DEF Changed, RInv, SessionInv, RelayTypeOK
  <2>3. status[m] \in Reported
    BY <2>2 DEF RInv, IdentifiedInv
  <2>4. status[m] \in Verdicts => handset[m] = [call |-> pid[m], state |-> status[m]]
    BY <2>2 DEF RInv, VerdictsAreTrue, Verdicts
  <2> QED
    BY <2>1, <2>2, <2>3, <2>4 DEF Reported
<1>3. \A m \in S : Fate(m) = "sent"
  BY <1>2 DEF Fate, Pending
<1>4. f \in [S -> {"delivered", "failed"}]
  BY <1>2 DEF Verdicts
<1>5. \A m \in Msgs : Fate(m)' = IF m \in S THEN f[m] ELSE Fate(m)
  BY <1>2 DEF Fate, Pending, Verdicts
<1>6. [m \in Msgs |-> Fate(m)'] = [m \in Msgs |-> IF m \in S THEN f[m] ELSE Fate(m)]
  BY <1>5
<1> HIDE DEF f
<1>7. \A m \in S : [n \in Msgs |-> Fate(n)][m] = "sent"
  BY <1>3
<1>8. [m \in Msgs |-> Fate(m)']
        = [m \in Msgs |-> IF m \in S THEN f[m] ELSE [n \in Msgs |-> Fate(n)][m]]
  BY <1>6
<1>9. Promise!Report(S)
  BY <1>1, <1>4, <1>7, <1>8 DEF Promise!Report
<1> QED
  BY <1>9 DEF Promise!Next

LEMMA ReceiptMaps == RInv /\ ReceiptCommit => Promise!Next \/ UNCHANGED Promise!vars
<1> SUFFICES ASSUME RInv, ReceiptCommit PROVE Promise!Next \/ UNCHANGED Promise!vars
  OBVIOUS
<1>1. UNCHANGED accepted
  BY DEF ReceiptCommit, allButStatus, history
<1>2. receipt \in Msgs /\ pid[receipt] # 0 /\ handset[receipt].state = "delivered"
  BY DEF ReceiptCommit, RInv, SessionInv, RelayTypeOK
<1>3. CASE UNCHANGED status
  BY <1>1, <1>3, StutterMaps DEF Fate
<1>4. CASE status[receipt] = "sent" /\ status' = [status EXCEPT ![receipt] = "delivered"]
  <2> DEFINE S == {receipt}
             f == [m \in S |-> "delivered"]
  <2>1. status \in [Msgs -> Status]
    BY DEF RInv, IInv, TypeOK
  <2>2. \A m \in Msgs : Fate(m)' = IF m \in S THEN f[m] ELSE Fate(m)
    BY <1>2, <1>4, <2>1 DEF Fate, Pending
  <2>3. \A m \in S : [n \in Msgs |-> Fate(n)][m] = "sent"
    BY <1>2, <1>4 DEF Fate, Pending
  <2>4. f \in [S -> {"delivered", "failed"}]
    OBVIOUS
  <2> HIDE DEF f
  <2>5. [m \in Msgs |-> Fate(m)']
          = [m \in Msgs |-> IF m \in S THEN f[m] ELSE [n \in Msgs |-> Fate(n)][m]]
    BY <2>2
  <2>6. Promise!Report(S)
    BY <1>1, <2>3, <2>4, <2>5 DEF Promise!Report
  <2>7. S \in SUBSET Msgs
    BY <1>2
  <2> QED
    BY <2>6, <2>7 DEF Promise!Next
<1>5. status[receipt] \in Reported
  BY <1>2 DEF RInv, IdentifiedInv
<1>6. status[receipt] \in Verdicts => status[receipt] = "delivered"
  <2>1. status[receipt] \in Verdicts =>
            handset[receipt] = [call |-> pid[receipt], state |-> status[receipt]]
    BY <1>2 DEF RInv, VerdictsAreTrue, Verdicts
  <2> QED
    BY <1>2, <2>1
<1>7. CASE status[receipt] = "delivered"
  <2>1. UNCHANGED status
    BY <1>2, <1>7 DEF ReceiptCommit, RInv, IInv, TypeOK
  <2> QED
    BY <1>3, <2>1
<1> QED
  BY <1>3, <1>4, <1>5, <1>6, <1>7 DEF ReceiptCommit, Reported

LEMMA PruneMaps == RInv /\ Prune => Promise!Next
<1> SUFFICES ASSUME RInv, Prune PROVE Promise!Next
  OBVIOUS
<1>1. PICK S \in SUBSET {m \in Msgs : status[m] \in Terminal} :
        status' = [m \in Msgs |-> IF m \in S THEN "gone" ELSE status[m]]
  BY DEF Prune
<1>2. UNCHANGED accepted
  BY DEF Prune, allButStatus, history
<1>3. \A m \in S : [n \in Msgs |-> Fate(n)][m] \in Promise!Terminal
  BY DEF Fate, Pending, Terminal, Verdicts, Promise!Terminal
<1>4. \A m \in Msgs : Fate(m)' = IF m \in S THEN "gone" ELSE Fate(m)
  BY <1>1 DEF Fate, Pending
<1>5. [m \in Msgs |-> Fate(m)']
        = [m \in Msgs |-> IF m \in S THEN "gone" ELSE [n \in Msgs |-> Fate(n)][m]]
  BY <1>4
<1>6. Promise!Forget(S)
  BY <1>2, <1>3, <1>5 DEF Promise!Forget
<1> QED
  BY <1>6 DEF Promise!Next

\* Every step of the relay, with all its loops and faults, is one of the outbox.
LEMMA RelayStepMaps == RInv /\ [RelayNext]_relayVars => [Promise!Next]_(Promise!vars)
<1> SUFFICES ASSUME RInv, [RelayNext]_relayVars PROVE [Promise!Next]_(Promise!vars)
  OBVIOUS
<1>1. CASE SendStep
  BY <1>1, StepMaps DEF SendStep, Beside, RInv
<1>2. ASSUME UNCHANGED <<status, accepted>> PROVE UNCHANGED Promise!vars
  BY <1>2, StutterMaps DEF Fate
<1>3. CASE PollCommit \/ ReceiptCommit \/ Prune
  BY <1>3, PollMaps, ReceiptMaps, PruneMaps
<1>4. CASE ~SendStep /\ ~(PollCommit \/ ReceiptCommit \/ Prune)
  <2>1. UNCHANGED <<status, accepted>>
    BY <1>4 DEF RelayNext, PollStep, PollRead, Fetch, FetchFails, PollRaises, ReceiptRead,
       HandsetSettles, AgesOut, relayVars, vars, columns, history
  <2> QED
    BY <1>2, <2>1
<1> QED
  BY <1>1, <1>3, <1>4

\* The caller's view is the outbox's: once settled, a message changes by one
\* verdict at most, and is deleted only when it can change no more.
THEOREM RelayRefines == RelaySpec => RelayImplementsOutbox
<1>1. RelayInit => Promise!Init
  BY DEF RelayInit, Init, Promise!Init, Fate, Pending
<1> QED
  BY <1>1, RelayStepMaps, RelayInvariance, PTL
     DEF RelaySpec, RelayImplementsOutbox, Promise!Spec

\* A row that says a message went out says so of a message upstream has taken:
\* no mixture of retries, fallback, faults, polls and receipts reports a text
\* that nobody had.
SuccessIsReal ==
    \A m \in Msgs : status[m] \in {"sent", "published", "delivered"} => accepted[m] > 0

\* It is so of the outbox, and the relay takes no other steps.
LEMMA OutboxStepIsReal ==
    ASSUME SuccessIsReal, accepted \in [Msgs -> Nat], [Promise!Next]_(Promise!vars)
    PROVE  SuccessIsReal'
<1> DEFINE fate == [m \in Msgs |-> Fate(m)]
           Claims == {"sent", "published", "delivered"}
<1>1. \A m \in Msgs : fate[m] \in Claims => accepted[m] > 0
  BY DEF SuccessIsReal, Fate, Pending
<1>2. \A m \in Msgs : status'[m] \in Claims => fate'[m] = status'[m]
  BY DEF Fate, Pending
<1> HIDE DEF fate
<1> SUFFICES ASSUME NEW m \in Msgs, fate'[m] \in Claims PROVE accepted'[m] > 0
  BY <1>2 DEF SuccessIsReal
<1>3. fate = [n \in Msgs |-> fate[n]]
  BY DEF fate
<1>4. CASE UNCHANGED Promise!vars
  BY <1>1, <1>4 DEF Promise!vars, fate
<1>5. ASSUME NEW n \in Msgs, Promise!Submit(n) PROVE accepted'[m] > 0
  <2>1. fate' = [fate EXCEPT ![n] = "pending"] /\ UNCHANGED accepted
    BY <1>5 DEF Promise!Submit, fate
  <2> QED
    BY <1>1, <1>3, <2>1
<1>6. ASSUME NEW n \in Msgs, Promise!HandOver(n) PROVE accepted'[m] > 0
  <2>1. UNCHANGED fate /\ accepted' = [accepted EXCEPT ![n] = @ + 1]
    BY <1>6 DEF Promise!HandOver, fate
  <2> QED
    BY <1>1, <2>1
<1>7. ASSUME NEW n \in Msgs, Promise!Settle(n) PROVE accepted'[m] > 0
  <2>1. UNCHANGED accepted
        /\ \E f \in Promise!Settled : /\ f \in Promise!Success => accepted[n] > 0
                                     /\ fate' = [fate EXCEPT ![n] = f]
    BY <1>7 DEF Promise!Settle, fate
  <2> QED
    BY <1>1, <1>3, <2>1 DEF Promise!Settled, Promise!Success
<1>8. ASSUME NEW S \in SUBSET Msgs, Promise!Report(S) PROVE accepted'[m] > 0
  <2>1. /\ \A n \in S : fate[n] = "sent"
        /\ UNCHANGED accepted
        /\ \E f \in [S -> {"delivered", "failed"}] :
               fate' = [n \in Msgs |-> IF n \in S THEN f[n] ELSE fate[n]]
    BY <1>8 DEF Promise!Report, fate
  <2> QED
    BY <1>1, <2>1
<1>9. ASSUME NEW S \in SUBSET Msgs, Promise!Forget(S) PROVE accepted'[m] > 0
  <2>1. /\ UNCHANGED accepted
        /\ fate' = [n \in Msgs |-> IF n \in S THEN "gone" ELSE fate[n]]
    BY <1>9 DEF Promise!Forget, fate
  <2> QED
    BY <1>1, <2>1
<1> QED
  BY <1>4, <1>5, <1>6, <1>7, <1>8, <1>9 DEF Promise!Next

\* A caller who reads `sent`, `published` or `delivered` reads of a text that
\* the gateway or the ntfy server has taken.
THEOREM SuccessReal == RelaySpec => []SuccessIsReal
<1>1. RelayInit => SuccessIsReal
  BY DEF RelayInit, Init, SuccessIsReal
<1>2. RInv /\ SuccessIsReal /\ [RelayNext]_relayVars => SuccessIsReal'
  <2>1. RInv => accepted \in [Msgs -> Nat]
    BY DEF RInv, IInv, TypeOK
  <2> QED
    BY <2>1, RelayStepMaps, OutboxStepIsReal
<1> QED
  BY <1>1, <1>2, RelayInvariance, PTL DEF RelaySpec
=============================================================================
