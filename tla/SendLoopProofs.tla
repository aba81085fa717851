--------------------------- MODULE SendLoopProofs ---------------------------
(***************************************************************************)
(* Proofs about SendLoop, for any set of messages, any max_attempts and any *)
(* faults.                                                                  *)
(***************************************************************************)
EXTENDS SendLoop, FiniteSetTheorems, TLAPS

-----------------------------------------------------------------------------
(* The inductive invariant.                                                *)

\* What the iteration holds in memory at each of its steps.
MemoryInv ==
    /\ pc \in {"top", "requeue", "claim"} => mem = Idle
    /\ pc \notin {"top", "requeue", "claim"} => mem.id \in Msgs
    /\ pc = "record" <=> mem.outcome # "none"
    /\ pc \in {"publishing", "published"} => mem.transport = "ntfy"
    /\ pc \in {"fallback", "acquire", "sending", "record"} => mem.transport # "ntfy"
    /\ pc # "requeue" => stale = {}

\* The rows the iteration is about to write are as it read them.
ReadInv ==
    /\ \A m \in stale : status[m] = "sending"
    /\ pc = "claimed" => /\ status[mem.id] = "queued"
                         /\ transport[mem.id] = mem.transport
                         /\ attempts[mem.id] = mem.attempts

\* Not settled yet.
Open(m) == status[m] \in {"absent"} \cup Pending

\* Attempts are left for whatever may still be tried.
AttemptsInv ==
    \A m \in Msgs : Open(m) => attempts[m] < MaxAttempts

InSmsCall(m) == mem.id = m /\ pc \in {"sending", "record"}

\* Every SMS call is counted, was lost to a fault, or is in flight.
AccountingInv ==
    \A m \in Msgs : smsTries[m] = attempts[m] + unrecorded[m] + IF InSmsCall(m) THEN 1 ELSE 0

\* Every acceptance of an open message is lost or about to be recorded; at most
\* one more was recorded when it settled.
AcceptanceInv ==
    \A m \in Msgs :
        IF Open(m) THEN accepted[m] = lost[m] + IF mem.id = m /\ Unsaved THEN 1 ELSE 0
                   ELSE accepted[m] <= lost[m] + 1

\* A row still bound for ntfy has had no SMS call.
ChannelInv == \A m \in Msgs : transport[m] = "ntfy" => smsTries[m] = 0

FreshInv == \A m \in Msgs : status[m] = "absent" => smsTries[m] = 0

IInv == /\ TypeOK /\ MemoryInv /\ ReadInv /\ WrittenAhead /\ AttemptsInv
        /\ AccountingInv /\ AcceptanceInv /\ ChannelInv /\ FreshInv
        /\ FailedIsExplained

-----------------------------------------------------------------------------
USE MsgsAssumption, ChannelsAssumption, MaxAttemptsAssumption, FaultAssumption

\* Counting one more call of the message in memory keeps a counter a counter.
LEMMA MoreIsNat ==
    ASSUME NEW f \in [Msgs -> Nat], NEW n \in Nat
    PROVE  More(f, n) \in [Msgs -> Nat]
<1>1. ASSUME NEW m \in Msgs PROVE More(f, n)[m] \in Nat
  BY DEF More
<1> QED
  BY <1>1 DEF More

LEMMA NothingMore ==
    ASSUME NEW f \in [Msgs -> Nat] PROVE More(f, 0) = f
<1>1. \A m \in Msgs : More(f, 0)[m] = f[m]
  BY DEF More
<1>2. f = [m \in Msgs |-> f[m]] /\ More(f, 0) = [m \in Msgs |-> More(f, 0)[m]]
  BY DEF More
<1> QED
  BY <1>1, <1>2

\* The empty table satisfies the invariant.
LEMMA InitIInv == Init => IInv
BY DEF Init, Idle, Status, Settled, Pending, Open, Steps, Outcomes, IInv, TypeOK, MemoryInv, ReadInv,
       WrittenAhead, AttemptsInv, AccountingInv, AcceptanceInv, ChannelInv, FreshInv,
       FailedIsExplained, Held, InSmsCall, Unsaved

\* Every step of an iteration preserves the invariant.
LEMMA LoopIInv == IInv /\ LoopStep => IInv'
<1> SUFFICES ASSUME IInv, LoopStep PROVE IInv'
  OBVIOUS
<1> USE DEF IInv, Idle, Status, Settled, Pending, Open, Steps, Outcomes, Alive, columns, history
<1>1. CASE RequeueRead
  <2> USE <1>1 DEF RequeueRead, Orphans
  <2>1. TypeOK' /\ MemoryInv' /\ ReadInv' /\ WrittenAhead'
    BY DEF TypeOK, MemoryInv, ReadInv, WrittenAhead, Held
  <2>2. AttemptsInv' /\ ChannelInv' /\ FreshInv' /\ FailedIsExplained'
    BY DEF AttemptsInv, ChannelInv, FreshInv, FailedIsExplained
  <2>3. AccountingInv' /\ AcceptanceInv'
    BY DEF TypeOK, AccountingInv, AcceptanceInv, InSmsCall, Unsaved
  <2> QED
    BY <2>1, <2>2, <2>3
<1>2. CASE RequeueCommit
  BY <1>2 DEF RequeueCommit, TypeOK, MemoryInv, ReadInv, WrittenAhead, AttemptsInv,
     AccountingInv, AcceptanceInv, ChannelInv, FreshInv, FailedIsExplained, Held,
     InSmsCall, Unsaved
<1>3. CASE ClaimRead
  <2>1. CASE pc' = "top" /\ UNCHANGED mem
    BY <1>3, <2>1 DEF ClaimRead, TypeOK, MemoryInv, ReadInv, WrittenAhead, AttemptsInv,
       AccountingInv, AcceptanceInv, ChannelInv, FreshInv, FailedIsExplained, Held,
       InSmsCall, Unsaved
  <2>2. ASSUME NEW m \in Claimable, pc' = "claimed",
               mem' = [id |-> m, transport |-> transport[m],
                       attempts |-> attempts[m], outcome |-> "none"]
        PROVE  IInv'
    <3> USE <1>3, <2>2 DEF ClaimRead, Claimable
    <3>1. TypeOK'
      BY DEF TypeOK
    <3>2. MemoryInv' /\ ReadInv' /\ WrittenAhead'
      BY DEF TypeOK, MemoryInv, ReadInv, WrittenAhead, Held
    <3>3. AttemptsInv' /\ ChannelInv' /\ FreshInv' /\ FailedIsExplained'
      BY DEF AttemptsInv, ChannelInv, FreshInv, FailedIsExplained
    <3>4. AccountingInv' /\ AcceptanceInv'
      BY DEF TypeOK, AccountingInv, AcceptanceInv, InSmsCall, Unsaved
    <3> QED
      BY <3>1, <3>2, <3>3, <3>4
  <2> QED
    BY <1>3, <2>1, <2>2 DEF ClaimRead
<1>4. CASE ClaimCommit
  <2> USE <1>4 DEF ClaimCommit, Put
  <2>1. TypeOK'
    <3>1. ntfyTries' \in [Msgs -> Nat]
      <4>1. ntfyTries' = More(ntfyTries, 1) \/ UNCHANGED ntfyTries
        OBVIOUS
      <4>2. ntfyTries \in [Msgs -> Nat]
        BY DEF TypeOK
      <4> QED
        BY <4>1, <4>2, MoreIsNat
    <3>2. status' \in [Msgs -> Status] /\ stuck' \in [Msgs -> BOOLEAN] /\ pc' \in Steps
      BY DEF TypeOK
    <3> QED
      BY <3>1, <3>2 DEF TypeOK
  <2>2. MemoryInv' /\ ReadInv' /\ WrittenAhead'
    BY DEF TypeOK, MemoryInv, ReadInv, WrittenAhead, Held
  <2>3. AttemptsInv' /\ ChannelInv' /\ FreshInv' /\ FailedIsExplained'
    BY DEF TypeOK, MemoryInv, ReadInv, AttemptsInv, ChannelInv, FreshInv, FailedIsExplained
  <2>4. AccountingInv'
    BY DEF TypeOK, AccountingInv, InSmsCall
  <2>5. AcceptanceInv'
    <3>1. ASSUME NEW m \in Msgs
          PROVE  /\ Open(m)' <=> Open(m)
                 /\ ~(mem.id = m /\ Unsaved) /\ ~(mem.id = m /\ Unsaved)'
      BY DEF TypeOK, MemoryInv, ReadInv, Unsaved
    <3> QED
      BY <3>1 DEF AcceptanceInv
  <2> QED
    BY <2>1, <2>2, <2>3, <2>4, <2>5
<1>5. CASE PublishOk
  <2> USE <1>5 DEF PublishOk
  <2>1. TypeOK'
    BY MoreIsNat DEF TypeOK
  <2>2. MemoryInv' /\ ReadInv' /\ WrittenAhead'
    BY DEF MemoryInv, ReadInv, WrittenAhead, Held
  <2>3. AttemptsInv' /\ ChannelInv' /\ FreshInv' /\ FailedIsExplained'
    BY DEF AttemptsInv, ChannelInv, FreshInv, FailedIsExplained
  <2>4. AccountingInv'
    BY DEF AccountingInv, InSmsCall
  <2>5. AcceptanceInv'
    BY DEF TypeOK, MemoryInv, WrittenAhead, Held, AcceptanceInv, Unsaved, More
  <2> QED
    BY <2>1, <2>2, <2>3, <2>4, <2>5
<1>6. CASE PublishedCommit
  BY <1>6 DEF PublishedCommit, TypeOK, MemoryInv, ReadInv, WrittenAhead, AttemptsInv,
     AccountingInv, AcceptanceInv, ChannelInv, FreshInv, FailedIsExplained, Held,
     InSmsCall, Unsaved, Put
<1>7. CASE PublishFails
  <2>1. PICK took \in {0, 1} : accepted' = More(accepted, took) /\ lost' = More(lost, took)
    BY <1>7 DEF PublishFails
  <2> USE <1>7 DEF PublishFails
  <2>2. TypeOK'
    <3>1. accepted' \in [Msgs -> Nat] /\ lost' \in [Msgs -> Nat]
      BY <2>1, MoreIsNat DEF TypeOK
    <3> QED
      BY <3>1 DEF TypeOK
  <2>3. MemoryInv' /\ ReadInv' /\ WrittenAhead'
    BY DEF TypeOK, MemoryInv, ReadInv, WrittenAhead, Held
  <2>4. AttemptsInv' /\ ChannelInv' /\ FreshInv' /\ FailedIsExplained'
    BY DEF AttemptsInv, ChannelInv, FreshInv, FailedIsExplained
  <2>5. AccountingInv'
    BY DEF TypeOK, AccountingInv, InSmsCall
  <2>6. AcceptanceInv'
    BY <2>1 DEF TypeOK, MemoryInv, WrittenAhead, Held, AcceptanceInv, Unsaved, More
  <2> QED
    BY <2>2, <2>3, <2>4, <2>5, <2>6
<1>8. CASE FallbackCommit
  BY <1>8 DEF FallbackCommit, TypeOK, MemoryInv, ReadInv, WrittenAhead, AttemptsInv,
     AccountingInv, AcceptanceInv, ChannelInv, FreshInv, FailedIsExplained, Held,
     InSmsCall, Unsaved, Put
<1>9. CASE Acquire
  <2> USE <1>9 DEF Acquire
  <2>1. TypeOK'
    BY MoreIsNat DEF TypeOK
  <2>2. MemoryInv' /\ ReadInv' /\ WrittenAhead'
    BY DEF MemoryInv, ReadInv, WrittenAhead, Held
  <2>3. AttemptsInv' /\ FailedIsExplained'
    BY DEF AttemptsInv, FailedIsExplained
  <2>4. ChannelInv' /\ FreshInv'
    BY DEF TypeOK, MemoryInv, WrittenAhead, Held, ChannelInv, FreshInv, More
  <2>5. AccountingInv' /\ AcceptanceInv'
    BY DEF TypeOK, MemoryInv, AccountingInv, AcceptanceInv, InSmsCall, Unsaved, More
  <2> QED
    BY <2>1, <2>2, <2>3, <2>4, <2>5
<1>10. CASE SendOk
  BY <1>10, MoreIsNat DEF SendOk, TypeOK, MemoryInv, ReadInv, WrittenAhead, AttemptsInv,
     AccountingInv, AcceptanceInv, ChannelInv, FreshInv, FailedIsExplained, Held,
     InSmsCall, Unsaved, More
<1>11. CASE SendFails
  BY <1>11, MoreIsNat DEF SendFails, TypeOK, MemoryInv, ReadInv, WrittenAhead, AttemptsInv,
     AccountingInv, AcceptanceInv, ChannelInv, FreshInv, FailedIsExplained, Held,
     InSmsCall, Unsaved, More
<1>12. CASE RecordCommit
  <2> USE <1>12 DEF RecordCommit, StatusAfter, Exhausted, Put
  <2>1. TypeOK'
    BY DEF TypeOK, MemoryInv, WrittenAhead, Held, AttemptsInv
  <2>2. MemoryInv' /\ ReadInv' /\ WrittenAhead'
    BY DEF TypeOK, MemoryInv, ReadInv, WrittenAhead, Held
  <2>3. AttemptsInv' /\ ChannelInv' /\ FreshInv'
    BY DEF TypeOK, MemoryInv, WrittenAhead, Held, AttemptsInv, ChannelInv, FreshInv
  <2>4. AccountingInv' /\ AcceptanceInv'
    BY DEF TypeOK, MemoryInv, WrittenAhead, Held, AccountingInv, AcceptanceInv,
       InSmsCall, Unsaved
  <2>5. FailedIsExplained'
    <3> SUFFICES ASSUME NEW m \in Msgs, status'[m] = "failed"
                 PROVE  \/ error'[m] = "permanent"
                        \/ error'[m] = "transient" /\ attempts'[m] = MaxAttempts
                        \/ error'[m] = "none" /\ pid'[m] # 0
      BY DEF FailedIsExplained
    <3>1. CASE m = mem.id
      <4>1. mem.attempts + 1 <= MaxAttempts /\ attempts'[m] = mem.attempts + 1
        BY <3>1 DEF TypeOK, MemoryInv, WrittenAhead, Held, AttemptsInv
      <4>2. mem.outcome = "permanent" \/ (mem.outcome = "transient" /\ mem.attempts + 1 >= MaxAttempts)
        BY <3>1 DEF TypeOK
      <4>3. error'[m] = mem.outcome
        BY <3>1, <4>2 DEF TypeOK
      <4> QED
        BY <4>1, <4>2, <4>3 DEF TypeOK
    <3>2. CASE m # mem.id
      <4>1. status[m] = "failed"
        BY <3>2 DEF TypeOK
      <4>2. error'[m] = error[m] /\ attempts'[m] = attempts[m] /\ pid'[m] = pid[m]
        BY <3>2 DEF TypeOK
      <4> QED
        BY <4>1, <4>2 DEF FailedIsExplained
    <3> QED
      BY <3>1, <3>2
  <2> QED
    BY <2>1, <2>2, <2>3, <2>4, <2>5
<1> QED
  BY <1>1, <1>2, <1>3, <1>4, <1>5, <1>6, <1>7, <1>8, <1>9, <1>10, <1>11, <1>12
     DEF LoopStep

-----------------------------------------------------------------------------
\* Losing the memory of an iteration preserves the invariant, wherever it is.
LEMMA AbandonIInv ==
    ASSUME IInv, Abandon, Alive, proc' \in {"up", "stopping", "stopped", "crashed"},
           faults' \in 0..MaxFaults
    PROVE  IInv'
<1> USE DEF IInv, Idle, Status, Settled, Pending, Open, Steps, Outcomes, columns
<1>1. PICK took \in {0, 1} :
        /\ ~CallOpen => took = 0
        /\ accepted' = [m \in Msgs |-> accepted[m] + IF m = mem.id THEN took ELSE 0]
        /\ lost' = [m \in Msgs |-> lost[m] + IF m = mem.id
                                             THEN took + IF Unsaved THEN 1 ELSE 0
                                             ELSE 0]
  BY DEF Abandon
<1>2. TypeOK'
  <2>1. accepted' \in [Msgs -> Nat] /\ lost' \in [Msgs -> Nat]
    BY <1>1 DEF TypeOK
  <2>2. unrecorded' \in [Msgs -> Nat]
    BY DEF TypeOK, Abandon
  <2> QED
    BY <2>1, <2>2 DEF TypeOK, Abandon
<1>3. MemoryInv' /\ ReadInv' /\ WrittenAhead'
  BY DEF Abandon, MemoryInv, ReadInv, WrittenAhead, Held
<1>4. AttemptsInv' /\ ChannelInv' /\ FreshInv' /\ FailedIsExplained'
  BY DEF Abandon, AttemptsInv, ChannelInv, FreshInv, FailedIsExplained
<1>5. AccountingInv'
  BY DEF Abandon, TypeOK, AccountingInv, InSmsCall
<1>6. AcceptanceInv'
  BY <1>1 DEF Abandon, TypeOK, MemoryInv, WrittenAhead, Held, AcceptanceInv, Unsaved
<1> QED
  BY <1>2, <1>3, <1>4, <1>5, <1>6

\* So does everything that happens around the loop.
LEMMA EnvironmentIInv == IInv /\ [Next]_vars => LoopStep \/ IInv'
<1> SUFFICES ASSUME IInv, [Next]_vars, ~LoopStep PROVE IInv'
  OBVIOUS
<1> USE DEF IInv, Idle, Status, Settled, Pending, Open, Steps, Outcomes, Alive, columns, history
<1>1. ASSUME NEW m \in Msgs, NEW via \in Channels, Enqueue(m, via) PROVE IInv'
  <2> USE <1>1 DEF Enqueue
  <2>1. TypeOK' /\ MemoryInv' /\ ReadInv' /\ WrittenAhead'
    BY DEF TypeOK, MemoryInv, ReadInv, WrittenAhead, Held
  <2>2. AttemptsInv' /\ ChannelInv' /\ FreshInv' /\ FailedIsExplained'
    BY DEF TypeOK, AttemptsInv, ChannelInv, FreshInv, FailedIsExplained
  <2>3. AccountingInv' /\ AcceptanceInv'
    BY DEF TypeOK, AccountingInv, AcceptanceInv, InSmsCall, Unsaved
  <2> QED
    BY <2>1, <2>2, <2>3
<1>2. ASSUME NEW m \in Msgs, BackoffElapses(m) \/ GoesStuck(m) PROVE IInv'
  <2> USE <1>2 DEF BackoffElapses, GoesStuck
  <2>1. TypeOK'
    BY DEF TypeOK
  <2>2. MemoryInv' /\ ReadInv' /\ WrittenAhead'
    BY DEF MemoryInv, ReadInv, WrittenAhead, Held
  <2>3. AttemptsInv' /\ ChannelInv' /\ FreshInv' /\ FailedIsExplained'
    BY DEF AttemptsInv, ChannelInv, FreshInv, FailedIsExplained
  <2>4. AccountingInv' /\ AcceptanceInv'
    BY DEF AccountingInv, AcceptanceInv, InSmsCall, Unsaved
  <2> QED
    BY <2>1, <2>2, <2>3, <2>4
<1>3. CASE IterationRaises
  BY <1>3, AbandonIInv DEF IterationRaises, Fault, TypeOK
<1>4. CASE Kill
  BY <1>4, AbandonIInv DEF Kill, Fault, TypeOK
<1>5. CASE CancelTasks
  BY <1>5, AbandonIInv DEF CancelTasks, TypeOK
<1>6. CASE Stop \/ GracefulExit \/ Restart
  <2> USE <1>6 DEF Stop, GracefulExit, Restart
  <2>1. TypeOK'
    <3>1. faults' \in 0..MaxFaults /\ proc' \in {"up", "stopping", "stopped", "crashed"}
      BY DEF TypeOK, Fault
    <3>2. UNCHANGED <<columns, pc, stale, mem, history>>
      OBVIOUS
    <3> QED
      BY <3>1, <3>2 DEF TypeOK
  <2>2. MemoryInv' /\ ReadInv' /\ WrittenAhead'
    BY DEF MemoryInv, ReadInv, WrittenAhead, Held
  <2>3. AttemptsInv' /\ ChannelInv' /\ FreshInv' /\ FailedIsExplained'
    BY DEF AttemptsInv, ChannelInv, FreshInv, FailedIsExplained
  <2>4. AccountingInv' /\ AcceptanceInv'
    BY DEF AccountingInv, AcceptanceInv, InSmsCall, Unsaved
  <2> QED
    BY <2>1, <2>2, <2>3, <2>4
<1>7. CASE UNCHANGED vars
  BY <1>7 DEF vars, TypeOK, MemoryInv, ReadInv, WrittenAhead,
     AttemptsInv, AccountingInv, AcceptanceInv, ChannelInv, FreshInv, FailedIsExplained,
     Held, InSmsCall, Unsaved
<1> QED
  BY <1>1, <1>2, <1>3, <1>4, <1>5, <1>6, <1>7 DEF Next

\* The invariant holds of every reachable state.
THEOREM Invariance == Spec => []IInv
<1>1. IInv /\ [Next]_vars => IInv'
  BY LoopIInv, EnvironmentIInv
<1> QED
  BY InitIInv, <1>1, PTL DEF Spec

-----------------------------------------------------------------------------
(* The promises.                                                           *)

\* Attempts never pass max_attempts, and every column keeps its range.
THEOREM TypeCorrect == Spec => []TypeOK
<1>1. IInv => TypeOK
  BY DEF IInv
<1> QED
  BY <1>1, Invariance, PTL

\* Upstream takes a copy too many only for an answer the relay lost.
THEOREM DuplicateSafety == Spec => []DuplicatesNeedLostAnswers
<1>1. IInv => DuplicatesNeedLostAnswers
  BY DEF IInv, TypeOK, AcceptanceInv, DuplicatesNeedLostAnswers
<1> QED
  BY <1>1, Invariance, PTL

\* What the accounts say of the calls made.
LEMMA CallsAreAccounted == IInv => RetryBudget
<1> SUFFICES ASSUME IInv, NEW m \in Msgs PROVE smsTries[m] <= MaxAttempts + unrecorded[m]
  BY DEF RetryBudget
<1>1. CASE InSmsCall(m)
  BY <1>1 DEF IInv, TypeOK, MemoryInv, WrittenAhead, Held, AttemptsInv, AccountingInv, InSmsCall,
     Open, Pending
<1>2. CASE ~InSmsCall(m)
  BY <1>2 DEF IInv, TypeOK, AccountingInv
<1> QED
  BY <1>1, <1>2

\* SMS calls stay within max_attempts but for those a fault left uncounted.
THEOREM RetriesBounded == Spec => []RetryBudget
  BY CallsAreAccounted, Invariance, PTL

\* Every open call is on disk as `sending`, on the channel in memory.
THEOREM WriteAhead == Spec => []WrittenAhead
<1>1. IInv => WrittenAhead
  BY DEF IInv
<1> QED
  BY <1>1, Invariance, PTL

\* No row fails without a refusal or the last attempt to show for it.
THEOREM FailuresExplained == Spec => []FailedIsExplained
<1>1. IInv => FailedIsExplained
  BY DEF IInv
<1> QED
  BY <1>1, Invariance, PTL

\* Only a row still bound for ntfy is published.
LEMMA NoPublishAfterSms ==
    ASSUME IInv, [Next]_vars
    PROVE  \A m \in Msgs : smsTries[m] > 0 => ntfyTries'[m] = ntfyTries[m]
<1> SUFFICES ASSUME NEW m \in Msgs, smsTries[m] > 0
             PROVE  ntfyTries'[m] = ntfyTries[m]
  OBVIOUS
<1>1. CASE ClaimCommit
  <2>1. transport[m] # "ntfy"
    BY DEF IInv, TypeOK, ChannelInv
  <2>2. m = mem.id => mem.transport # "ntfy"
    BY <1>1, <2>1 DEF ClaimCommit, IInv, ReadInv
  <2> QED
    BY <1>1, <2>2 DEF ClaimCommit, IInv, TypeOK, More
<1>2. CASE ~ClaimCommit
  BY <1>2 DEF Next, LoopStep, vars, history, Enqueue, BackoffElapses, GoesStuck,
     RequeueRead, RequeueCommit, ClaimRead, PublishOk, PublishedCommit, PublishFails,
     FallbackCommit, Acquire, SendOk, SendFails, RecordCommit, IterationRaises, Kill,
     Stop, GracefulExit, CancelTasks, Restart, Abandon
<1> QED
  BY <1>1, <1>2

\* The fallback is never taken back, across any number of restarts.
THEOREM FallbackIsForGood == Spec => NoNtfyAfterSms
<1>1. IInv /\ [Next]_vars =>
        \A m \in Msgs : smsTries[m] > 0 => ntfyTries'[m] = ntfyTries[m]
  BY NoPublishAfterSms
<1> QED
  BY <1>1, Invariance, PTL DEF Spec, NoNtfyAfterSms

\* The message in memory is never a settled one.
LEMMA HeldIsPending ==
    ASSUME IInv, pc \notin {"top", "requeue", "claim"}
    PROVE  mem.id \in Msgs /\ status[mem.id] \in Pending
BY DEF IInv, TypeOK, MemoryInv, ReadInv, WrittenAhead, Held, Steps, Pending

Untouched(m) ==
    /\ status'[m] = status[m] /\ transport'[m] = transport[m]
    /\ attempts'[m] = attempts[m] /\ pid'[m] = pid[m] /\ error'[m] = error[m]
    /\ smsTries'[m] = smsTries[m] /\ ntfyTries'[m] = ntfyTries[m]
    /\ accepted'[m] = accepted[m]

\* A row that is not open is left alone by every step of the queue.
LEMMA OnlyOpenTouched ==
    ASSUME IInv, [Next]_vars, NEW m \in Msgs, ~Open(m)
    PROVE  Untouched(m)
<1> USE DEF columns, history, Put, More, IInv, TypeOK, Open, Pending, Untouched
<1>1. CASE pc \in {"top", "requeue", "claim"} /\ LoopStep
  BY <1>1 DEF LoopStep, ReadInv, RequeueRead, RequeueCommit, ClaimRead, ClaimCommit,
     PublishOk, PublishedCommit, PublishFails, FallbackCommit, Acquire, SendOk, SendFails,
     RecordCommit
<1>2. CASE pc \notin {"top", "requeue", "claim"} /\ LoopStep
  <2>1. m # mem.id
    BY <1>2, HeldIsPending
  <2> QED
    BY <1>2, <2>1 DEF LoopStep, RequeueRead, RequeueCommit, ClaimRead, ClaimCommit,
       PublishOk, PublishedCommit, PublishFails, FallbackCommit, Acquire, SendOk, SendFails,
       RecordCommit
<1>3. ASSUME Abandon PROVE Untouched(m)
  <2>1. m # mem.id \/ ~CallOpen
    BY HeldIsPending DEF CallOpen
  <2> QED
    BY <1>3, <2>1 DEF Abandon
<1>4. CASE IterationRaises \/ Kill \/ CancelTasks
  BY <1>3, <1>4 DEF IterationRaises, Kill, CancelTasks
<1>5. CASE Stop \/ GracefulExit \/ Restart \/ UNCHANGED vars
  BY <1>5 DEF Stop, GracefulExit, Restart, vars
<1>6. ASSUME NEW n \in Msgs, \/ \E via \in Channels : Enqueue(n, via)
                             \/ BackoffElapses(n) \/ GoesStuck(n)
      PROVE  Untouched(m)
  BY <1>6 DEF Enqueue, BackoffElapses, GoesStuck
<1> QED
  BY <1>1, <1>2, <1>4, <1>5, <1>6 DEF Next

\* A settled row is left alone for good.
THEOREM Settlement == Spec => SettledIsFinal
<1>1. IInv /\ [Next]_vars => \A m \in Msgs : status[m] \in Settled => Untouched(m)
  BY OnlyOpenTouched DEF Settled, Open, Pending
<1>2. IInv /\ [Next]_vars => \A m \in Msgs : status[m] \in Settled =>
          /\ status'[m] = status[m] /\ transport'[m] = transport[m]
          /\ attempts'[m] = attempts[m] /\ pid'[m] = pid[m]
          /\ smsTries'[m] = smsTries[m] /\ ntfyTries'[m] = ntfyTries[m]
          /\ accepted'[m] = accepted[m]
  BY <1>1 DEF Untouched
<1> QED
  BY <1>2, Invariance, PTL DEF Spec, SettledIsFinal

-----------------------------------------------------------------------------
(* Orphans.                                                                *)

\* A stop that may still cancel an iteration has paid for the orphan it leaves.
OrphanInv == Cardinality(Stranded) + (IF proc = "stopping" THEN 1 ELSE 0) <= faults

\* The loop's own steps strand nothing.
LEMMA LoopStrandsNothing == IInv /\ LoopStep => Stranded' \subseteq Stranded
<1> SUFFICES ASSUME IInv, LoopStep, NEW m \in Msgs, status'[m] = "sending", m # mem'.id
             PROVE  status[m] = "sending" /\ m # mem.id
  BY DEF Stranded
<1> USE DEF IInv, TypeOK, Put
<1>1. CASE RequeueRead \/ RequeueCommit
  BY <1>1 DEF RequeueRead, RequeueCommit, columns
<1>2. CASE ClaimRead
  <2>1. mem.id \notin Msgs
    BY <1>2 DEF ClaimRead, MemoryInv, Idle
  <2> QED
    BY <1>2, <2>1 DEF ClaimRead, columns
<1>3. CASE PublishedCommit \/ RecordCommit
  BY <1>3 DEF PublishedCommit, RecordCommit, StatusAfter
<1>4. CASE \/ ClaimCommit \/ PublishOk \/ PublishFails \/ FallbackCommit
           \/ Acquire \/ SendOk \/ SendFails
  BY <1>4 DEF ClaimCommit, PublishOk, PublishFails, FallbackCommit, Acquire, SendOk,
     SendFails, columns
<1> QED
  BY <1>1, <1>2, <1>3, <1>4 DEF LoopStep

\* Losing an iteration strands its message and no other.
LEMMA AbandonStrandsOne ==
    ASSUME IInv, Abandon
    PROVE  Cardinality(Stranded') <= Cardinality(Stranded) + 1
<1>1. Stranded' \subseteq Stranded \cup {mem.id}
  BY DEF Abandon, Stranded, columns
<1>2. IsFiniteSet(Stranded)
  BY FS_Subset, MsgsAssumption DEF Stranded
<1>3. /\ IsFiniteSet(Stranded \cup {mem.id})
      /\ Cardinality(Stranded \cup {mem.id}) <= Cardinality(Stranded) + 1
  <2>1. Cardinality(Stranded) \in Nat
    BY <1>2, FS_CardinalityType
  <2>2. Cardinality(Stranded \cup {mem.id})
          = IF mem.id \in Stranded THEN Cardinality(Stranded) ELSE Cardinality(Stranded) + 1
    BY <1>2, FS_AddElement
  <2>3. IsFiniteSet(Stranded \cup {mem.id})
    BY <1>2, FS_AddElement
  <2> QED
    BY <2>1, <2>2, <2>3
<1>4. Cardinality(Stranded') <= Cardinality(Stranded \cup {mem.id})
  BY <1>1, <1>3, FS_Subset
<1> QED
  <2>1. IsFiniteSet(Stranded')
    BY <1>1, <1>3, FS_Subset
  <2> QED
    BY <1>2, <1>3, <1>4, <2>1, FS_CardinalityType

LEMMA NoOrphansYet == Init => OrphanInv
<1> SUFFICES ASSUME Init PROVE OrphanInv
  OBVIOUS
<1>1. Stranded = {}
  BY DEF Init, Stranded
<1> QED
  BY <1>1, FS_EmptySet DEF Init, OrphanInv

\* Whatever the queue's steps strand, a fault has been paid for it.
LEMMA OrphanStep ==
    ASSUME IInv, OrphanInv, [Next]_vars
    PROVE  OrphanInv'
<1>1. IsFiniteSet(Stranded) /\ Cardinality(Stranded) \in Nat
  BY FS_Subset, FS_CardinalityType, MsgsAssumption DEF Stranded
<1>2. IsFiniteSet(Stranded') /\ Cardinality(Stranded') \in Nat
  BY FS_Subset, FS_CardinalityType, MsgsAssumption DEF Stranded
<1>3. faults \in Nat
  BY DEF IInv, TypeOK
<1>4. ASSUME Stranded' \subseteq Stranded, UNCHANGED <<proc, faults>> PROVE OrphanInv'
  <2>1. Cardinality(Stranded') <= Cardinality(Stranded)
    BY <1>1, <1>4, FS_Subset
  <2> QED
    BY <1>1, <1>2, <1>3, <1>4, <2>1 DEF OrphanInv
<1>5. CASE LoopStep
  <2>1. UNCHANGED <<proc, faults>>
    BY <1>5 DEF LoopStep, RequeueRead, RequeueCommit, ClaimRead, ClaimCommit,
       PublishOk, PublishedCommit, PublishFails, FallbackCommit, Acquire, SendOk, SendFails,
       RecordCommit
  <2> QED
    BY <1>4, <1>5, <2>1, LoopStrandsNothing
<1>6. CASE IterationRaises \/ Kill \/ CancelTasks
  <2>1. Cardinality(Stranded') <= Cardinality(Stranded) + 1
    BY <1>6, AbandonStrandsOne DEF IterationRaises, Kill, CancelTasks
  <2>2. \/ UNCHANGED proc /\ faults' = faults + 1
        \/ proc' # "stopping" /\ faults' = faults + 1
        \/ proc = "stopping" /\ proc' # "stopping" /\ UNCHANGED faults
    BY <1>6 DEF IterationRaises, Kill, CancelTasks, Fault
  <2> QED
    BY <1>1, <1>2, <1>3, <2>1, <2>2 DEF OrphanInv
<1>7. CASE Stop \/ GracefulExit \/ Restart
  <2>1. UNCHANGED Stranded
    BY <1>7 DEF Stop, GracefulExit, Restart, Stranded, columns
  <2> QED
    BY <1>1, <1>3, <1>7, <2>1 DEF Stop, GracefulExit, Restart, Fault, OrphanInv
<1>8. ASSUME NEW n \in Msgs, \/ \E via \in Channels : Enqueue(n, via)
                             \/ BackoffElapses(n) \/ GoesStuck(n)
      PROVE  OrphanInv'
  <2>1. Stranded' \subseteq Stranded
    BY <1>8 DEF Enqueue, BackoffElapses, GoesStuck, Stranded, IInv, TypeOK
  <2> QED
    BY <1>4, <1>8, <2>1 DEF Enqueue, BackoffElapses, GoesStuck
<1>9. CASE UNCHANGED vars
  BY <1>4, <1>9 DEF vars, Stranded, columns
<1> QED
  BY <1>5, <1>6, <1>7, <1>8, <1>9 DEF Next

LEMMA OrphansPaid == IInv /\ OrphanInv => OrphansNeedFaults
  BY FS_Subset, FS_CardinalityType, MsgsAssumption DEF OrphanInv, OrphansNeedFaults, Stranded,
     IInv, TypeOK

\* Rows stuck in `sending` cost a fault each.
THEOREM OrphansCostFaults == Spec => []OrphansNeedFaults
<1>1. IInv /\ OrphanInv /\ [Next]_vars => OrphanInv'
  BY OrphanStep
<1> QED
  BY NoOrphansYet, <1>1, OrphansPaid, Invariance, PTL DEF Spec

-----------------------------------------------------------------------------
(* The loop implements the abstract outbox.  (That nothing stays pending    *)
(* for ever is left to TLC.)                                                *)

\* A step that gives one message another fate, or upstream one more copy of a
\* pending one, and nothing else, is a step of the outbox.
LEMMA SubmitMaps ==
    ASSUME IInv, NEW m \in Msgs, status[m] = "absent",
           status' = [status EXCEPT ![m] = "queued"], UNCHANGED accepted
    PROVE  Promise!Submit(m)
BY DEF Promise!Submit, Fate, Pending, Status, Settled, IInv, TypeOK

LEMMA HandOverMaps ==
    ASSUME IInv, NEW m \in Msgs, status[m] = "sending", UNCHANGED status,
           accepted' = [accepted EXCEPT ![m] = @ + 1]
    PROVE  Promise!HandOver(m)
BY DEF Promise!HandOver, Fate, Pending, Status, Settled, IInv, TypeOK

LEMMA SettleMaps ==
    ASSUME IInv, NEW m \in Msgs, status[m] = "sending", NEW f \in Settled,
           f \in {"sent", "published"} => accepted[m] > 0,
           status' = [status EXCEPT ![m] = f], UNCHANGED accepted
    PROVE  Promise!Settle(m)
<1>1. Fate(m) = "pending"
  BY DEF Fate, Pending
<1>2. \A n \in Msgs : Fate(n)' = IF n = m THEN f ELSE Fate(n)
  BY DEF Fate, Pending, Settled, IInv, TypeOK
<1>3. [n \in Msgs |-> Fate(n)'] = [[n \in Msgs |-> Fate(n)] EXCEPT ![m] = f]
  BY <1>2
<1>4. f \in Promise!Settled /\ (f \in Promise!Success => accepted[m] > 0)
  BY DEF Settled, Promise!Settled, Promise!Success
<1> QED
  BY <1>1, <1>3, <1>4 DEF Promise!Settle

\* Requeueing, claiming and everything that leaves status alone stutter.
LEMMA StutterMaps ==
    ASSUME \A m \in Msgs : Fate(m)' = Fate(m), UNCHANGED accepted
    PROVE  UNCHANGED Promise!vars
BY DEF Promise!vars

\* Losing an open call may still hand over a copy.
LEMMA AbandonMaps ==
    ASSUME IInv, Abandon
    PROVE  [Promise!Next]_(Promise!vars)
<1>1. UNCHANGED status
  BY DEF Abandon, columns
<1>2. PICK took \in IF CallOpen THEN {0, 1} ELSE {0} :
        accepted' = [m \in Msgs |-> accepted[m] + IF m = mem.id THEN took ELSE 0]
  BY DEF Abandon
<1>3. CASE took = 0
  <2>1. UNCHANGED accepted
    BY <1>2, <1>3 DEF IInv, TypeOK
  <2> QED
    BY <1>1, <2>1, StutterMaps DEF Fate
<1>4. CASE took = 1
  <2>1. mem.id \in Msgs /\ status[mem.id] = "sending"
    BY <1>2, <1>4 DEF IInv, MemoryInv, WrittenAhead, Held, CallOpen
  <2>2. accepted' = [accepted EXCEPT ![mem.id] = @ + 1]
    <3>1. \A m \in Msgs : accepted[m] \in Nat /\ accepted[m] + 0 = accepted[m]
      BY DEF IInv, TypeOK
    <3>2. \A m \in Msgs : accepted'[m] = [accepted EXCEPT ![mem.id] = @ + 1][m]
      BY <1>2, <1>4, <3>1 DEF IInv, TypeOK
    <3> QED
      BY <1>2, <3>2 DEF IInv, TypeOK
  <2> QED
    BY <1>1, <2>1, <2>2, HandOverMaps DEF Promise!Next
<1> QED
  BY <1>2, <1>3, <1>4

\* Every step of the loop, its environment and its faults is a step of the
\* outbox or a stutter.
LEMMA StepMaps == IInv /\ [Next]_vars => [Promise!Next]_(Promise!vars)
<1> SUFFICES ASSUME IInv, [Next]_vars PROVE [Promise!Next]_(Promise!vars)
  OBVIOUS
<1>1. ASSUME NEW m \in Msgs, NEW via \in Channels, Enqueue(m, via)
      PROVE  Promise!Next
  BY <1>1, SubmitMaps DEF Enqueue, history, Promise!Next
<1>2. CASE RequeueCommit
  <2>1. UNCHANGED accepted /\ \A m \in Msgs : Fate(m)' = Fate(m)
    BY <1>2 DEF RequeueCommit, history, Fate, Pending, Status, Settled, IInv, TypeOK, ReadInv
  <2> QED
    BY <2>1, StutterMaps
<1>3. CASE ClaimCommit
  <2>1. UNCHANGED accepted /\ \A m \in Msgs : Fate(m)' = Fate(m)
    BY <1>3 DEF ClaimCommit, Put, Fate, Pending, Status, Settled, IInv, TypeOK, ReadInv
  <2> QED
    BY <2>1, StutterMaps
<1>4. CASE PublishOk \/ SendOk
  BY <1>4, HandOverMaps DEF PublishOk, SendOk, columns, More, IInv, MemoryInv, WrittenAhead,
     Held, Promise!Next
<1>5. CASE PublishFails \/ SendFails
  <2>1. UNCHANGED status /\ mem.id \in Msgs /\ status[mem.id] = "sending"
    BY <1>5 DEF PublishFails, SendFails, columns, IInv, MemoryInv, WrittenAhead, Held
  <2>2. PICK took \in {0, 1} : accepted' = More(accepted, took)
    BY <1>5 DEF PublishFails, SendFails
  <2>3. CASE took = 0
    <3>1. UNCHANGED accepted
      BY <2>2, <2>3, NothingMore DEF IInv, TypeOK
    <3> QED
      BY <2>1, <3>1, StutterMaps DEF Fate
  <2>4. CASE took = 1
    BY <2>1, <2>2, <2>4, HandOverMaps DEF More, Promise!Next
  <2> QED
    BY <2>2, <2>3, <2>4
<1>6. CASE PublishedCommit
  <2>1. mem.id \in Msgs /\ status[mem.id] = "sending" /\ accepted[mem.id] > 0
    <3>1. mem.id \in Msgs /\ status[mem.id] = "sending"
      BY <1>6 DEF PublishedCommit, IInv, MemoryInv, WrittenAhead, Held
    <3>2. accepted[mem.id] = lost[mem.id] + 1 /\ lost[mem.id] \in Nat
      BY <1>6, <3>1 DEF PublishedCommit, IInv, TypeOK, AcceptanceInv, Unsaved, Open, Pending
    <3> QED
      BY <3>1, <3>2
  <2> QED
    BY <1>6, <2>1, SettleMaps DEF PublishedCommit, Put, history, Settled, Promise!Next
<1>7. CASE RecordCommit
  <2> DEFINE after == StatusAfter(mem.outcome, mem.attempts + 1)
  <2>1. mem.id \in Msgs /\ status[mem.id] = "sending" /\ UNCHANGED accepted
        /\ status' = [status EXCEPT ![mem.id] = after]
    BY <1>7 DEF RecordCommit, Put, history, IInv, MemoryInv, WrittenAhead, Held
  <2>2. after \in {"sent", "failed", "queued"} /\ (after = "sent" => accepted[mem.id] > 0)
    <3>1. mem.outcome \in {"ok", "transient", "permanent"} /\ pc = "record"
      BY <1>7 DEF RecordCommit, IInv, TypeOK, MemoryInv, Outcomes
    <3>2. after \in {"sent", "failed", "queued"} /\ (after = "sent" => mem.outcome = "ok")
      BY <3>1 DEF StatusAfter
    <3>3. mem.outcome = "ok" => accepted[mem.id] = lost[mem.id] + 1
      BY <1>7, <2>1, <3>1 DEF RecordCommit, IInv, MemoryInv, WrittenAhead, Held, AcceptanceInv,
         Unsaved, Open, Pending
    <3>4. lost[mem.id] \in Nat
      BY <2>1 DEF IInv, TypeOK
    <3> HIDE DEF after
    <3> QED
      BY <3>2, <3>3, <3>4
  <2>3. CASE after = "queued"
    <3>1. \A m \in Msgs : Fate(m)' = Fate(m)
      BY <2>1, <2>3 DEF Fate, Pending, Status, Settled, IInv, TypeOK
    <3> QED
      BY <2>1, <3>1, StutterMaps
  <2>4. CASE after # "queued"
    BY <2>1, <2>2, <2>4, SettleMaps DEF Settled, Promise!Next
  <2> QED
    BY <2>3, <2>4
<1>8. CASE IterationRaises \/ Kill \/ CancelTasks
  BY <1>8, AbandonMaps DEF IterationRaises, Kill, CancelTasks
<1>9. ASSUME UNCHANGED <<status, accepted>> PROVE UNCHANGED Promise!vars
  BY <1>9, StutterMaps DEF Fate
<1> QED
  BY <1>1, <1>2, <1>3, <1>4, <1>5, <1>6, <1>7, <1>8, <1>9 DEF Next, LoopStep, vars, columns,
     history, BackoffElapses, GoesStuck, RequeueRead, ClaimRead, FallbackCommit, Acquire,
     Stop, GracefulExit, Restart

\* So the loop's behaviours are behaviours of the outbox.
THEOREM OutboxSafety == Spec => Promise!Spec
<1>1. Init => Promise!Init
  BY DEF Init, Promise!Init, Fate, Pending
<1> QED
  BY <1>1, StepMaps, Invariance, PTL DEF Spec, Promise!Spec
=============================================================================
