------------------------------ MODULE FanoutProofs ------------------------------
(***************************************************************************)
(* What holds of any texts, subscribers, requests in progress and faults.    *)
(***************************************************************************)
EXTENDS Fanout, FiniteSetTheorems, TLAPS

\* Deliveries the current batch holds, in any form.
InHand(d) == d \in todo \/ d = cur \/ out[d] # "none"

\* Posts of the batch that no committed attempt counts yet.
InFlight(d) == IF d = cur \/ out[d] \in {"pending", "delivered", "failed"} THEN 1 ELSE 0

Outcomes == {"none", "pending", "delivered", "failed", "cancelled"}

\* Where the loop stands: the batch's three parts are disjoint.
LoopInv ==
    /\ out \in [Deliveries -> Outcomes]
    /\ pc = "posting" <=> cur # Nobody
    /\ pc = "top" => todo = {} /\ out = None
    /\ proc = "down" => pc = "top"
    /\ \A d \in todo : out[d] = "none" /\ d # cur
    /\ cur \in Deliveries => out[cur] = "none"

\* What a delivery of the batch is in the database: pending with attempts
\* left, or gone with its message.
BatchInv ==
    \A d \in Deliveries : InHand(d) =>
        /\ row[d[1]] # "absent"
        /\ dstatus[d] \in {"pending", "absent"}
        /\ dattempts[d] < MaxDelivery
        /\ out[d] = "pending" => dattempts[d] + 1 < MaxDelivery
        /\ out[d] = "cancelled" => d[2] \notin subs \/ dstatus[d] = "absent"

\* Deliveries come and go with their message.
RowInv ==
    /\ \A r \in Rows : row[r] = "absent" => textOf[r] = "none"
    /\ \A d \in Deliveries :
          /\ row[d[1]] = "absent" => dattempts[d] = 0 /\ posts[d] = 0 /\ acks[d] = 0
          /\ row[d[1]] # "stored" => dstatus[d] = "absent"
          /\ row[d[1]] = "stored" /\ d[2] \in wanted[d[1]] => dstatus[d] # "absent"
          /\ dstatus[d] = "pending" => dattempts[d] < MaxDelivery

\* The two accounts: posts are counted, lost from the count, or in flight;
\* acceptances are lost, but for the one that settles the delivery.
CountInv ==
    \A d \in Deliveries :
        /\ posts[d] <= dattempts[d] + unrecorded[d] + InFlight(d)
        /\ acks[d] <= 1 + lostAcks[d]
        /\ (dstatus[d] = "pending" \/ InHand(d)) /\ out[d] # "delivered" => acks[d] <= lostAcks[d]

\* A request on its way to a 2xx has its text in the database.
GateInv ==
    /\ \A h \in Handlers : hpc[h] # "idle" => htext[h] \in Texts
    /\ \A h \in Handlers : hpc[h] = "reply" => \E r \in Rows : textOf[r] = htext[h]
    /\ \A t \in Texts : acked[t] => \E r \in Rows : textOf[r] = t

Inserting(t) == {h \in Handlers : hpc[h] = "insert" /\ htext[h] = t}

\* Copies of a text with an id, and those on their way, are at most as many as
\* requests: a request sets out to insert only while there is none.
CopyInv ==
    \A t \in Texts \ Unnamed :
        Cardinality(Stored(t)) + Cardinality(Inserting(t)) <= Cardinality(Handlers)

FInv == TypeOK /\ LoopInv /\ BatchInv /\ RowInv /\ CountInv /\ GateInv /\ CopyInv

-----------------------------------------------------------------------------
(* Counting.                                                               *)

LEMMA CountType ==
    ASSUME NEW f \in [Deliveries -> 0..Cap], NEW S
    PROVE  /\ Count(f, S) \in [Deliveries -> 0..Cap]
           /\ \A d \in Deliveries :
                 Count(f, S)[d] = IF d \in S /\ f[d] < Cap THEN f[d] + 1 ELSE f[d]
  <1>1. Cap \in Nat
    BY FanoutAssumption
  <1> QED
    BY <1>1 DEF Count

LEMMA DeliveryParts ==
    ASSUME NEW d \in Deliveries
    PROVE  d[1] \in Rows /\ d[2] \in Subs /\ d = <<d[1], d[2]>> /\ d # Nobody
  BY FanoutAssumption DEF Deliveries, Nobody

-----------------------------------------------------------------------------
(* Steps that leave one half of the state alone.                           *)

\* The delivery half does not see requests.
LEMMA GatewayAlone ==
    ASSUME FInv, UNCHANGED <<database, loop, proc, subs, history>>
    PROVE  LoopInv' /\ BatchInv' /\ RowInv' /\ CountInv'
  BY DEF FInv, LoopInv, BatchInv, RowInv, CountInv, InHand, InFlight, Dirty,
         database, loop, history

\* The gateway half sees only which texts are stored.
LEMMA LoopAlone ==
    ASSUME FInv, UNCHANGED <<row, textOf, gateway>>
    PROVE  GateInv' /\ CopyInv'
  BY DEF FInv, GateInv, CopyInv, Stored, Inserting, gateway

\* Dropping a batch turns what was in flight into uncounted posts, and what
\* was accepted into lost answers.
LEMMA AbandonStep ==
    ASSUME FInv, Abandon, UNCHANGED <<database, subs>>
    PROVE  /\ LoopInv' /\ BatchInv' /\ RowInv' /\ CountInv'
           /\ pc' = "top" /\ todo' = {} /\ cur' = Nobody /\ loaded' = {} /\ locked' = FALSE
           /\ out' \in [Deliveries -> {"none"}]
           /\ posts' = posts /\ wanted' = wanted
           /\ acks' \in [Deliveries -> 0..Cap] /\ lostAcks' \in [Deliveries -> 0..Cap]
           /\ unrecorded' \in [Deliveries -> 0..Cap]
  <1>0. Cap \in Nat
    BY FanoutAssumption
  <1>1. PICK took \in {{}, {cur}} :
           /\ acks' = Count(acks, took)
           /\ lostAcks' = Count(lostAcks, took \cup {d \in Dirty : out[d] = "delivered"})
           /\ pc # "posting" => took = {}
    BY DEF Abandon
  <1>2. unrecorded' = Count(unrecorded, {cur} \cup {d \in Dirty : out[d] # "cancelled"})
    BY DEF Abandon
  <1>3. /\ posts' = posts /\ wanted' = wanted
        /\ pc' = "top" /\ todo' = {} /\ cur' = Nobody /\ out' = None
        /\ loaded' = {} /\ locked' = FALSE
    BY DEF Abandon, Forget
  <1>4. UNCHANGED <<row, textOf, dstatus, dattempts, ddue, subs>>
    BY DEF database
  <1>5. /\ acks \in [Deliveries -> 0..Cap] /\ lostAcks \in [Deliveries -> 0..Cap]
        /\ unrecorded \in [Deliveries -> 0..Cap] /\ posts \in [Deliveries -> 0..Cap]
        /\ dattempts \in [Deliveries -> 0..MaxDelivery]
    BY DEF FInv, TypeOK
  <1>6. /\ acks' \in [Deliveries -> 0..Cap] /\ lostAcks' \in [Deliveries -> 0..Cap]
        /\ unrecorded' \in [Deliveries -> 0..Cap]
    BY <1>1, <1>2, <1>5, CountType
  <1>7. out' \in [Deliveries -> {"none"}] /\ \A d \in Deliveries : out'[d] = "none"
    BY <1>3 DEF None
  <1>8. LoopInv'
    BY <1>3, <1>7, DeliveryParts DEF LoopInv, Outcomes
  <1>9. BatchInv'
    BY <1>3, <1>7, DeliveryParts DEF BatchInv, InHand
  <1>10. ASSUME NEW d \in Deliveries
         PROVE  /\ posts[d] <= dattempts[d] + unrecorded'[d]
                /\ acks'[d] <= 1 + lostAcks'[d]
                /\ dstatus[d] = "pending" => acks'[d] <= lostAcks'[d]
                /\ row[d[1]] = "absent" => acks'[d] = 0
    <2>1. unrecorded'[d] = IF (d = cur \/ (out[d] # "none" /\ out[d] # "cancelled"))
                                 /\ unrecorded[d] < Cap
                           THEN unrecorded[d] + 1 ELSE unrecorded[d]
      BY <1>2, <1>5, CountType DEF Dirty
    <2>2. acks'[d] = IF d \in took /\ acks[d] < Cap THEN acks[d] + 1 ELSE acks[d]
      BY <1>1, <1>5, CountType
    <2>3. lostAcks'[d] = IF (d \in took \/ out[d] = "delivered") /\ lostAcks[d] < Cap
                         THEN lostAcks[d] + 1 ELSE lostAcks[d]
      BY <1>1, <1>5, CountType DEF Dirty
    <2>4. posts[d] <= dattempts[d] + unrecorded[d] + InFlight(d)
      BY DEF FInv, CountInv
    <2>5. d \in took => d = cur /\ out[d] = "none"
      BY <1>1 DEF FInv, LoopInv
    <2>6. out[d] \in Outcomes
      BY DEF FInv, LoopInv
    <2>7. /\ acks[d] <= 1 + lostAcks[d]
          /\ (dstatus[d] = "pending" \/ InHand(d)) /\ out[d] # "delivered" => acks[d] <= lostAcks[d]
      BY DEF FInv, CountInv
    <2>8. /\ acks[d] \in 0..Cap /\ lostAcks[d] \in 0..Cap /\ unrecorded[d] \in 0..Cap
          /\ posts[d] \in 0..Cap /\ dattempts[d] \in 0..MaxDelivery
      BY <1>5
    <2>9. posts[d] <= dattempts[d] + unrecorded'[d]
      BY <1>0, <2>1, <2>4, <2>6, <2>8, FanoutAssumption DEF InFlight, Outcomes
    <2>10. d \in took => acks[d] <= lostAcks[d]
      BY <2>5, <2>7 DEF InHand
    <2>11. acks'[d] <= 1 + lostAcks'[d] /\ (dstatus[d] = "pending" => acks'[d] <= lostAcks'[d])
      BY <1>0, <2>2, <2>3, <2>5, <2>7, <2>8, <2>10
    <2>12. row[d[1]] = "absent" => acks'[d] = 0
      <3>1. row[d[1]] = "absent" => acks[d] = 0 /\ d # cur
        BY DEF FInv, RowInv, BatchInv, InHand
      <3> QED
        BY <2>2, <2>5, <3>1
    <2> QED
      BY <2>9, <2>11, <2>12
  <1>11. RowInv'
    BY <1>3, <1>4, <1>10 DEF FInv, RowInv
  <1>12. CountInv'
    <2> SUFFICES ASSUME NEW d \in Deliveries
                 PROVE  /\ posts'[d] <= dattempts'[d] + unrecorded'[d] + InFlight(d)'
                        /\ acks'[d] <= 1 + lostAcks'[d]
                        /\ (dstatus'[d] = "pending" \/ InHand(d)') /\ out'[d] # "delivered" =>
                              acks'[d] <= lostAcks'[d]
      BY DEF CountInv
    <2>1. InFlight(d)' = 0 /\ ~InHand(d)'
      BY <1>3, <1>7, DeliveryParts DEF InFlight, InHand
    <2>2. dattempts[d] + unrecorded'[d] \in Nat
      BY <1>5, <1>6, FanoutAssumption
    <2> QED
      BY <1>3, <1>4, <1>10, <2>1, <2>2
  <1> QED
    BY <1>3, <1>6, <1>7, <1>8, <1>9, <1>11, <1>12

-----------------------------------------------------------------------------
(* The webhook.                                                            *)

LEMMA PostStep ==
    ASSUME FInv, NEW h \in Handlers, NEW t \in Texts, Post(h, t)
    PROVE  FInv'
  <1>1. TypeOK'
    BY DEF FInv, TypeOK, Post, Goto, database, loop, history
  <1>2. GateInv'
    BY DEF FInv, TypeOK, GateInv, Post, Goto, database
  <1>3. CopyInv'
    <2> SUFFICES ASSUME NEW u \in Texts \ Unnamed
                 PROVE  Stored(u)' = Stored(u) /\ Inserting(u)' = Inserting(u)
      BY DEF FInv, CopyInv
    <2> QED
      BY DEF FInv, TypeOK, Post, Goto, database, Stored, Inserting
  <1> QED
    BY <1>1, <1>2, <1>3, GatewayAlone DEF FInv, Post

\* At most as many copies as requests, when requests are only fewer.
LEMMA CopiesFewer ==
    ASSUME FInv, NEW t \in Texts \ Unnamed,
           Stored(t)' \subseteq Stored(t), Inserting(t)' \subseteq Inserting(t)
    PROVE  Cardinality(Stored(t)') + Cardinality(Inserting(t)') <= Cardinality(Handlers)
  <1>1. IsFiniteSet(Stored(t)) /\ IsFiniteSet(Inserting(t)) /\ IsFiniteSet(Handlers)
    BY FanoutAssumption, FS_Subset DEF Stored, Inserting
  <1>2. /\ Cardinality(Stored(t)') <= Cardinality(Stored(t))
        /\ Cardinality(Inserting(t)') <= Cardinality(Inserting(t))
        /\ IsFiniteSet(Stored(t)') /\ IsFiniteSet(Inserting(t)')
    BY <1>1, FS_Subset
  <1>3. /\ Cardinality(Stored(t)) \in Nat /\ Cardinality(Inserting(t)) \in Nat
        /\ Cardinality(Stored(t)') \in Nat /\ Cardinality(Inserting(t)') \in Nat
        /\ Cardinality(Handlers) \in Nat
    BY <1>1, <1>2, FS_CardinalityType
  <1>4. Cardinality(Stored(t)) + Cardinality(Inserting(t)) <= Cardinality(Handlers)
    BY DEF FInv, CopyInv
  <1> QED
    BY <1>2, <1>3, <1>4

\* The dedup sends a request to insert only while it finds no copy.
LEMMA PostReadStep ==
    ASSUME FInv, NEW h \in Handlers, PostRead(h)
    PROVE  FInv'
  <1>0. hpc[h] = "read" /\ htext[h] \in Texts /\ UNCHANGED <<row, textOf, htext, acked>>
    BY DEF PostRead, FInv, GateInv, database
  <1>t. hpc \in [Handlers -> {"idle", "read", "insert", "reply"}]
    BY DEF FInv, TypeOK
  <1>1. TypeOK'
    BY DEF FInv, TypeOK, PostRead, Dedup, Goto, database, loop, history
  <1>2. \A t \in Texts : Stored(t)' = Stored(t)
    BY <1>0 DEF Stored
  <1>3. CASE Known(htext[h]) = {} /\ Goto(h, "insert")
    <2>1. GateInv'
      BY <1>0, <1>3, <1>t DEF FInv, GateInv, Goto
    <2>2. CopyInv'
      <3> SUFFICES ASSUME NEW t \in Texts \ Unnamed
                   PROVE  Cardinality(Stored(t)') + Cardinality(Inserting(t)') <= Cardinality(Handlers)
        BY DEF CopyInv
      <3>1. CASE t = htext[h]
        <4>1. Cardinality(Stored(t)') = 0
          BY <1>2, <1>3, <3>1, FS_EmptySet DEF Known
        <4>2. Inserting(t)' \subseteq Handlers
          BY DEF Inserting
        <4>3. Cardinality(Inserting(t)') <= Cardinality(Handlers) /\ Cardinality(Inserting(t)') \in Nat
          BY <4>2, FanoutAssumption, FS_Subset, FS_CardinalityType
        <4> QED
          BY <4>1, <4>3
      <3>2. CASE t # htext[h]
        <4>1. Inserting(t)' \subseteq Inserting(t)
          BY <1>0, <1>3, <1>t, <3>2 DEF Inserting, Goto
        <4> QED
          BY <1>2, <4>1, CopiesFewer
      <3> QED
        BY <3>1, <3>2
    <2> QED
      BY <1>1, <2>1, <2>2, GatewayAlone DEF FInv, PostRead
  <1>4. ASSUME NEW step \in {"reply", "idle"}, Goto(h, step),
               step = "reply" => Cardinality(Known(htext[h])) = 1
        PROVE  FInv'
    <2>1. step = "reply" => \E r \in Rows : textOf[r] = htext[h]
      <3>1. step = "reply" => Known(htext[h]) # {}
        BY <1>4, FS_EmptySet
      <3> QED
        BY <3>1 DEF Known, Stored
    <2>2. GateInv'
      BY <1>0, <1>4, <1>t, <2>1 DEF FInv, GateInv, Goto
    <2>3. CopyInv'
      <3> SUFFICES ASSUME NEW t \in Texts \ Unnamed PROVE Inserting(t)' \subseteq Inserting(t)
        BY <1>2, CopiesFewer DEF CopyInv
      <3> QED
        BY <1>0, <1>4, <1>t DEF Inserting, Goto
    <2> QED
      BY <1>1, <2>2, <2>3, GatewayAlone DEF FInv, PostRead
  <1> QED
    BY <1>3, <1>4 DEF PostRead, Dedup

\* The insert: a copy for a request on its way, and a pending delivery per
\* subscriber.
LEMMA PostCommitStep ==
    ASSUME FInv, NEW h \in Handlers, PostCommit(h)
    PROVE  FInv'
  <1>0. PICK r \in Rows :
           /\ row[r] = "absent"
           /\ row' = [row EXCEPT ![r] = "stored"]
           /\ textOf' = [textOf EXCEPT ![r] = htext[h]]
           /\ EnqueueFanout(r)
           /\ ddue' = [d \in Deliveries |-> d[1] = r \/ ddue[d]]
           /\ wanted' = [wanted EXCEPT ![r] = subs]
    BY DEF PostCommit
  <1>1. /\ hpc[h] = "insert" /\ htext[h] \in Texts
        /\ hpc' = [hpc EXCEPT ![h] = "reply"]
        /\ UNCHANGED <<dattempts, pc, todo, cur, out, loaded, locked, htext, acked, proc, subs,
                       posts, acks, lostAcks, unrecorded, faults>>
    BY DEF PostCommit, Goto, FInv, GateInv, loop
  <1>2. TypeOK'
    <2>1. dstatus' \in [Deliveries -> DStatus]
      BY <1>0 DEF EnqueueFanout, FInv, TypeOK, DStatus
    <2>2. ddue' \in [Deliveries -> BOOLEAN]
      BY <1>0 DEF FInv, TypeOK
    <2> QED
      BY <1>0, <1>1, <2>1, <2>2 DEF FInv, TypeOK
  <1>3. \A d \in Deliveries :
           /\ d[1] # r => dstatus'[d] = dstatus[d] /\ row'[d[1]] = row[d[1]] /\ wanted'[d[1]] = wanted[d[1]]
           /\ d[1] = r => /\ ~InHand(d) /\ row'[d[1]] = "stored" /\ dstatus'[d] \in {"absent", "pending"}
                          /\ d[2] \in subs => dstatus'[d] = "pending"
                          /\ wanted'[d[1]] = subs
                          /\ dattempts[d] = 0 /\ posts[d] = 0 /\ acks[d] = 0
    <2>1. \A d \in Deliveries : d[1] = r => ~InHand(d) /\ dstatus[d] = "absent"
                                /\ dattempts[d] = 0 /\ posts[d] = 0 /\ acks[d] = 0
      BY <1>0 DEF FInv, BatchInv, RowInv
    <2> QED
      BY <1>0, <2>1, DeliveryParts DEF EnqueueFanout, FInv, TypeOK
  <1>4. LoopInv'
    BY <1>1 DEF FInv, LoopInv
  <1>5. BatchInv'
    BY <1>1, <1>3 DEF FInv, BatchInv, InHand
  <1>6. RowInv'
    <2>1. \A q \in Rows : row'[q] = "absent" => textOf'[q] = "none"
      BY <1>0 DEF FInv, RowInv, TypeOK
    <2>2. \A d \in Deliveries :
             /\ row'[d[1]] = "absent" => dattempts'[d] = 0 /\ posts'[d] = 0 /\ acks'[d] = 0
             /\ row'[d[1]] # "stored" => dstatus'[d] = "absent"
             /\ row'[d[1]] = "stored" /\ d[2] \in wanted'[d[1]] => dstatus'[d] # "absent"
             /\ dstatus'[d] = "pending" => dattempts'[d] < MaxDelivery
      <3> TAKE d \in Deliveries
      <3>1. CASE d[1] = r
        BY <1>1, <1>3, <3>1, FanoutAssumption
      <3>2. CASE d[1] # r
        BY <1>1, <1>3, <3>2 DEF FInv, RowInv
      <3> QED
        BY <3>1, <3>2
    <2> QED
      BY <2>1, <2>2 DEF RowInv
  <1>7. CountInv'
    <2> SUFFICES ASSUME NEW d \in Deliveries
                 PROVE  /\ posts[d] <= dattempts[d] + unrecorded[d] + InFlight(d)
                        /\ acks[d] <= 1 + lostAcks[d]
                        /\ (dstatus'[d] = "pending" \/ InHand(d)) /\ out[d] # "delivered" =>
                              acks[d] <= lostAcks[d]
      BY <1>1 DEF CountInv, InHand, InFlight
    <2>1. CASE d[1] = r
      BY <1>3, <2>1 DEF FInv, TypeOK, CountInv
    <2>2. CASE d[1] # r
      BY <1>3, <2>2 DEF FInv, CountInv
    <2> QED
      BY <2>1, <2>2
  <1>8. GateInv'
    <2>1. textOf'[r] = htext[h]
      BY <1>0 DEF FInv, TypeOK
    <2>2. \A q \in Rows : textOf[q] \in Texts => textOf'[q] = textOf[q]
      BY <1>0, FanoutAssumption DEF FInv, TypeOK, RowInv
    <2>3. \A t \in Texts : (\E q \in Rows : textOf[q] = t) => \E q \in Rows : textOf'[q] = t
      BY <2>2
    <2>4. \A g \in Handlers : hpc'[g] # "idle" => htext'[g] \in Texts
      BY <1>1 DEF FInv, TypeOK, GateInv
    <2>5. \A g \in Handlers : hpc'[g] = "reply" => \E q \in Rows : textOf'[q] = htext'[g]
      BY <1>1, <2>1, <2>3 DEF FInv, TypeOK, GateInv
    <2>6. \A t \in Texts : acked'[t] => \E q \in Rows : textOf'[q] = t
      BY <1>1, <2>3 DEF FInv, GateInv
    <2> QED
      BY <2>4, <2>5, <2>6 DEF GateInv
  <1>9. CopyInv'
    <2> SUFFICES ASSUME NEW t \in Texts \ Unnamed
                 PROVE  Cardinality(Stored(t)') + Cardinality(Inserting(t)') <= Cardinality(Handlers)
      BY DEF CopyInv
    <2>1. CASE t = htext[h]
      <3>1. Stored(t)' = Stored(t) \cup {r} /\ r \notin Stored(t)
        BY <1>0, <2>1 DEF Stored, FInv, TypeOK
      <3>2. Inserting(t)' = Inserting(t) \ {h} /\ h \in Inserting(t)
        BY <1>1, <2>1 DEF Inserting, FInv, TypeOK
      <3>3. IsFiniteSet(Stored(t)) /\ IsFiniteSet(Inserting(t)) /\ IsFiniteSet(Handlers)
        BY FanoutAssumption, FS_Subset DEF Stored, Inserting
      <3>4. /\ Cardinality(Stored(t)') = Cardinality(Stored(t)) + 1
            /\ Cardinality(Inserting(t)') = Cardinality(Inserting(t)) - 1
        <4>1. Cardinality(Stored(t) \cup {r}) = Cardinality(Stored(t)) + 1
          BY <3>1, <3>3, FS_AddElement
        <4>2. Cardinality(Inserting(t) \ {h}) = Cardinality(Inserting(t)) - 1
          BY <3>2, <3>3, FS_RemoveElement
        <4> QED
          BY <3>1, <3>2, <4>1, <4>2
      <3>5. /\ Cardinality(Stored(t)) \in Nat /\ Cardinality(Inserting(t)) \in Nat
            /\ Cardinality(Handlers) \in Nat
        BY <3>3, FS_CardinalityType
      <3>6. Cardinality(Stored(t)) + Cardinality(Inserting(t)) <= Cardinality(Handlers)
        BY DEF FInv, CopyInv
      <3> QED
        BY <3>4, <3>5, <3>6
    <2>2. CASE t # htext[h]
      <3>1. Stored(t)' \subseteq Stored(t)
        BY <1>0, <2>2 DEF Stored, FInv, TypeOK
      <3>2. Inserting(t)' \subseteq Inserting(t)
        BY <1>1, <2>2 DEF Inserting, FInv, TypeOK
      <3> QED
        BY <3>1, <3>2, CopiesFewer
    <2> QED
      BY <2>1, <2>2
  <1> QED
    BY <1>2, <1>4, <1>5, <1>6, <1>7, <1>8, <1>9 DEF FInv

\* A request ends, with a 500 or with a 2xx that may be heard.
LEMMA RequestEnds ==
    ASSUME FInv, NEW h \in Handlers, PostRefused(h) \/ Reply(h)
    PROVE  FInv'
  <1>0. /\ hpc' = [hpc EXCEPT ![h] = "idle"]
        /\ UNCHANGED <<database, loop, htext, proc, subs, history, faults>>
    BY DEF PostRefused, Reply, Goto
  <1>1. TypeOK'
    <2>1. acked' \in [Texts -> BOOLEAN]
      BY DEF FInv, TypeOK, PostRefused, Reply
    <2> QED
      BY <1>0, <2>1 DEF FInv, TypeOK, database, loop, history
  <1>2. GateInv'
    <2>1. \A t \in Texts : acked'[t] => \E r \in Rows : textOf[r] = t
      <3>1. CASE PostRefused(h)
        BY <3>1 DEF FInv, GateInv, PostRefused
      <3>2. CASE Reply(h)
        <4>1. \E r \in Rows : textOf[r] = htext[h]
          BY <3>2 DEF FInv, GateInv, Reply
        <4>2. \A t \in Texts : acked'[t] => acked[t] \/ t = htext[h]
          BY <3>2 DEF Reply, FInv, TypeOK
        <4> QED
          BY <4>1, <4>2 DEF FInv, GateInv
      <3> QED
        BY <3>1, <3>2
    <2> QED
      BY <1>0, <2>1 DEF FInv, TypeOK, GateInv, database
  <1>3. CopyInv'
    <2> SUFFICES ASSUME NEW t \in Texts \ Unnamed
                 PROVE  Stored(t)' \subseteq Stored(t) /\ Inserting(t)' \subseteq Inserting(t)
      BY CopiesFewer DEF CopyInv
    <2> QED
      BY <1>0 DEF Stored, Inserting, database, FInv, TypeOK
  <1> QED
    BY <1>0, <1>1, <1>2, <1>3, GatewayAlone DEF FInv

-----------------------------------------------------------------------------
(* The fan-out loop.                                                       *)

\* From here on a step's obligations are the same three about the loop, and
\* the types.
LEMMA BatchReadStep ==
    ASSUME FInv, BatchRead
    PROVE  FInv'
  <1>0. PICK batch \in SUBSET Due : todo' = batch /\ pc' = (IF batch = {} THEN "top" ELSE "next")
    BY DEF BatchRead
  <1>1. /\ pc = "top" /\ proc = "up" /\ todo = {} /\ out = None /\ cur = Nobody
        /\ UNCHANGED <<database, cur, out, loaded, locked, gateway, proc, subs, history, faults>>
    BY DEF BatchRead, FInv, LoopInv
  <1>2. \A d \in batch : d \in Deliveries /\ dstatus[d] = "pending" /\ out[d] = "none" /\ d # cur
    BY <1>1, DeliveryParts DEF Due, None
  <1>3. TypeOK'
    BY <1>0, <1>1, <1>2 DEF FInv, TypeOK, database, gateway, history
  <1>4. LoopInv'
    BY <1>0, <1>1, <1>2 DEF FInv, LoopInv
  <1>5. \A d \in Deliveries : InHand(d)' => dstatus[d] = "pending" /\ out[d] = "none"
    BY <1>0, <1>1, <1>2, DeliveryParts DEF InHand, None
  <1>6. BatchInv'
    BY <1>1, <1>5 DEF FInv, RowInv, BatchInv, database
  <1>7. RowInv'
    BY <1>1 DEF FInv, RowInv, database, history
  <1>8. CountInv'
    BY <1>1, <1>5 DEF FInv, CountInv, InFlight, InHand, database, history
  <1> QED
    BY <1>1, <1>3, <1>4, <1>6, <1>7, <1>8, LoopAlone DEF FInv, database

LEMMA CancelStep ==
    ASSUME FInv, NEW d \in Deliveries, Cancel(d)
    PROVE  FInv'
  <1>0. /\ d \in todo /\ pc = "next" /\ todo' = todo \ {d}
        /\ out' = [out EXCEPT ![d] = "cancelled"]
        /\ UNCHANGED <<database, pc, cur, gateway, proc, subs, history, faults>>
        /\ row[d[1]] # "stored" \/ d[2] \notin subs
    BY DEF Cancel, IsNext
  <1>1. out[d] = "none" /\ d # cur /\ out \in [Deliveries -> Outcomes]
    BY <1>0 DEF FInv, LoopInv
  <1>2. TypeOK'
    <2>1. locked' \in BOOLEAN /\ loaded' \subseteq Rows
      BY DeliveryParts DEF Cancel, FInv, TypeOK
    <2> QED
      BY <1>0, <2>1 DEF FInv, TypeOK, DStatus, database, gateway, history
  <1>3. LoopInv'
    <2>1. out' \in [Deliveries -> Outcomes]
      BY <1>0, <1>1 DEF Outcomes
    <2>2. \A e \in todo' : out'[e] = "none" /\ e # cur'
      BY <1>0 DEF FInv, LoopInv, TypeOK
    <2> QED
      BY <1>0, <1>1, <2>1, <2>2 DEF FInv, LoopInv
  <1>4. dstatus[d] = "absent" \/ d[2] \notin subs
    BY <1>0 DEF FInv, RowInv
  <1>5. \A e \in Deliveries :
           /\ InHand(e)' <=> InHand(e)
           /\ e # d => out'[e] = out[e]
           /\ out'[d] = "cancelled"
    BY <1>0, <1>1 DEF InHand
  <1>6. BatchInv'
    BY <1>0, <1>4, <1>5 DEF FInv, BatchInv, database
  <1>7. RowInv'
    BY <1>0 DEF FInv, RowInv, database, history
  <1>8. CountInv'
    <2>1. \A e \in Deliveries : InFlight(e)' = InFlight(e)
      BY <1>0, <1>1, <1>5 DEF InFlight
    <2>2. InHand(d)
      BY <1>0 DEF InHand
    <2> QED
      BY <1>0, <1>1, <1>5, <2>1, <2>2 DEF FInv, CountInv, database, history
  <1> QED
    BY <1>0, <1>2, <1>3, <1>6, <1>7, <1>8, LoopAlone DEF FInv, database

LEMMA DeliverStep ==
    ASSUME FInv, NEW d \in Deliveries, Deliver(d)
    PROVE  FInv'
  <1>0. /\ d \in todo /\ pc = "next" /\ todo' = todo \ {d} /\ cur' = d /\ pc' = "posting"
        /\ posts' = Count(posts, {d})
        /\ UNCHANGED <<database, out, gateway, proc, subs, acks, lostAcks, unrecorded, wanted, faults>>
    BY DEF Deliver, IsNext
  <1>1. out[d] = "none" /\ cur = Nobody /\ d # Nobody /\ out \in [Deliveries -> Outcomes]
    BY <1>0, DeliveryParts DEF FInv, LoopInv
  <1>2. posts \in [Deliveries -> 0..Cap] /\ posts' \in [Deliveries -> 0..Cap]
    BY <1>0, CountType DEF FInv, TypeOK
  <1>3. TypeOK'
    <2>1. locked' \in BOOLEAN /\ loaded' \subseteq Rows
      BY DeliveryParts DEF Deliver, FInv, TypeOK
    <2> QED
      BY <1>0, <1>2, <2>1 DEF FInv, TypeOK, database, gateway
  <1>4. LoopInv'
    BY <1>0, <1>1 DEF FInv, LoopInv
  <1>5. \A e \in Deliveries : InHand(e)' <=> InHand(e)
    BY <1>0, <1>1, DeliveryParts DEF InHand
  <1>6. BatchInv'
    BY <1>0, <1>5 DEF FInv, BatchInv, database
  <1>7. \A e \in Deliveries : e # d => posts'[e] = posts[e]
    BY <1>0, <1>2, CountType
  <1>8. RowInv'
    <2>1. row[d[1]] # "absent"
      BY <1>0 DEF FInv, BatchInv, InHand
    <2> QED
      BY <1>0, <1>7, <2>1 DEF FInv, RowInv, database
  <1>9. CountInv'
    <2>1. ASSUME NEW e \in Deliveries
          PROVE  posts'[e] <= dattempts[e] + unrecorded[e] + InFlight(e)'
      <3>1. posts[e] <= dattempts[e] + unrecorded[e] + InFlight(e)
        BY DEF FInv, CountInv
      <3>2. /\ dattempts[e] \in Nat /\ unrecorded[e] \in Nat /\ posts[e] \in Nat
            /\ posts'[e] \in Nat /\ posts'[e] <= posts[e] + 1
        BY <1>0, <1>2, CountType, FanoutAssumption DEF FInv, TypeOK
      <3>3. CASE e = d
        <4>1. InFlight(e) = 0 /\ InFlight(e)' = 1
          BY <1>0, <1>1, <3>3 DEF InFlight
        <4> QED
          BY <3>1, <3>2, <4>1
      <3>4. CASE e # d
        <4>1. InFlight(e)' = InFlight(e)
          BY <1>0, <1>1, <3>4, DeliveryParts DEF InFlight
        <4> QED
          BY <1>7, <3>1, <3>4, <4>1
      <3> QED
        BY <3>3, <3>4
    <2> QED
      BY <1>0, <1>5, <2>1 DEF FInv, CountInv, database
  <1> QED
    BY <1>0, <1>3, <1>4, <1>6, <1>8, <1>9, LoopAlone DEF FInv, database

\* A post is answered, one way or another.
LEMMA AnswerStep ==
    ASSUME FInv, Acknowledged \/ Refused
    PROVE  FInv'
  <1>0. /\ pc = "posting" /\ cur' = Nobody /\ pc' = "next"
        /\ UNCHANGED <<database, todo, loaded, locked, gateway, proc, subs, posts, unrecorded, wanted, faults>>
    BY DEF Acknowledged, Refused, Outcome
  <1>1. cur \in Deliveries /\ cur # Nobody /\ out[cur] = "none" /\ out \in [Deliveries -> Outcomes]
    BY <1>0 DEF FInv, LoopInv, TypeOK
  <1>2. /\ InHand(cur) /\ row[cur[1]] # "absent" /\ dstatus[cur] \in {"pending", "absent"}
        /\ dattempts[cur] < MaxDelivery /\ acks[cur] <= lostAcks[cur]
    BY <1>1 DEF FInv, BatchInv, CountInv, InHand
  <1>3. PICK status \in {"delivered", "failed", "pending"} :
           /\ out' = [out EXCEPT ![cur] = status]
           /\ status = "pending" => dattempts[cur] + 1 < MaxDelivery
    <2>1. CASE Acknowledged
      BY <2>1 DEF Acknowledged, Outcome
    <2>2. CASE Refused
      <3>1. out' = [out EXCEPT ![cur] = IF GiveUp(dattempts[cur] + 1) THEN "failed" ELSE "pending"]
        BY <2>2 DEF Refused, Outcome
      <3>2. dattempts[cur] \in Nat /\ MaxDelivery \in Nat
        BY <1>1, FanoutAssumption DEF FInv, TypeOK
      <3>3. CASE GiveUp(dattempts[cur] + 1)
        BY <3>1, <3>3
      <3>4. CASE ~GiveUp(dattempts[cur] + 1)
        <4>1. out' = [out EXCEPT ![cur] = "pending"]
          BY <3>1, <3>4
        <4>2. dattempts[cur] + 1 < MaxDelivery
          BY <3>2, <3>4 DEF GiveUp
        <4> QED
          BY <4>1, <4>2
      <3> QED
        BY <3>3, <3>4
    <2> QED
      BY <2>1, <2>2
  <1>t. acks \in [Deliveries -> 0..Cap] /\ lostAcks \in [Deliveries -> 0..Cap] /\ Cap \in Nat
    BY FanoutAssumption DEF FInv, TypeOK
  <1>4. /\ acks' \in [Deliveries -> 0..Cap] /\ lostAcks' \in [Deliveries -> 0..Cap]
        /\ \A e \in Deliveries : e # cur => acks'[e] = acks[e] /\ lostAcks'[e] = lostAcks[e]
        /\ acks'[cur] <= 1 + lostAcks'[cur]
        /\ out'[cur] # "delivered" => acks'[cur] <= lostAcks'[cur]
    <2>1. CASE Acknowledged
      <3>1. acks' = Count(acks, {cur}) /\ lostAcks' = lostAcks /\ out'[cur] = "delivered"
        BY <1>1, <2>1 DEF Acknowledged, Outcome
      <3> QED
        BY <1>t, <1>1, <1>2, <3>1, CountType
    <2>2. CASE Refused
      <3>1. PICK took \in {{}, {cur}} : acks' = Count(acks, took) /\ lostAcks' = Count(lostAcks, took)
        BY <2>2 DEF Refused
      <3>2. acks'[cur] <= lostAcks'[cur]
        <4>1. /\ acks'[cur] = IF cur \in took /\ acks[cur] < Cap THEN acks[cur] + 1 ELSE acks[cur]
              /\ lostAcks'[cur] = IF cur \in took /\ lostAcks[cur] < Cap THEN lostAcks[cur] + 1 ELSE lostAcks[cur]
          BY <1>t, <1>1, <3>1, CountType
        <4> QED
          BY <1>t, <1>1, <1>2, <4>1
      <3>3. acks' \in [Deliveries -> 0..Cap] /\ lostAcks' \in [Deliveries -> 0..Cap]
        BY <1>t, <3>1, CountType
      <3>4. \A e \in Deliveries : e # cur => acks'[e] = acks[e] /\ lostAcks'[e] = lostAcks[e]
        BY <1>t, <3>1, CountType
      <3> QED
        BY <1>t, <1>1, <3>2, <3>3, <3>4
    <2> QED
      BY <2>1, <2>2
  <1>5. TypeOK'
    BY <1>0, <1>1, <1>3, <1>4 DEF FInv, TypeOK, DStatus, database, gateway
  <1>6. \A e \in Deliveries : e # cur => out'[e] = out[e]
    BY <1>1, <1>3
  <1>7. LoopInv'
    <2>1. out' \in [Deliveries -> Outcomes]
      BY <1>1, <1>3 DEF Outcomes
    <2>2. \A e \in todo : out'[e] = "none" /\ e # Nobody
      BY <1>6, DeliveryParts DEF FInv, LoopInv, TypeOK
    <2> QED
      BY <1>0, <2>1, <2>2, DeliveryParts DEF FInv, LoopInv
  <1>8. \A e \in Deliveries : (InHand(e)' <=> InHand(e)) /\ InFlight(e)' = InFlight(e)
    <2> TAKE e \in Deliveries
    <2>1. CASE e = cur
      BY <1>0, <1>1, <1>3, <2>1 DEF InHand, InFlight
    <2>2. CASE e # cur
      BY <1>0, <1>6, <2>2, DeliveryParts DEF InHand, InFlight
    <2> QED
      BY <2>1, <2>2
  <1>9. BatchInv'
    <2> SUFFICES ASSUME NEW e \in Deliveries, InHand(e)
                 PROVE  /\ row[e[1]] # "absent"
                        /\ dstatus[e] \in {"pending", "absent"}
                        /\ dattempts[e] < MaxDelivery
                        /\ out'[e] = "pending" => dattempts[e] + 1 < MaxDelivery
                        /\ out'[e] = "cancelled" => e[2] \notin subs \/ dstatus[e] = "absent"
      BY <1>0, <1>8 DEF BatchInv, database
    <2>1. CASE e = cur
      BY <1>1, <1>2, <1>3, <2>1
    <2>2. CASE e # cur
      BY <1>6, <2>2 DEF FInv, BatchInv
    <2> QED
      BY <2>1, <2>2
  <1>10. RowInv'
    BY <1>0, <1>2, <1>4 DEF FInv, RowInv, database
  <1>11. CountInv'
    <2> SUFFICES ASSUME NEW e \in Deliveries
                 PROVE  /\ posts[e] <= dattempts[e] + unrecorded[e] + InFlight(e)
                        /\ acks'[e] <= 1 + lostAcks'[e]
                        /\ (dstatus[e] = "pending" \/ InHand(e)) /\ out'[e] # "delivered" =>
                              acks'[e] <= lostAcks'[e]
      BY <1>0, <1>8 DEF CountInv, database
    <2>1. CASE e = cur
      BY <1>4, <2>1 DEF FInv, CountInv
    <2>2. CASE e # cur
      BY <1>4, <1>6, <2>2 DEF FInv, CountInv
    <2> QED
      BY <2>1, <2>2
  <1> QED
    BY <1>0, <1>5, <1>7, <1>9, <1>10, <1>11, LoopAlone DEF FInv, database

\* The one commit: what was in flight is counted, what was accepted settles.
LEMMA BatchCommitStep ==
    ASSUME FInv, BatchCommit
    PROVE  FInv'
  <1>0. /\ pc = "next" /\ todo = {} /\ ~StaleData
        /\ pc' = "top" /\ todo' = {} /\ cur' = Nobody /\ out' = None /\ loaded' = {} /\ locked' = FALSE
        /\ UNCHANGED <<row, textOf, gateway, proc, subs, history, faults>>
    BY DEF BatchCommit, Forget
  <1>1. cur = Nobody /\ out \in [Deliveries -> Outcomes]
    BY <1>0 DEF FInv, LoopInv
  <1>2. ASSUME NEW d \in Deliveries
        PROVE  /\ out'[d] = "none" /\ ~InHand(d)' /\ InFlight(d)' = 0
               /\ dstatus'[d] = IF out[d] = "none" THEN dstatus[d] ELSE out[d]
               /\ dattempts'[d] = dattempts[d] + InFlight(d)
               /\ out[d] # "none" => dstatus[d] = "pending"
    <2>1. out'[d] = "none" /\ d # Nobody
      BY <1>0, DeliveryParts DEF None
    <2>2. ~InHand(d)' /\ InFlight(d)' = 0
      BY <1>0, <2>1 DEF InHand, InFlight
    <2>3. dstatus'[d] = IF out[d] = "none" THEN dstatus[d] ELSE out[d]
      BY DEF BatchCommit, Dirty
    <2>4. dattempts'[d] = dattempts[d] + (IF out[d] \in {"none", "cancelled"} THEN 0 ELSE 1)
      BY DEF BatchCommit
    <2>5. InFlight(d) = IF out[d] \in {"none", "cancelled"} THEN 0 ELSE 1
      BY <1>1, <2>1 DEF InFlight, Outcomes
    <2>6. out[d] # "none" => dstatus[d] = "pending"
      BY <1>0 DEF FInv, BatchInv, InHand, StaleData, Dirty
    <2> QED
      BY <2>1, <2>2, <2>3, <2>4, <2>5, <2>6
  <1>3. ASSUME NEW d \in Deliveries
        PROVE  /\ dattempts'[d] \in 0..MaxDelivery
               /\ dstatus'[d] = "pending" => dattempts'[d] < MaxDelivery
    <2>1. dattempts[d] \in 0..MaxDelivery /\ MaxDelivery \in Nat
      BY FanoutAssumption DEF FInv, TypeOK
    <2>2. InHand(d) => dattempts[d] < MaxDelivery
      BY DEF FInv, BatchInv
    <2>3. out[d] = "pending" => dattempts[d] + 1 < MaxDelivery
      BY DEF FInv, BatchInv, InHand
    <2>4. out[d] = "none" /\ dstatus[d] = "pending" => dattempts[d] < MaxDelivery /\ InFlight(d) = 0
      BY <1>1, DeliveryParts DEF FInv, RowInv, InFlight
    <2>5. InFlight(d) \in {0, 1} /\ (InFlight(d) = 1 => InHand(d))
      BY DEF InFlight, InHand
    <2> QED
      BY <1>2, <2>1, <2>2, <2>3, <2>4, <2>5
  <1>4. TypeOK'
    <2>1. dstatus' \in [Deliveries -> DStatus]
      <3>1. dstatus' = [d \in Deliveries |-> IF d \in Dirty THEN out[d] ELSE dstatus[d]]
        BY DEF BatchCommit
      <3>2. \A d \in Deliveries : (IF d \in Dirty THEN out[d] ELSE dstatus[d]) \in DStatus
        BY <1>1 DEF Dirty, Outcomes, DStatus, FInv, TypeOK
      <3> QED
        BY <3>1, <3>2
    <2>2. dattempts' \in [Deliveries -> 0..MaxDelivery]
      <3>1. dattempts' = [d \in Deliveries |-> dattempts'[d]]
        BY DEF BatchCommit
      <3> QED
        BY <1>3, <3>1
    <2>3. ddue' \in [Deliveries -> BOOLEAN]
      BY DEF BatchCommit
    <2>4. out' \in [Deliveries -> {"none"} \cup DStatus]
      BY <1>0 DEF None
    <2> QED
      BY <1>0, <2>1, <2>2, <2>3, <2>4 DEF FInv, TypeOK, gateway, history
  <1>5. LoopInv'
    BY <1>0, <1>1, DeliveryParts DEF LoopInv, None, Outcomes, FInv
  <1>6. BatchInv'
    BY <1>2 DEF BatchInv
  <1>7. RowInv'
    <2>1. ASSUME NEW d \in Deliveries
          PROVE  /\ row[d[1]] = "absent" => dattempts'[d] = 0 /\ posts[d] = 0 /\ acks[d] = 0
                 /\ row[d[1]] # "stored" => dstatus'[d] = "absent"
                 /\ row[d[1]] = "stored" /\ d[2] \in wanted[d[1]] => dstatus'[d] # "absent"
                 /\ dstatus'[d] = "pending" => dattempts'[d] < MaxDelivery
      <3>1. CASE out[d] = "none"
        <4>1. InFlight(d) = 0 /\ dattempts[d] \in Nat
          BY <1>1, <3>1, DeliveryParts, FanoutAssumption DEF InFlight, FInv, TypeOK
        <4> QED
          BY <1>2, <1>3, <3>1, <4>1 DEF FInv, RowInv
      <3>2. CASE out[d] # "none"
        <4>1. row[d[1]] = "stored" /\ dstatus'[d] # "absent"
          BY <1>1, <1>2, <3>2, DeliveryParts DEF FInv, RowInv, TypeOK, Outcomes
        <4> QED
          BY <1>3, <4>1
      <3> QED
        BY <3>1, <3>2
    <2> QED
      BY <1>0, <2>1 DEF FInv, RowInv, history
  <1>8. CountInv'
    <2> SUFFICES ASSUME NEW d \in Deliveries
                 PROVE  /\ posts[d] <= dattempts'[d] + unrecorded[d] + InFlight(d)'
                        /\ acks[d] <= 1 + lostAcks[d]
                        /\ (dstatus'[d] = "pending" \/ InHand(d)') /\ out'[d] # "delivered" =>
                              acks[d] <= lostAcks[d]
      BY <1>0 DEF CountInv, history
    <2>1. posts[d] <= dattempts'[d] + unrecorded[d] + InFlight(d)'
      <3>1. /\ posts[d] <= dattempts[d] + unrecorded[d] + InFlight(d)
            /\ dattempts[d] \in Nat /\ unrecorded[d] \in Nat /\ InFlight(d) \in Nat
        BY FanoutAssumption DEF FInv, TypeOK, CountInv, InFlight
      <3> QED
        BY <1>2, <3>1
    <2>2. dstatus'[d] = "pending" => dstatus[d] = "pending" /\ out[d] # "delivered"
      BY <1>2
    <2> QED
      BY <1>2, <2>1, <2>2 DEF FInv, CountInv
  <1> QED
    BY <1>0, <1>4, <1>5, <1>6, <1>7, <1>8, LoopAlone DEF FInv

\* Every way a batch is dropped.
LEMMA DropStep ==
    ASSUME FInv, FlushFails \/ Poisoned \/ CommitFails \/ IterationRaises
    PROVE  FInv'
  <1>1. Abandon /\ UNCHANGED <<database, gateway, proc, subs>> /\ faults' \in 0..MaxFaults
    BY FanoutAssumption DEF FlushFails, Poisoned, CommitFails, IterationRaises, Fault, FInv, TypeOK
  <1>2. TypeOK'
    BY <1>1, AbandonStep DEF FInv, TypeOK, database, gateway
  <1> QED
    BY <1>1, <1>2, AbandonStep, LoopAlone DEF FInv, database

LEMMA KillStep ==
    ASSUME FInv, Kill
    PROVE  FInv'
  <1>1. /\ Abandon /\ UNCHANGED <<database, htext, acked, subs>> /\ faults' \in 0..MaxFaults
        /\ proc' = "down" /\ hpc' = [h \in Handlers |-> "idle"]
    BY FanoutAssumption DEF Kill, Fault, FInv, TypeOK
  <1>2. TypeOK'
    BY <1>1, AbandonStep DEF FInv, TypeOK, database
  <1>3. GateInv'
    BY <1>1 DEF FInv, GateInv, database
  <1>4. CopyInv'
    <2> SUFFICES ASSUME NEW t \in Texts \ Unnamed
                 PROVE  Stored(t)' \subseteq Stored(t) /\ Inserting(t)' \subseteq Inserting(t)
      BY CopiesFewer DEF CopyInv
    <2> QED
      BY <1>1 DEF Stored, Inserting, database
  <1> QED
    BY <1>1, <1>2, <1>3, <1>4, AbandonStep DEF FInv

\* The next process has no batch that could know of other subscribers.
LEMMA RestartStep ==
    ASSUME FInv, Restart
    PROVE  FInv'
  <1>0. /\ proc = "down" /\ proc' = "up" /\ subs' \in SUBSET Subs
        /\ UNCHANGED <<database, loop, gateway, history, faults>>
    BY DEF Restart
  <1>1. TypeOK'
    BY <1>0 DEF FInv, TypeOK, database, loop, gateway, history
  <1>2. LoopInv'
    BY <1>0 DEF FInv, LoopInv, loop
  <1>3. pc = "top" /\ todo = {} /\ out = None /\ cur = Nobody
    BY <1>0 DEF FInv, LoopInv
  <1>4. BatchInv'
    BY <1>0, <1>3, DeliveryParts DEF BatchInv, InHand, None, loop
  <1>5. RowInv' /\ CountInv'
    BY <1>0 DEF FInv, RowInv, CountInv, InHand, InFlight, database, loop, history
  <1> QED
    BY <1>0, <1>1, <1>2, <1>4, <1>5, LoopAlone DEF FInv, database

LEMMA BackoffStep ==
    ASSUME FInv, NEW d \in Deliveries, BackoffElapses(d)
    PROVE  FInv'
  <1>0. /\ ddue' = [ddue EXCEPT ![d] = TRUE]
        /\ UNCHANGED <<row, textOf, dstatus, dattempts, loop, gateway, proc, subs, history, faults>>
    BY DEF BackoffElapses
  <1>1. TypeOK'
    BY <1>0 DEF FInv, TypeOK, loop, gateway, history
  <1>2. LoopInv' /\ BatchInv' /\ RowInv' /\ CountInv'
    BY <1>0 DEF FInv, LoopInv, BatchInv, RowInv, CountInv, InHand, InFlight, loop, history
  <1> QED
    BY <1>0, <1>1, <1>2, LoopAlone DEF FInv

\* Retention takes a message with its deliveries, also those a batch holds.
LEMMA PruneStep ==
    ASSUME FInv, NEW r \in Rows, Prune(r)
    PROVE  FInv'
  <1>0. /\ row[r] = "stored" /\ row' = [row EXCEPT ![r] = "pruned"]
        /\ dstatus' = [d \in Deliveries |-> IF d[1] = r THEN "absent" ELSE dstatus[d]]
        /\ UNCHANGED <<textOf, dattempts, ddue, loop, gateway, proc, subs, history, faults>>
    BY DEF Prune
  <1>1. TypeOK'
    <2>1. dstatus' \in [Deliveries -> DStatus]
      BY <1>0 DEF FInv, TypeOK, DStatus
    <2> QED
      BY <1>0, <2>1 DEF FInv, TypeOK, loop, gateway, history
  <1>2. \A d \in Deliveries :
           /\ d[1] = r => row[d[1]] = "stored" /\ row'[d[1]] = "pruned" /\ dstatus'[d] = "absent"
           /\ d[1] # r => row'[d[1]] = row[d[1]] /\ dstatus'[d] = dstatus[d]
    BY <1>0, DeliveryParts DEF FInv, TypeOK
  <1>3. LoopInv'
    BY <1>0 DEF FInv, LoopInv, loop
  <1>4. BatchInv'
    BY <1>0, <1>2 DEF FInv, BatchInv, InHand, loop
  <1>5. RowInv'
    <2>1. \A q \in Rows : row'[q] = "absent" => textOf[q] = "none"
      BY <1>0 DEF FInv, RowInv, TypeOK
    <2> QED
      BY <1>0, <1>2, <2>1 DEF FInv, RowInv, history
  <1>6. CountInv'
    BY <1>0, <1>2 DEF FInv, CountInv, InHand, InFlight, loop, history
  <1>7. GateInv'
    BY <1>0 DEF FInv, GateInv, gateway
  <1>8. CopyInv'
    <2> SUFFICES ASSUME NEW t \in Texts \ Unnamed
                 PROVE  Stored(t)' \subseteq Stored(t) /\ Inserting(t)' \subseteq Inserting(t)
      BY CopiesFewer DEF CopyInv
    <2> QED
      BY <1>0 DEF Stored, Inserting, gateway, FInv, TypeOK
  <1> QED
    BY <1>1, <1>3, <1>4, <1>5, <1>6, <1>7, <1>8 DEF FInv

-----------------------------------------------------------------------------
(* The theorems.                                                           *)

LEMMA FInit == Init => FInv
  <1> SUFFICES ASSUME Init PROVE FInv
    OBVIOUS
  <1>1. TypeOK
    <2>1. 0 \in 0..Cap /\ 0 \in 0..MaxDelivery /\ 0 \in 0..MaxFaults
      BY FanoutAssumption
    <2>2. /\ Zero \in [Deliveries -> 0..Cap] /\ Zero \in [Deliveries -> 0..MaxDelivery]
          /\ None \in [Deliveries -> {"none"} \cup DStatus]
      BY <2>1 DEF Zero, None
    <2>3. /\ row \in [Rows -> {"absent", "stored", "pruned"}]
          /\ textOf \in [Rows -> Texts \cup {"none"}]
          /\ dstatus \in [Deliveries -> DStatus]
          /\ ddue \in [Deliveries -> BOOLEAN]
          /\ wanted \in [Rows -> SUBSET Subs]
      BY DEF Init, DStatus
    <2>4. /\ hpc \in [Handlers -> {"idle", "read", "insert", "reply"}]
          /\ htext \in [Handlers -> Texts \cup {"none"}]
          /\ acked \in [Texts -> BOOLEAN]
      BY DEF Init
    <2> QED
      BY <2>1, <2>2, <2>3, <2>4 DEF Init, TypeOK
  <1>2. LoopInv
    BY DeliveryParts DEF Init, LoopInv, None, Outcomes
  <1>3. BatchInv
    BY DeliveryParts DEF Init, BatchInv, InHand, None
  <1>4. RowInv
    BY DeliveryParts DEF Init, RowInv, Zero
  <1>5. CountInv
    BY DeliveryParts DEF Init, CountInv, InFlight, None, Zero
  <1>6. GateInv
    BY DEF Init, GateInv
  <1>7. CopyInv
    <2> SUFFICES ASSUME NEW t \in Texts \ Unnamed
                 PROVE  Cardinality(Stored(t)) + Cardinality(Inserting(t)) <= Cardinality(Handlers)
      BY DEF CopyInv
    <2>1. Stored(t) = {} /\ Inserting(t) = {}
      BY DEF Init, Stored, Inserting
    <2>2. Cardinality(Handlers) \in Nat /\ Cardinality({}) = 0
      BY FanoutAssumption, FS_CardinalityType, FS_EmptySet
    <2> QED
      BY <2>1, <2>2
  <1> QED
    BY <1>1, <1>2, <1>3, <1>4, <1>5, <1>6, <1>7 DEF FInv

LEMMA FStutter == ASSUME FInv, UNCHANGED vars PROVE FInv'
  <1>1. UNCHANGED <<database, loop, proc, subs, history, gateway, faults>>
    BY DEF vars
  <1>2. TypeOK'
    BY <1>1 DEF FInv, TypeOK, database, loop, history, gateway
  <1> QED
    BY <1>1, <1>2, GatewayAlone, LoopAlone DEF FInv, database

\* The invariant of the inbound path, for any texts, rows, subscribers,
\* requests at a time and faults.
THEOREM FanoutInvariance == Spec => []FInv
  <1>1. FInv /\ [Next]_vars => FInv'
    <2> SUFFICES ASSUME FInv, [Next]_vars PROVE FInv'
      OBVIOUS
    <2>1. ASSUME NEW h \in Handlers, (\E t \in Texts : Post(h, t)) \/ Webhook(h) PROVE FInv'
      BY <2>1, PostStep, PostReadStep, PostCommitStep, RequestEnds DEF Webhook
    <2>2. CASE LoopStep
      BY <2>2, BatchReadStep, CancelStep, DeliverStep, AnswerStep, BatchCommitStep, DropStep
         DEF LoopStep
    <2>3. ASSUME NEW d \in Deliveries, BackoffElapses(d) PROVE FInv'
      BY <2>3, BackoffStep
    <2>4. ASSUME NEW r \in Rows, Prune(r) PROVE FInv'
      BY <2>4, PruneStep
    <2>5. CASE IterationRaises \/ Kill \/ Restart
      BY <2>5, DropStep, KillStep, RestartStep
    <2>6. CASE UNCHANGED vars
      BY <2>6, FStutter
    <2> QED
      BY <2>1, <2>2, <2>3, <2>4, <2>5, <2>6 DEF Next
  <1> QED
    BY <1>1, FInit, PTL DEF Spec

\* Types, among them that a delivery's attempts never exceed the limit.
THEOREM FanoutTypes == Spec => []TypeOK
  <1>1. FInv => TypeOK
    BY DEF FInv
  <1> QED
    BY <1>1, FanoutInvariance, PTL

\* The webhook's 2xx comes after its commit, whatever overlaps or crashes.
THEOREM AckedStored == Spec => []AckedIsStored
  <1>1. FInv => AckedIsStored
    BY DEF FInv, GateInv, AckedIsStored
  <1> QED
    BY <1>1, FanoutInvariance, PTL

\* The duplicate check leaves at most one copy of a text with an id per request
\* at a time.
THEOREM CopiesBounded == Spec => []CopiesNeedOverlap
  <1>1. FInv => CopiesNeedOverlap
    <2> SUFFICES ASSUME FInv, NEW t \in Texts \ Unnamed
                 PROVE  Cardinality(Stored(t)) <= Cardinality(Handlers)
      BY DEF CopiesNeedOverlap
    <2>1. IsFiniteSet(Stored(t)) /\ IsFiniteSet(Inserting(t)) /\ IsFiniteSet(Handlers)
      BY FanoutAssumption, FS_Subset DEF Stored, Inserting
    <2>2. /\ Cardinality(Stored(t)) \in Nat /\ Cardinality(Inserting(t)) \in Nat
          /\ Cardinality(Handlers) \in Nat
      BY <2>1, FS_CardinalityType
    <2>3. Cardinality(Stored(t)) + Cardinality(Inserting(t)) <= Cardinality(Handlers)
      BY DEF FInv, CopyInv
    <2> QED
      BY <2>2, <2>3
  <1> QED
    BY <1>1, FanoutInvariance, PTL

\* A stored text has its deliveries from its own transaction on.
THEOREM NothingForgotten == Spec => []NoDeliveryForgotten
  <1>1. FInv => NoDeliveryForgotten
    <2> SUFFICES ASSUME FInv, NEW r \in Rows, row[r] = "stored", NEW s \in wanted[r]
                 PROVE  dstatus[<<r, s>>] # "absent"
      BY DEF NoDeliveryForgotten
    <2>1. <<r, s>> \in Deliveries
      BY DEF FInv, TypeOK, Deliveries
    <2> QED
      BY <2>1 DEF FInv, RowInv
  <1> QED
    BY <1>1, FanoutInvariance, PTL

\* Every acceptance but one is a lost answer.
THEOREM DuplicatesExplained == Spec => []DuplicatesNeedLostAcks
  <1>1. FInv => DuplicatesNeedLostAcks
    BY DEF FInv, CountInv, DuplicatesNeedLostAcks
  <1> QED
    BY <1>1, FanoutInvariance, PTL

\* Every post but those of dropped batches counts as an attempt.
THEOREM PostsBounded == Spec => []PostBudget
  <1>1. FInv => PostBudget
    <2> SUFFICES ASSUME FInv, NEW d \in Deliveries
                 PROVE  posts[d] <= MaxDelivery + unrecorded[d]
      BY DEF PostBudget
    <2>1. posts[d] <= dattempts[d] + unrecorded[d] + InFlight(d)
      BY DEF FInv, CountInv
    <2>2. dattempts[d] \in 0..MaxDelivery /\ unrecorded[d] \in Nat /\ MaxDelivery \in Nat /\ posts[d] \in Nat
      BY FanoutAssumption DEF FInv, TypeOK
    <2>3. InFlight(d) \in {0, 1} /\ (InFlight(d) = 1 => dattempts[d] < MaxDelivery)
      BY DEF FInv, BatchInv, InHand, InFlight
    <2> QED
      BY <2>1, <2>2, <2>3
  <1> QED
    BY <1>1, FanoutInvariance, PTL

-----------------------------------------------------------------------------
(* What a step may never do.                                               *)

\* Only four steps change a delivery's status or post it.
LEMMA FewTouchDeliveries ==
    ASSUME FInv, [Next]_vars
    PROVE  \/ UNCHANGED <<dstatus, posts>>
           \/ BatchCommit
           \/ \E d \in Deliveries : Deliver(d)
           \/ \E r \in Rows : Prune(r)
           \/ \E h \in Handlers : PostCommit(h)
  <1>1. ASSUME NEW h \in Handlers, (\E t \in Texts : Post(h, t)) \/ PostRead(h) \/ PostRefused(h) \/ Reply(h)
        PROVE  UNCHANGED <<dstatus, posts>>
    BY <1>1 DEF Post, PostRead, PostRefused, Reply, database, history
  <1>2. ASSUME \/ BatchRead \/ Acknowledged \/ Refused
               \/ \E d \in Deliveries : Cancel(d) \/ BackoffElapses(d)
        PROVE  UNCHANGED <<dstatus, posts>>
    BY <1>2 DEF BatchRead, Acknowledged, Refused, Cancel, BackoffElapses, database, history
  <1>3. ASSUME FlushFails \/ Poisoned \/ CommitFails \/ IterationRaises \/ Kill
        PROVE  UNCHANGED <<dstatus, posts>>
    BY <1>3 DEF FlushFails, Poisoned, CommitFails, IterationRaises, Kill, Abandon, database
  <1>4. ASSUME Restart \/ UNCHANGED vars
        PROVE  UNCHANGED <<dstatus, posts>>
    BY <1>4 DEF Restart, vars, database, history
  <1> QED
    BY <1>1, <1>2, <1>3, <1>4 DEF Next, Webhook, LoopStep

\* The loop holds only deliveries that were pending when it read them, and
\* nothing but retention changes them in between.
THEOREM SettledForGood == Spec => SettledIsFinal
  <1>1. ASSUME FInv, [Next]_vars, NEW d \in Deliveries, dstatus[d] \in Settled
        PROVE  dstatus'[d] \in {dstatus[d], "absent"} /\ posts'[d] = posts[d]
    <2>0. ~InHand(d) /\ dstatus[d] # "pending" /\ dstatus[d] # "absent" /\ out[d] = "none"
      BY <1>1 DEF FInv, BatchInv, InHand, Settled
    <2>1. CASE UNCHANGED <<dstatus, posts>>
      BY <2>1
    <2>2. CASE BatchCommit
      BY <2>0, <2>2 DEF BatchCommit, Dirty, history
    <2>3. ASSUME NEW e \in Deliveries, Deliver(e)
          PROVE  dstatus'[d] \in {dstatus[d], "absent"} /\ posts'[d] = posts[d]
      <3>1. e \in todo /\ posts' = Count(posts, {e}) /\ dstatus' = dstatus
        BY <2>3 DEF Deliver, IsNext, database
      <3>2. e # d
        BY <2>0, <3>1 DEF InHand
      <3>3. posts'[d] = posts[d]
        BY <1>1, <3>1, <3>2, CountType DEF FInv, TypeOK
      <3> QED
        BY <3>1, <3>3
    <2>4. ASSUME NEW r \in Rows, Prune(r)
          PROVE  dstatus'[d] \in {dstatus[d], "absent"} /\ posts'[d] = posts[d]
      BY <2>4 DEF Prune, history
    <2>5. ASSUME NEW h \in Handlers, PostCommit(h)
          PROVE  dstatus'[d] \in {dstatus[d], "absent"} /\ posts'[d] = posts[d]
      <3>1. PICK r \in Rows : row[r] = "absent" /\ EnqueueFanout(r)
        BY <2>5 DEF PostCommit
      <3>2. d[1] = r => dstatus[d] = "absent"
        BY <1>1, <3>1 DEF FInv, RowInv
      <3> QED
        BY <2>0, <2>5, <3>1, <3>2 DEF EnqueueFanout, PostCommit
    <2> QED
      BY <1>1, <2>1, <2>2, <2>3, <2>4, <2>5, FewTouchDeliveries
  <1>2. FInv /\ [Next]_vars =>
           [\A d \in Deliveries : dstatus[d] \in Settled =>
              /\ dstatus'[d] \in {dstatus[d], "absent"}
              /\ posts'[d] = posts[d]]_vars
    BY <1>1
  <1> QED
    BY <1>2, FanoutInvariance, PTL DEF Spec, SettledIsFinal

\* A delivery cancelled because its message was gone went with the message;
\* one that is still there lost its subscriber.
THEOREM CancelledForCause == Spec => CancelledIsUnconfigured
  <1>1. ASSUME FInv, [Next]_vars, NEW d \in Deliveries,
               dstatus[d] = "pending", dstatus'[d] = "cancelled"
        PROVE  d[2] \notin subs
    <2>1. CASE UNCHANGED <<dstatus, posts>>
      BY <1>1, <2>1
    <2>2. CASE BatchCommit
      <3>1. out[d] = "cancelled"
        BY <1>1, <2>2 DEF BatchCommit, Dirty
      <3> QED
        BY <1>1, <3>1 DEF FInv, BatchInv, InHand
    <2>3. ASSUME NEW e \in Deliveries, Deliver(e) PROVE FALSE
      BY <1>1, <2>3 DEF Deliver, database
    <2>4. ASSUME NEW r \in Rows, Prune(r) PROVE FALSE
      BY <1>1, <2>4 DEF Prune
    <2>5. ASSUME NEW h \in Handlers, PostCommit(h) PROVE FALSE
      BY <1>1, <2>5 DEF PostCommit, EnqueueFanout
    <2> QED
      BY <1>1, <2>1, <2>2, <2>3, <2>4, <2>5, FewTouchDeliveries
  <1>2. FInv /\ [Next]_vars =>
           [\A d \in Deliveries :
              dstatus[d] = "pending" /\ dstatus'[d] = "cancelled" => d[2] \notin subs]_vars
    BY <1>1
  <1> QED
    BY <1>2, FanoutInvariance, PTL DEF Spec, CancelledIsUnconfigured
-----------------------------------------------------------------------------
(* The inbox.                                                              *)

\* What the refinement needs beside FInv: a delivery that is or was there was
\* wanted, and an outcome `delivered` has been accepted.
WantedInv ==
    /\ \A r \in Rows : row[r] = "absent" => wanted[r] = {}
    /\ \A d \in Deliveries : dstatus[d] # "absent" \/ InHand(d) => d[2] \in wanted[d[1]]
    /\ \A d \in Deliveries : out[d] = "delivered" => acks[d] > 0

\* Steps that store nothing keep it, if the batch and the rows hold only what
\* one of them held.
LEMMA WantedStays ==
    ASSUME WantedInv, wanted' = wanted,
           \A r \in Rows : row'[r] = "absent" => row[r] = "absent",
           \A d \in Deliveries : dstatus'[d] # "absent" => dstatus[d] # "absent" \/ InHand(d),
           \A d \in Deliveries : InHand(d)' => dstatus[d] # "absent" \/ InHand(d),
           \A d \in Deliveries : out'[d] = "delivered" => acks'[d] > 0
    PROVE  WantedInv'
  BY DEF WantedInv

\* An acceptance is counted, or the counter stands at its bound.
LEMMA AcksGrow ==
    ASSUME FInv, NEW S, acks' = Count(acks, S)
    PROVE  /\ \A d \in Deliveries : acks[d] \in Nat /\ acks'[d] \in Nat /\ acks'[d] >= acks[d]
           /\ \A d \in S \cap Deliveries : acks'[d] > 0
           /\ \A d \in Deliveries : S = {d} => acks' = acks \/ acks' = [acks EXCEPT ![d] = @ + 1]
           /\ S \cap Deliveries = {} => acks' = acks
  <1>1. Cap \in Nat /\ Cap > 0
    BY FanoutAssumption
  <1>2. acks \in [Deliveries -> 0..Cap]
    BY DEF FInv, TypeOK
  <1>3. /\ acks' \in [Deliveries -> 0..Cap]
        /\ \A d \in Deliveries :
              acks'[d] = IF d \in S /\ acks[d] < Cap THEN acks[d] + 1 ELSE acks[d]
    BY <1>2, CountType
  <1>4. \A d \in Deliveries : acks[d] \in 0..Cap /\ acks'[d] \in 0..Cap
    BY <1>2, <1>3
  <1>5. ASSUME NEW d \in Deliveries
        PROVE  /\ acks[d] \in Nat /\ acks'[d] \in Nat /\ acks'[d] >= acks[d]
               /\ d \in S => acks'[d] > 0
    <2>1. acks[d] \in 0..Cap /\ acks'[d] \in 0..Cap
      BY <1>4
    <2>2. acks'[d] = IF d \in S /\ acks[d] < Cap THEN acks[d] + 1 ELSE acks[d]
      BY <1>3
    <2> QED
      BY <1>1, <2>1, <2>2
  <1>6. ASSUME NEW d \in Deliveries, S = {d}
        PROVE  acks' = acks \/ acks' = [acks EXCEPT ![d] = @ + 1]
    <2>1. CASE acks[d] < Cap
      BY <1>2, <1>3, <1>6, <2>1
    <2>2. CASE ~(acks[d] < Cap)
      BY <1>2, <1>3, <1>6, <2>2
    <2> QED
      BY <2>1, <2>2
  <1>7. S \cap Deliveries = {} => acks' = acks
    BY <1>2, <1>3
  <1> QED
    BY <1>5, <1>6, <1>7

\* What a batch that is dropped had accepted: nothing more than the post that
\* was open.
LEMMA AbandonAcks ==
    ASSUME FInv, Abandon
    PROVE  /\ acks' = acks \/ (cur \in Deliveries /\ acks' = [acks EXCEPT ![cur] = @ + 1])
           /\ pc # "posting" => acks' = acks
  <1>1. PICK took \in {{}, {cur}} : acks' = Count(acks, took) /\ (pc # "posting" => took = {})
    BY DEF Abandon
  <1>2. pc = "posting" => cur \in Deliveries
    BY DEF FInv, TypeOK, LoopInv
  <1>3. CASE took = {}
    BY <1>1, <1>3, AcksGrow
  <1>4. CASE took = {cur} /\ pc = "posting"
    BY <1>1, <1>2, <1>4, AcksGrow
  <1> QED
    BY <1>1, <1>3, <1>4

\* Dropping a batch leaves nothing in hand.
LEMMA AbandonWanted ==
    ASSUME FInv, WantedInv, Abandon, UNCHANGED <<row, dstatus>>
    PROVE  WantedInv'
  <1>1. wanted' = wanted /\ todo' = {} /\ cur' = Nobody /\ out' = None
    BY DEF Abandon, Forget
  <1>2. \A d \in Deliveries : out'[d] = "none" /\ d # cur'
    BY <1>1, DeliveryParts DEF None
  <1> QED
    BY <1>1, <1>2, WantedStays DEF InHand

-----------------------------------------------------------------------------
(* Steps and what the inbox sees of them.                                  *)

\* Nothing the inbox sees.
LEMMA InboxStutters ==
    ASSUME UNCHANGED <<row, textOf, dstatus, wanted, acks, acked>>
    PROVE  UNCHANGED Promise!vars
  BY DEF Promise!vars, Fate

LEMMA ReplyMaps ==
    ASSUME FInv, NEW h \in Handlers, Reply(h)
    PROVE  Promise!Next \/ UNCHANGED Promise!vars
  <1>1. hpc[h] = "reply" /\ htext[h] \in Texts /\ \E r \in Rows : textOf[r] = htext[h]
    BY DEF Reply, FInv, GateInv
  <1>2. UNCHANGED <<row, textOf, dstatus, wanted, acks>>
    BY DEF Reply, database, history
  <1>3. PICK heard \in BOOLEAN : acked' = [acked EXCEPT ![htext[h]] = @ \/ heard]
    BY DEF Reply
  <1>4. acked \in [Texts -> BOOLEAN]
    BY DEF FInv, TypeOK
  <1>5. CASE heard
    <2>1. {t \in Texts : acked'[t]} = {t \in Texts : acked[t]} \cup {htext[h]}
      BY <1>1, <1>3, <1>4, <1>5
    <2>2. PICK t \in Texts : t = htext[h]
      BY <1>1
    <2>3. Promise!Tell(t)
      BY <1>1, <1>2, <2>1, <2>2 DEF Promise!Tell, Fate
    <2> QED
      BY <2>3 DEF Promise!Next
  <1>6. CASE ~heard
    <2>1. acked' = acked
      BY <1>1, <1>3, <1>4, <1>6
    <2> QED
      BY <1>2, <2>1, InboxStutters
  <1> QED
    BY <1>5, <1>6

\* The row and its deliveries come in one transaction.
LEMMA PostCommitMaps ==
    ASSUME FInv, WantedInv, NEW h \in Handlers, PostCommit(h)
    PROVE  Promise!Next /\ WantedInv'
  <1>1. PICK r \in Rows :
           /\ row[r] = "absent"
           /\ row' = [row EXCEPT ![r] = "stored"]
           /\ textOf' = [textOf EXCEPT ![r] = htext[h]]
           /\ EnqueueFanout(r)
           /\ wanted' = [wanted EXCEPT ![r] = subs]
    BY DEF PostCommit
  <1>2. /\ htext[h] \in Texts /\ subs \subseteq Subs
        /\ UNCHANGED <<acks, acked, todo, cur, out>>
    BY DEF PostCommit, FInv, GateInv, TypeOK, loop
  <1>3. row \in [Rows -> {"absent", "stored", "pruned"}] /\ wanted \in [Rows -> SUBSET Subs]
    BY DEF FInv, TypeOK
  <1>4. \A d \in Deliveries :
           dstatus'[d] = IF d[1] = r /\ d[2] \in subs THEN "pending" ELSE dstatus[d]
    BY <1>1 DEF EnqueueFanout
  <1>5. wanted[r] = {}
    BY <1>1 DEF WantedInv
  <1>6. \A d \in Deliveries :
           /\ d[1] = r => dstatus[d] = "absent" /\ ~InHand(d) /\ wanted'[d[1]] = subs
           /\ d[1] # r => wanted'[d[1]] = wanted[d[1]] /\ row'[d[1]] = row[d[1]]
    BY <1>1, <1>3, DeliveryParts DEF FInv, RowInv, BatchInv
  <1>7. \A d \in Deliveries :
           Fate(d)' = IF d[1] = r /\ d[2] \in subs THEN "pending" ELSE Fate(d)
    BY <1>4, <1>5, <1>6 DEF Fate
  <1>8. Promise!Arrive(r, htext[h], subs)
    <2>1. [d \in Deliveries |-> Fate(d)']
             = [d \in Deliveries |-> IF d[1] = r /\ d[2] \in subs THEN "pending"
                                     ELSE [e \in Deliveries |-> Fate(e)][d]]
      BY <1>7
    <2> QED
      BY <1>1, <1>2, <2>1 DEF Promise!Arrive, Promise!Deliveries, Deliveries
  <1>9. WantedInv'
    <2>1. \A q \in Rows : row'[q] = "absent" => wanted'[q] = {}
      BY <1>1, <1>3 DEF WantedInv
    <2>2. \A d \in Deliveries : dstatus'[d] # "absent" \/ InHand(d)' => d[2] \in wanted'[d[1]]
      BY <1>2, <1>4, <1>6 DEF WantedInv, InHand
    <2>3. \A d \in Deliveries : out'[d] = "delivered" => acks'[d] > 0
      BY <1>2 DEF WantedInv
    <2> QED
      BY <2>1, <2>2, <2>3 DEF WantedInv
  <1> QED
    BY <1>2, <1>8, <1>9 DEF Promise!Next

\* An acceptance is of a delivery that was pending when the batch was read,
\* and is so still, or went with its message.
LEMMA HandOverMaps ==
    ASSUME FInv, WantedInv, cur \in Deliveries, UNCHANGED <<row, textOf, dstatus, wanted, acked>>,
           acks' = acks \/ acks' = [acks EXCEPT ![cur] = @ + 1]
    PROVE  Promise!Next \/ UNCHANGED Promise!vars
  <1>1. CASE acks' = acks
    BY <1>1, InboxStutters
  <1>2. CASE acks' = [acks EXCEPT ![cur] = @ + 1]
    <2>1. Fate(cur) \in {"pending", "forgotten"}
      BY DEF FInv, BatchInv, WantedInv, InHand, Fate
    <2>2. Promise!HandOver(cur)
      BY <1>2, <2>1 DEF Promise!HandOver, Fate
    <2> QED
      BY <2>2 DEF Promise!Next, Promise!Deliveries, Deliveries
  <1> QED
    BY <1>1, <1>2

\* A batch that is dropped, for whatever reason.
LEMMA AbandonMaps ==
    ASSUME FInv, WantedInv, Abandon, UNCHANGED <<row, textOf, dstatus, acked>>
    PROVE  (Promise!Next \/ UNCHANGED Promise!vars) /\ WantedInv'
  <1>1. wanted' = wanted
    BY DEF Abandon
  <1>2. CASE acks' = acks
    BY <1>1, <1>2, InboxStutters, AbandonWanted
  <1>3. CASE cur \in Deliveries /\ acks' = [acks EXCEPT ![cur] = @ + 1]
    BY <1>1, <1>3, HandOverMaps, AbandonWanted
  <1> QED
    BY <1>2, <1>3, AbandonAcks

\* A post that was answered, or whose answer was lost.
LEMMA PostedMaps ==
    ASSUME FInv, WantedInv, Acknowledged \/ Refused
    PROVE  (Promise!Next \/ UNCHANGED Promise!vars) /\ WantedInv'
  <1>1. /\ cur \in Deliveries
        /\ UNCHANGED <<row, textOf, dstatus, wanted, acked, todo>>
        /\ cur' = Nobody
    BY DEF Acknowledged, Refused, FInv, LoopInv, TypeOK, Outcome, database, gateway
  <1>2. PICK took \in {{}, {cur}} : acks' = Count(acks, took) /\ (Acknowledged => took = {cur})
    BY DEF Acknowledged, Refused
  <1>3. PICK status \in {"delivered", "failed", "pending"} :
           out' = [out EXCEPT ![cur] = status] /\ (status = "delivered" => took = {cur})
    <2>1. CASE Acknowledged
      BY <1>2, <2>1 DEF Acknowledged, Outcome
    <2>2. CASE Refused
      BY <2>2 DEF Refused, Outcome
    <2> QED
      BY <2>1, <2>2
  <1>4. acks' = acks \/ acks' = [acks EXCEPT ![cur] = @ + 1]
    <2>1. CASE took = {}
      BY <1>2, <2>1, AcksGrow
    <2>2. CASE took = {cur}
      BY <1>1, <1>2, <2>2, AcksGrow
    <2> QED
      BY <2>1, <2>2
  <1>5. WantedInv'
    <2>1. out \in [Deliveries -> Outcomes]
      BY DEF FInv, LoopInv
    <2>2. \A d \in Deliveries : InHand(d)' => InHand(d)
      BY <1>1, <1>3, <2>1, DeliveryParts DEF InHand
    <2>3. \A d \in Deliveries : out'[d] = "delivered" => acks'[d] > 0
      <3> SUFFICES ASSUME NEW d \in Deliveries, out'[d] = "delivered" PROVE acks'[d] > 0
        OBVIOUS
      <3>1. acks[d] \in Nat /\ acks'[d] \in Nat /\ acks'[d] >= acks[d]
        BY <1>2, AcksGrow
      <3>2. CASE d = cur
        BY <1>1, <1>2, <1>3, <2>1, <3>2, AcksGrow
      <3>3. CASE d # cur
        <4>1. out[d] = "delivered"
          BY <1>3, <2>1, <3>3
        <4>2. acks[d] > 0
          BY <4>1 DEF WantedInv
        <4> QED
          BY <3>1, <4>2
      <3> QED
        BY <3>2, <3>3
    <2> QED
      BY <1>1, <2>2, <2>3, WantedStays
  <1> QED
    BY <1>1, <1>4, <1>5, HandOverMaps

\* One commit settles what the batch settled; what is to be tried again stays
\* pending.
LEMMA BatchCommitMaps ==
    ASSUME FInv, WantedInv, BatchCommit
    PROVE  Promise!Next /\ WantedInv'
  <1> DEFINE S == {d \in Deliveries : out[d] \notin {"none", "pending"}}
             f == [d \in S |-> out[d]]
  <1>1. /\ UNCHANGED <<row, textOf, wanted, acks, acked>>
        /\ todo' = {} /\ cur' = Nobody /\ out' = None
        /\ \A d \in Deliveries : dstatus'[d] = IF out[d] # "none" THEN out[d] ELSE dstatus[d]
    BY DEF BatchCommit, Forget, gateway, history, Dirty
  <1>2. out \in [Deliveries -> Outcomes]
    BY DEF FInv, LoopInv
  <1>3. \A d \in Deliveries : out[d] # "none" => dstatus[d] = "pending"
    BY DEF FInv, BatchInv, InHand, BatchCommit, StaleData, Dirty
  <1>4. \A d \in S : Fate(d) = "pending"
    BY <1>3 DEF Fate
  <1>5. f \in [S -> Promise!Outcomes]
    BY <1>2 DEF Promise!Outcomes, Outcomes
  <1>6. \A d \in S : f[d] = "delivered" => acks[d] > 0
    BY DEF WantedInv
  <1>7. \A d \in Deliveries : Fate(d)' = IF d \in S THEN f[d] ELSE Fate(d)
    BY <1>1, <1>2, <1>3 DEF Fate, Outcomes
  <1>8. S \in SUBSET Deliveries
    OBVIOUS
  <1> HIDE DEF f, S
  <1>9. [d \in Deliveries |-> Fate(d)']
           = [d \in Deliveries |-> IF d \in S THEN f[d] ELSE [e \in Deliveries |-> Fate(e)][d]]
    BY <1>7
  <1>10. \A d \in S : [e \in Deliveries |-> Fate(e)][d] = "pending"
    BY <1>4, <1>8
  <1>11. Promise!Settle(S)
    BY <1>1, <1>5, <1>6, <1>9, <1>10 DEF Promise!Settle, Promise!Deliveries, Deliveries
  <1>12. WantedInv'
    <2>1. \A d \in Deliveries : out'[d] = "none" /\ ~InHand(d)'
      BY <1>1, DeliveryParts DEF None, InHand
    <2>2. \A d \in Deliveries : dstatus'[d] # "absent" => dstatus[d] # "absent"
      BY <1>1, <1>3
    <2> QED
      BY <1>1, <2>1, <2>2, WantedStays
  <1> QED
    BY <1>8, <1>11, <1>12 DEF Promise!Next, Promise!Deliveries, Deliveries

\* The deliveries go with their message.
LEMMA PruneMaps ==
    ASSUME FInv, WantedInv, NEW r \in Rows, Prune(r)
    PROVE  Promise!Next /\ WantedInv'
  <1>1. /\ row[r] = "stored" /\ row' = [row EXCEPT ![r] = "pruned"]
        /\ UNCHANGED <<textOf, wanted, acks, acked, todo, cur, out>>
        /\ \A d \in Deliveries : dstatus'[d] = IF d[1] = r THEN "absent" ELSE dstatus[d]
    BY DEF Prune, loop, gateway, history
  <1>2. \A d \in Deliveries :
           Fate(d)' = IF d[1] = r /\ Fate(d) # "none" THEN "forgotten" ELSE Fate(d)
    <2> SUFFICES ASSUME NEW d \in Deliveries
                 PROVE  Fate(d)' = IF d[1] = r /\ Fate(d) # "none" THEN "forgotten" ELSE Fate(d)
      OBVIOUS
    <2>1. dstatus[d] # "absent" => d[2] \in wanted[d[1]]
      BY DEF WantedInv
    <2>2. dstatus[d] \in DStatus
      BY DEF FInv, TypeOK
    <2>3. CASE d[1] = r
      <3>1. Fate(d)' = IF d[2] \in wanted[d[1]] THEN "forgotten" ELSE "none"
        BY <1>1, <2>3 DEF Fate
      <3>2. Fate(d) # "none" <=> d[2] \in wanted[d[1]]
        BY <2>1, <2>2 DEF Fate, DStatus
      <3> QED
        BY <2>3, <3>1, <3>2
    <2>4. CASE d[1] # r
      BY <1>1, <2>4 DEF Fate
    <2> QED
      BY <2>3, <2>4
  <1>3. [d \in Deliveries |-> Fate(d)']
           = [d \in Deliveries |-> IF d[1] = r /\ [e \in Deliveries |-> Fate(e)][d] # "none"
                                   THEN "forgotten" ELSE [e \in Deliveries |-> Fate(e)][d]]
    BY <1>2
  <1>4. Promise!Forget(r)
    BY <1>1, <1>3 DEF Promise!Forget, Promise!Deliveries, Deliveries
  <1>5. WantedInv'
    <2>1. \A q \in Rows : row'[q] = "absent" => row[q] = "absent"
      BY <1>1 DEF FInv, TypeOK
    <2>2. \A d \in Deliveries : InHand(d)' => InHand(d)
      BY <1>1 DEF InHand
    <2>3. \A d \in Deliveries : out'[d] = "delivered" => acks'[d] > 0
      BY <1>1 DEF WantedInv
    <2> QED
      BY <1>1, <2>1, <2>2, <2>3, WantedStays
  <1> QED
    BY <1>4, <1>5 DEF Promise!Next

\* The other steps move the loop or a request.
LEMMA QuietSteps ==
    ASSUME FInv, WantedInv, UNCHANGED <<row, textOf, dstatus, wanted, acks, acked>>,
           \A d \in Deliveries : InHand(d)' => dstatus[d] # "absent" \/ InHand(d),
           \A d \in Deliveries : out'[d] = "delivered" => out[d] = "delivered"
    PROVE  UNCHANGED Promise!vars /\ WantedInv'
  <1>1. \A d \in Deliveries : out'[d] = "delivered" => acks'[d] > 0
    BY DEF WantedInv
  <1> QED
    BY <1>1, InboxStutters, WantedStays

\* Every step of requests, loop, retention and faults is one of the inbox.
LEMMA InboxStep ==
    ASSUME FInv, WantedInv, [Next]_vars
    PROVE  (Promise!Next \/ UNCHANGED Promise!vars) /\ WantedInv'
  <1> DEFINE Goal == (Promise!Next \/ UNCHANGED Promise!vars) /\ WantedInv'
  <1>0. out \in [Deliveries -> Outcomes]
    BY DEF FInv, LoopInv
  <1>1. ASSUME UNCHANGED <<row, textOf, dstatus, wanted, acks, acked, todo, cur, out>> PROVE Goal
    BY <1>1, QuietSteps DEF InHand
  <1>2. ASSUME NEW h \in Handlers, (\E t \in Texts : Post(h, t)) \/ PostRead(h) \/ PostRefused(h)
        PROVE  Goal
    BY <1>1, <1>2 DEF Post, PostRead, PostRefused, database, loop, history
  <1>3. ASSUME NEW h \in Handlers, Reply(h) PROVE Goal
    <2>1. WantedInv'
      <3>1. UNCHANGED <<row, dstatus, wanted, acks, todo, cur, out>>
        BY <1>3 DEF Reply, database, loop, history
      <3> QED
        BY <3>1 DEF WantedInv, InHand
    <2> QED
      BY <1>3, <2>1, ReplyMaps
  <1>4. ASSUME NEW h \in Handlers, PostCommit(h) PROVE Goal
    BY <1>4, PostCommitMaps
  <1>5. CASE BatchRead
    <2>1. UNCHANGED <<row, textOf, dstatus, wanted, acks, acked, cur, out>> /\ todo' \subseteq Due
      BY <1>5 DEF BatchRead, database, gateway, history
    <2>2. \A d \in Deliveries : InHand(d)' => dstatus[d] # "absent" \/ InHand(d)
      BY <2>1 DEF Due, InHand
    <2> QED
      BY <2>1, <2>2, QuietSteps
  <1>6. ASSUME NEW d \in Deliveries, Cancel(d) PROVE Goal
    <2>1. /\ UNCHANGED <<row, textOf, dstatus, wanted, acks, acked, cur>>
          /\ d \in todo /\ todo' = todo \ {d} /\ out' = [out EXCEPT ![d] = "cancelled"]
      BY <1>6 DEF Cancel, IsNext, database, gateway, history
    <2>2. \A e \in Deliveries : InHand(e)' => InHand(e)
      BY <1>0, <2>1 DEF InHand
    <2>3. \A e \in Deliveries : out'[e] = "delivered" => out[e] = "delivered"
      BY <1>0, <2>1
    <2> QED
      BY <2>1, <2>2, <2>3, QuietSteps
  <1>7. ASSUME NEW d \in Deliveries, Deliver(d) PROVE Goal
    <2>1. /\ UNCHANGED <<row, textOf, dstatus, wanted, acks, acked, out>>
          /\ d \in todo /\ todo' = todo \ {d} /\ cur' = d
      BY <1>7 DEF Deliver, IsNext, database, gateway
    <2>2. \A e \in Deliveries : InHand(e)' => InHand(e)
      BY <2>1 DEF InHand
    <2> QED
      BY <2>1, <2>2, QuietSteps
  <1>8. CASE Acknowledged \/ Refused
    BY <1>8, PostedMaps
  <1>9. CASE FlushFails \/ CommitFails \/ IterationRaises \/ Kill
    BY <1>9, AbandonMaps DEF FlushFails, CommitFails, IterationRaises, Kill, database, gateway
  <1>10. CASE Poisoned
    BY <1>10, AbandonMaps DEF Poisoned, database, gateway
  <1>11. CASE BatchCommit
    BY <1>11, BatchCommitMaps
  <1>12. ASSUME NEW d \in Deliveries, BackoffElapses(d) PROVE Goal
    BY <1>1, <1>12 DEF BackoffElapses, loop, gateway, history
  <1>13. ASSUME NEW r \in Rows, Prune(r) PROVE Goal
    BY <1>13, PruneMaps
  <1>14. CASE Restart \/ UNCHANGED vars
    BY <1>1, <1>14 DEF Restart, vars, database, loop, gateway, history
  <1> QED
    BY <1>2, <1>3, <1>4, <1>5, <1>6, <1>7, <1>8, <1>9, <1>10, <1>11, <1>12, <1>13, <1>14
       DEF Next, Webhook, LoopStep

\* The gateway and the subscribers see an inbox: requests that overlap,
\* dropped batches, crashes and retention are steps of it or hidden.
THEOREM InboxSafety == Spec => ImplementsInbox
  <1>1. Init => Promise!Init /\ WantedInv
    <2> SUFFICES ASSUME Init PROVE Promise!Init /\ WantedInv
      OBVIOUS
    <2>1. \A d \in Deliveries : Fate(d) = "none" /\ ~InHand(d) /\ out[d] = "none"
      BY DeliveryParts DEF Init, Fate, InHand, None
    <2>2. WantedInv
      BY <2>1 DEF Init, WantedInv
    <2>3. {t \in Texts : acked[t]} = {}
      BY DEF Init
    <2>4. Promise!Init
      BY <2>1, <2>3 DEF Init, Promise!Init, Promise!Deliveries, Deliveries, Zero
    <2> QED
      BY <2>2, <2>4
  <1>2. FInv /\ WantedInv /\ [Next]_vars => WantedInv' /\ [Promise!Next]_(Promise!vars)
    BY InboxStep
  <1> QED
    BY <1>1, <1>2, FanoutInvariance, PTL DEF Spec, ImplementsInbox, Promise!Spec

\* A delivery that is recorded as delivered was accepted by its subscriber:
\* no dropped batch, retry or restart makes up an acknowledgement.
DeliveredIsReal == \A d \in Deliveries : dstatus[d] = "delivered" => acks[d] > 0

\* It is so of the inbox, and the relay takes no other steps.
LEMMA InboxStepIsReal ==
    ASSUME DeliveredIsReal, acks \in [Deliveries -> Nat], [Promise!Next]_(Promise!vars)
    PROVE  DeliveredIsReal'
  <1> DEFINE fate == [d \in Deliveries |-> Fate(d)]
  <1>1. \A d \in Deliveries : (fate[d] = "delivered") <=> (dstatus[d] = "delivered")
    BY DEF Fate
  <1>2. \A d \in Deliveries : (fate'[d] = "delivered") <=> (dstatus'[d] = "delivered")
    BY DEF Fate
  <1>3. Promise!Deliveries = Deliveries
    BY DEF Promise!Deliveries, Deliveries
  <1> HIDE DEF fate
  <1> SUFFICES ASSUME NEW d \in Deliveries, fate'[d] = "delivered" PROVE acks'[d] > 0
    BY <1>2 DEF DeliveredIsReal
  <1>4. \A e \in Deliveries : fate[e] = "delivered" => acks[e] > 0
    BY <1>1 DEF DeliveredIsReal
  <1>5. CASE UNCHANGED Promise!vars
    BY <1>4, <1>5 DEF Promise!vars, fate
  <1>6. ASSUME NEW r \in Rows, NEW t \in Texts, NEW S \in SUBSET Subs, Promise!Arrive(r, t, S)
        PROVE  acks'[d] > 0
    <2>1. fate' = [e \in Deliveries |-> IF e[1] = r /\ e[2] \in S THEN "pending" ELSE fate[e]]
      BY <1>3, <1>6 DEF Promise!Arrive, fate
    <2>2. UNCHANGED acks
      BY <1>6 DEF Promise!Arrive
    <2> QED
      BY <1>4, <2>1, <2>2
  <1>7. ASSUME NEW r \in Rows, Promise!Forget(r) PROVE acks'[d] > 0
    <2>1. fate' = [e \in Deliveries |->
                     IF e[1] = r /\ fate[e] # "none" THEN "forgotten" ELSE fate[e]]
      BY <1>3, <1>7 DEF Promise!Forget, fate
    <2>2. UNCHANGED acks
      BY <1>7 DEF Promise!Forget
    <2> QED
      BY <1>4, <2>1, <2>2
  <1>8. ASSUME NEW t \in Texts, Promise!Tell(t) PROVE acks'[d] > 0
    BY <1>4, <1>8 DEF Promise!Tell, fate
  <1>9. ASSUME NEW e \in Deliveries, Promise!HandOver(e) PROVE acks'[d] > 0
    <2>1. UNCHANGED fate /\ acks' = [acks EXCEPT ![e] = @ + 1]
      BY <1>9 DEF Promise!HandOver, fate
    <2> QED
      BY <1>4, <2>1
  <1>10. ASSUME NEW S \in SUBSET Deliveries, Promise!Settle(S) PROVE acks'[d] > 0
    <2>1. UNCHANGED acks
      BY <1>10 DEF Promise!Settle
    <2>2. PICK outcome \in [S -> Promise!Outcomes] :
            /\ \A e \in S : outcome[e] = "delivered" => acks[e] > 0
            /\ fate' = [e \in Deliveries |-> IF e \in S THEN outcome[e] ELSE fate[e]]
      BY <1>3, <1>10 DEF Promise!Settle, fate
    <2> QED
      BY <1>4, <2>1, <2>2
  <1> QED
    BY <1>3, <1>5, <1>6, <1>7, <1>8, <1>9, <1>10 DEF Promise!Next

\* `delivered` tells of a subscriber's 2xx, through every fault.
THEOREM DeliveredReal == Spec => []DeliveredIsReal
  <1>1. Init => WantedInv /\ DeliveredIsReal
    BY DeliveryParts DEF Init, WantedInv, DeliveredIsReal, InHand, None
  <1>2. FInv /\ WantedInv /\ DeliveredIsReal /\ [Next]_vars => WantedInv' /\ DeliveredIsReal'
    <2>1. FInv => acks \in [Deliveries -> Nat]
      BY FanoutAssumption DEF FInv, TypeOK
    <2>2. FInv /\ WantedInv /\ [Next]_vars => WantedInv' /\ [Promise!Next]_(Promise!vars)
      BY InboxStep
    <2> QED
      BY <2>1, <2>2, InboxStepIsReal
  <1> QED
    BY <1>1, <1>2, FanoutInvariance, PTL DEF Spec
=============================================================================
