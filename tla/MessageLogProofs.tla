--------------------------- MODULE MessageLogProofs ---------------------------
(***************************************************************************)
(* What a reader of the log can rely on, for any rows, services, times and   *)
(* page size.                                                               *)
(***************************************************************************)
EXTENDS MessageLog, FiniteSetTheorems, TLAPS

\* The rows that come before r in every order SQL may give: r's position, but
\* for ties.
Newer(r) == {q \in Matching : created[q] > created[r]}

\* The rows that the walk could have met.
Met == throughout \cup entered \cup left

Known == stored \cup pruned

\* What was met is known, and its columns are its own; while a walk goes on the
\* result is made of what was there throughout and what entered.
MetInv ==
    /\ Met \subseteq Known /\ told \subseteq Met
    /\ pc = "idle" => Met = {} /\ told = {} /\ offset = 0
    /\ pc # "idle" => throughout \subseteq Matching /\ Matching \subseteq throughout \cup entered
    /\ \A r \in told : service[r] = Reader \/ direction[r] = "inbound"
    /\ pc # "look" => answer = NoAnswer

\* Leaving aside ties and newer rows that left, a row that is still to come has
\* at least as many before it as the walk has passed; and leaving aside those
\* that entered, a row that was shown has fewer, and was shown once.
PositionInv ==
    /\ \A r \in throughout \ told :
          \/ Ties(r) # {} \/ \E q \in left : created[q] > created[r]
          \/ pc # "look" /\ Cardinality(Newer(r)) >= offset
    /\ \A r \in told :
          \/ Ties(r) # {} \/ \E q \in entered : created[q] > created[r]
          \/ r \notin again /\ Cardinality(Newer(r)) < offset

\* While the log is quiet, the count is of what is there.
CountInv ==
    pc \in {"page", "look"} /\ entered \cup left = {} => total = Cardinality(Matching)

LogInv == TypeOK /\ MetInv /\ PositionInv /\ CountInv /\ GoneMeansPruned

-----------------------------------------------------------------------------
(* Counting rows before one.                                               *)

LEMMA MatchingFinite ==
    /\ Matching \subseteq Rows /\ Matching \subseteq stored
    /\ \A S \in SUBSET Matching : IsFiniteSet(S) /\ Cardinality(S) \in Nat
                                  /\ Cardinality(S) <= Cardinality(Matching)
  <1>1. Matching \subseteq Rows /\ Matching \subseteq stored
    BY DEF Matching, Matches
  <1>2. IsFiniteSet(Matching)
    BY <1>1, LogAssumption, FS_Subset
  <1> QED
    BY <1>1, <1>2, FS_Subset, FS_CardinalityType

\* With no ties, the first n rows are those with fewer than n before them.
LEMMA HeadsAreFirst ==
    ASSUME created \in [Rows -> Times], NEW n \in Nat, NEW S \in Heads(n), NEW r \in Matching,
           \A q \in Matching \ {r} : created[q] # created[r]
    PROVE  Cardinality(Newer(r)) < n <=> r \in S
  <1>0. /\ S \subseteq Matching /\ Cardinality(S) = Least(n, Cardinality(Matching))
        /\ \A q \in S, p \in Matching \ S : created[q] >= created[p]
    BY DEF Heads, Follows
  <1>2. \A q \in Matching : created[q] \in Nat
    BY MatchingFinite, LogAssumption
  <1>1. Newer(r) \subseteq Matching /\ r \notin Newer(r) /\ r \in Rows
    BY <1>2, MatchingFinite DEF Newer
  <1>3. /\ Cardinality(S) \in Nat /\ Cardinality(Newer(r)) \in Nat /\ Cardinality(Matching) \in Nat
        /\ IsFiniteSet(S) /\ IsFiniteSet(Newer(r)) /\ IsFiniteSet(Matching)
    BY <1>0, <1>1, MatchingFinite
  <1>4. CASE r \in S
    <2>1. Newer(r) \subseteq S
      BY <1>0, <1>1, <1>2, <1>4 DEF Newer
    <2>2. Newer(r) \cup {r} \subseteq S
      BY <1>4, <2>1
    <2>3. Cardinality(Newer(r) \cup {r}) = Cardinality(Newer(r)) + 1
      BY <1>1, <1>3, FS_AddElement
    <2>4. Cardinality(Newer(r) \cup {r}) <= Cardinality(S)
      BY <1>3, <2>2, FS_Subset
    <2>5. Cardinality(S) <= n
      BY <1>0, <1>3 DEF Least
    <2> QED
      BY <1>3, <1>4, <2>3, <2>4, <2>5
  <1>5. CASE r \notin S
    <2>1. S \subseteq Newer(r)
      BY <1>0, <1>2, <1>5 DEF Newer
    <2>2. Cardinality(S) <= Cardinality(Newer(r))
      BY <1>3, <2>1, FS_Subset
    <2>3. Cardinality(S) # Cardinality(Matching)
      BY <1>0, <1>3, <1>5, FS_Subset
    <2>4. Cardinality(S) = n
      BY <1>0, <2>3 DEF Least
    <2> QED
      BY <1>3, <1>5, <2>2, <2>4
  <1> QED
    BY <1>4, <1>5

\* A page: what the first skip + Limit rows have more than the first skip.
LEMMA PageShape ==
    ASSUME NEW skip \in Nat, NEW P \in Pages(skip)
    PROVE  /\ P \subseteq Matching /\ Cardinality(P) \in Nat /\ Cardinality(P) <= Limit
           /\ \E S \in Heads(skip), T \in Heads(skip + Limit) :
                 /\ P = T \ S /\ S \subseteq T
                 /\ T # Matching => Cardinality(P) = Limit
  <1>0. Limit \in Nat
    BY LogAssumption
  <1>1. PICK S \in Heads(skip) : P \cap S = {} /\ P \cup S \in Heads(skip + Limit)
    BY DEF Pages, PageAt
  <1>2. P \subseteq Matching
    BY DEF Pages, PageAt
  <1>3. /\ S \subseteq Matching /\ Cardinality(S) = Least(skip, Cardinality(Matching))
        /\ Cardinality(P \cup S) = Least(skip + Limit, Cardinality(Matching))
    BY <1>1 DEF Heads
  <1>4. IsFiniteSet(S) /\ IsFiniteSet(P) /\ IsFiniteSet(Matching) /\ IsFiniteSet(P \cup S)
    BY <1>2, <1>3, MatchingFinite
  <1>5. Cardinality(S) \in Nat /\ Cardinality(P) \in Nat /\ Cardinality(Matching) \in Nat
    BY <1>4, FS_CardinalityType
  <1>6. Cardinality(P \cup S) = Cardinality(P) + Cardinality(S)
    <2>1. Cardinality(P \cap S) = 0
      BY <1>1, FS_EmptySet
    <2>2. Cardinality(P \cup S) = Cardinality(P) + Cardinality(S) - Cardinality(P \cap S)
      BY <1>4, FS_Union
    <2> QED
      BY <1>5, <2>1, <2>2
  <1>7. Cardinality(P) <= Limit
    BY <1>0, <1>3, <1>5, <1>6 DEF Least
  <1>8. P \cup S # Matching => Cardinality(P) = Limit
    <2> SUFFICES ASSUME P \cup S # Matching PROVE Cardinality(P) = Limit
      OBVIOUS
    <2>1. Cardinality(P \cup S) # Cardinality(Matching)
      BY <1>2, <1>3, <1>4, FS_Subset
    <2>2. Cardinality(P \cup S) <= Cardinality(Matching)
      BY <1>2, <1>3, MatchingFinite
    <2> QED
      BY <1>0, <1>3, <1>5, <1>6, <2>1, <2>2 DEF Least
  <1> QED
    BY <1>1, <1>2, <1>5, <1>7, <1>8

-----------------------------------------------------------------------------
(* The rest of the service.                                                *)

\* What a step of the rest of the service may do: it stores a fresh row, or
\* moves or deletes one that is there; a known row's columns, but for its
\* status, are its own.
LEMMA ServiceSteps ==
    ASSUME TypeOK,
           NEW r \in Rows, (\E s \in Services : StoreOutbound(r, s)) \/ StoreInbound(r) \/ Move(r) \/ Prune(r)
    PROVE  /\ Track /\ Known \subseteq Known' /\ pruned \subseteq pruned'
           /\ stored' \subseteq Rows /\ pruned' \subseteq Rows
           /\ direction' \in [Rows -> {"outbound", "inbound"}]
           /\ service' \in [Rows -> Services \cup {"inbound"}]
           /\ status' \in [Rows -> Statuses]
           /\ created' \in [Rows -> Times] /\ clock' \in Times
           /\ \A q \in Known : /\ created'[q] = created[q] /\ service'[q] = service[q]
                               /\ direction'[q] = direction[q]
  <1>1. ASSUME NEW s \in Services, StoreOutbound(r, s)
        PROVE  /\ Track /\ r \notin Known /\ stored' = stored \cup {r} /\ pruned' = pruned
               /\ direction' = [direction EXCEPT ![r] = "outbound"]
               /\ service' = [service EXCEPT ![r] = s]
               /\ status' = [status EXCEPT ![r] = "queued"]
               /\ clock' \in Times /\ created' = [created EXCEPT ![r] = clock']
    BY <1>1 DEF StoreOutbound, Known
  <1>2. CASE \E s \in Services : StoreOutbound(r, s)
    BY <1>1, <1>2 DEF TypeOK, Known, Statuses
  <1>3. CASE StoreInbound(r)
    <2>1. PICK t \in Times : created' = [created EXCEPT ![r] = t]
      BY <1>3 DEF StoreInbound
    <2> QED
      BY <1>3, <2>1 DEF StoreInbound, TypeOK, Known, Statuses
  <1>4. CASE Move(r)
    BY <1>4 DEF Move, TypeOK, Known
  <1>5. CASE Prune(r)
    BY <1>5 DEF Prune, TypeOK, Known
  <1> QED
    BY <1>2, <1>3, <1>4, <1>5

\* Nothing of a walk that has not begun, or that is over, is lost from sight.
LEMMA TrackMet ==
    ASSUME TypeOK, MetInv, Track, Known \subseteq Known',
           \A q \in Known : service'[q] = service[q] /\ direction'[q] = direction[q]
    PROVE  /\ MetInv' /\ Met \subseteq Met'
           /\ throughout' \subseteq throughout /\ throughout' \subseteq stored'
           /\ throughout' \cap left' = {}
           /\ entered \subseteq entered' /\ left \subseteq left'
           /\ pc # "idle" => Matching' \ Matching \subseteq entered' /\ Matching \ Matching' \subseteq left'
  <1>1. UNCHANGED <<pc, told, offset, answer>>
    BY DEF Track, walk
  <1>2. Matching \subseteq stored /\ Matching' \subseteq stored'
    BY DEF Matching, Matches
  <1>3. CASE pc = "idle"
    <2>1. UNCHANGED <<throughout, entered, left>>
      BY <1>3 DEF Track
    <2>2. Met = {} /\ told = {} /\ offset = 0
      BY <1>3 DEF MetInv
    <2> QED
      BY <1>1, <1>3, <2>1, <2>2 DEF MetInv, Met
  <1>4. CASE pc # "idle"
    <2>1. /\ throughout' = throughout \cap Matching'
          /\ entered' = entered \cup (Matching' \ Matching)
          /\ left' = left \cup (Matching \ Matching')
      BY <1>4 DEF Track
    <2>2. throughout \subseteq Matching /\ Matching \subseteq throughout \cup entered
      BY <1>4 DEF MetInv
    <2>3. Met \subseteq Met'
      BY <2>1, <2>2 DEF Met
    <2>4. Met' \subseteq Known'
      BY <1>2, <2>1 DEF Met, Known, MetInv
    <2>5. Matching' \subseteq throughout' \cup entered'
      BY <2>1, <2>2
    <2>6. MetInv'
      BY <1>1, <1>4, <2>1, <2>3, <2>4, <2>5 DEF MetInv
    <2> QED
      BY <1>2, <1>4, <2>1, <2>3, <2>6 DEF TypeOK
  <1> QED
    BY <1>3, <1>4

\* An explanation remains one, and a row without one keeps its side of the
\* offset: what was before it is there still, or left; what is before it now
\* was there, or entered.
LEMMA TrackPosition ==
    ASSUME TypeOK, MetInv, PositionInv, Track, Known \subseteq Known',
           stored' \subseteq Rows,
           \A q \in Known : /\ created'[q] = created[q] /\ service'[q] = service[q]
                            /\ direction'[q] = direction[q]
    PROVE  PositionInv'
  <1>1. UNCHANGED <<pc, told, again, offset>>
    BY DEF Track, walk
  <1>2. CASE pc = "idle"
    BY <1>1, <1>2, TrackMet DEF PositionInv, MetInv, Met
  <1>3. CASE pc # "idle"
    <2>0. /\ throughout' \subseteq throughout /\ entered \subseteq entered' /\ left \subseteq left'
          /\ Matching' \ Matching \subseteq entered' /\ Matching \ Matching' \subseteq left'
          /\ Met \subseteq Met'
      BY <1>3, TrackMet
    <2>1. Met \subseteq Known /\ told \subseteq Met /\ Matching \subseteq Known
      BY MatchingFinite DEF MetInv, Known
    <2>2. ASSUME NEW r \in Met
          PROVE  /\ Ties(r) # {} => Ties(r)' # {}
                 /\ (\E q \in left : created[q] > created[r]) =>
                       \E q \in left' : created'[q] > created'[r]
                 /\ (\E q \in entered : created[q] > created[r]) =>
                       \E q \in entered' : created'[q] > created'[r]
                 /\ created'[r] = created[r]
      BY <2>0, <2>1 DEF Ties, Met
    <2>3. /\ IsFiniteSet(Matching) /\ IsFiniteSet(Matching')
      <3>1. Matching \subseteq Rows /\ Matching' \subseteq Rows
        BY DEF Matching
      <3> QED
        BY <3>1, LogAssumption, FS_Subset
    <2>4. ASSUME NEW r \in Met
          PROVE  /\ IsFiniteSet(Newer(r)) /\ IsFiniteSet(Newer(r)')
                 /\ Cardinality(Newer(r)) \in Nat /\ Cardinality(Newer(r)') \in Nat
      <3>1. Newer(r) \subseteq Matching /\ Newer(r)' \subseteq Matching'
        BY DEF Newer
      <3> QED
        BY <2>3, <3>1, FS_Subset, FS_CardinalityType
    <2>5. ASSUME NEW r \in throughout' \ told
          PROVE  \/ Ties(r)' # {} \/ \E q \in left' : created'[q] > created'[r]
                 \/ pc # "look" /\ Cardinality(Newer(r)') >= offset
      <3> SUFFICES ASSUME ~(\E q \in left' : created'[q] > created'[r]), Ties(r)' = {}
                   PROVE  pc # "look" /\ Cardinality(Newer(r)') >= offset
        OBVIOUS
      <3>1. r \in throughout \ told /\ r \in Met
        BY <2>0 DEF Met
      <3>2. pc # "look" /\ Cardinality(Newer(r)) >= offset
        BY <2>2, <3>1 DEF PositionInv
      <3>3. Newer(r) \subseteq Newer(r)'
        BY <2>0, <2>1, <2>2, <3>1 DEF Newer
      <3>4. Cardinality(Newer(r)) <= Cardinality(Newer(r)')
        BY <2>4, <3>1, <3>3, FS_Subset
      <3> QED
        BY <2>4, <3>1, <3>2, <3>4 DEF TypeOK
    <2>6. ASSUME NEW r \in told
          PROVE  \/ Ties(r)' # {} \/ \E q \in entered' : created'[q] > created'[r]
                 \/ r \notin again /\ Cardinality(Newer(r)') < offset
      <3> SUFFICES ASSUME ~(\E q \in entered' : created'[q] > created'[r]), Ties(r)' = {}
                   PROVE  r \notin again /\ Cardinality(Newer(r)') < offset
        OBVIOUS
      <3>1. r \in Met
        BY <2>1
      <3>2. r \notin again /\ Cardinality(Newer(r)) < offset
        BY <2>2, <3>1 DEF PositionInv
      <3>3. Newer(r)' \subseteq Newer(r)
        BY <2>0, <2>1, <2>2, <3>1 DEF Newer
      <3>4. Cardinality(Newer(r)') <= Cardinality(Newer(r))
        BY <2>4, <3>1, <3>3, FS_Subset
      <3> QED
        BY <2>4, <3>1, <3>2, <3>4 DEF TypeOK
    <2> QED
      BY <1>1, <2>5, <2>6 DEF PositionInv
  <1> QED
    BY <1>2, <1>3

LEMMA ServiceStep ==
    ASSUME LogInv,
           NEW r \in Rows, (\E s \in Services : StoreOutbound(r, s)) \/ StoreInbound(r) \/ Move(r) \/ Prune(r)
    PROVE  LogInv'
  <1>0. TypeOK /\ MetInv /\ PositionInv
    BY DEF LogInv
  <1>1. /\ Track /\ Known \subseteq Known' /\ pruned \subseteq pruned'
        /\ stored' \subseteq Rows /\ pruned' \subseteq Rows
        /\ direction' \in [Rows -> {"outbound", "inbound"}]
        /\ service' \in [Rows -> Services \cup {"inbound"}]
        /\ status' \in [Rows -> Statuses]
        /\ created' \in [Rows -> Times] /\ clock' \in Times
        /\ \A q \in Known : /\ created'[q] = created[q] /\ service'[q] = service[q]
                            /\ direction'[q] = direction[q]
    BY <1>0, ServiceSteps
  <1>2. /\ MetInv' /\ throughout' \subseteq stored' /\ throughout' \cap left' = {}
        /\ entered \subseteq entered' /\ left \subseteq left'
        /\ pc # "idle" => Matching' \ Matching \subseteq entered' /\ Matching \ Matching' \subseteq left'
    BY <1>0, <1>1, TrackMet
  <1>3. UNCHANGED <<pc, filter, offset, total, told, again, answer>>
    BY <1>1 DEF Track, walk
  <1>4. TypeOK'
    <2>1. Met' \subseteq Rows
      BY <1>1, <1>2 DEF MetInv, Known
    <2> QED
      BY <1>0, <1>1, <1>2, <1>3, <2>1 DEF TypeOK, Met
  <1>5. PositionInv'
    BY <1>0, <1>1, TrackPosition
  <1>6. CountInv'
    <2> SUFFICES ASSUME pc \in {"page", "look"}, entered' \cup left' = {}
                 PROVE  total = Cardinality(Matching')
      BY <1>3 DEF CountInv
    <2>1. Matching' = Matching /\ entered \cup left = {}
      BY <1>2
    <2> QED
      BY <2>1 DEF LogInv, CountInv
  <1>7. GoneMeansPruned'
    BY <1>1, <1>3 DEF LogInv, GoneMeansPruned
  <1> QED
    BY <1>2, <1>4, <1>5, <1>6, <1>7 DEF LogInv

-----------------------------------------------------------------------------
(* The walk.                                                               *)

\* The table as the first page's filter sees it.
LEMMA BeginStep ==
    ASSUME LogInv, Begin
    PROVE  LogInv'
  <1>1. /\ pc = "idle" /\ pc' = "count" /\ filter' \in {"all", "queued"}
        /\ UNCHANGED <<stored, direction, service, status, created, clock,
                       offset, total, told, again, answer, pruned>>
        /\ throughout' = Matching' /\ entered' = {} /\ left' = {}
    BY DEF Begin, table
  <1>2. Matching' \subseteq stored
    BY <1>1 DEF Matching, Matches
  <1>3. told = {} /\ offset = 0
    BY <1>1 DEF LogInv, MetInv
  <1>4. TypeOK'
    BY <1>1, <1>2 DEF LogInv, TypeOK
  <1>5. MetInv'
    BY <1>1, <1>2, <1>3 DEF LogInv, MetInv, Met, Known
  <1>6. PositionInv'
    <2> SUFFICES ASSUME NEW r \in Matching' PROVE Cardinality(Newer(r)') >= 0
      BY <1>1, <1>3 DEF PositionInv
    <2>1. Newer(r)' \subseteq Rows
      BY DEF Newer, Matching
    <2> QED
      BY <2>1, LogAssumption, FS_Subset, FS_CardinalityType
  <1>7. CountInv' /\ GoneMeansPruned'
    BY <1>1, <1>3 DEF CountInv, GoneMeansPruned
  <1> QED
    BY <1>4, <1>5, <1>6, <1>7 DEF LogInv

LEMMA CountStep ==
    ASSUME LogInv, Count
    PROVE  LogInv'
  <1>1. /\ total' = Cardinality(Matching) /\ pc = "count" /\ pc' = "page"
        /\ UNCHANGED <<stored, direction, service, status, created, clock,
                       filter, offset, told, again, answer, throughout, entered, left, pruned>>
    BY DEF Count, CountOf, table, history
  <1>2. Matching' = Matching /\ \A r : Newer(r)' = Newer(r) /\ Ties(r)' = Ties(r)
    BY <1>1 DEF Matching, Matches, Newer, Ties
  <1>3. total' \in 0..Cardinality(Rows)
    <2>1. Matching \subseteq Rows
      BY DEF Matching
    <2> QED
      BY <1>1, <2>1, LogAssumption, FS_Subset, FS_CardinalityType
  <1>4. TypeOK'
    BY <1>1, <1>3 DEF LogInv, TypeOK
  <1>5. MetInv'
    BY <1>1, <1>2 DEF LogInv, MetInv, Met, Known
  <1>6. PositionInv'
    BY <1>1, <1>2 DEF LogInv, PositionInv
  <1> QED
    BY <1>1, <1>2, <1>4, <1>5, <1>6 DEF LogInv, CountInv, GoneMeansPruned

\* A page shows what has fewer than offset + Limit rows before it and not fewer
\* than offset; a short one is the end.
LEMMA PageStep ==
    ASSUME LogInv, Page
    PROVE  LogInv'
  <1>0. TypeOK /\ MetInv /\ PositionInv /\ offset \in Nat /\ Limit \in Nat
    BY LogAssumption DEF LogInv, TypeOK
  <1>1. PICK P \in Pages(offset) :
           /\ told' = told \cup P
           /\ again' = again \cup (told \cap P)
           /\ pc' = IF Cardinality(P) = Limit THEN "count" ELSE "look"
    BY DEF Page
  <1>2. /\ pc = "page" /\ offset' = offset + Limit
        /\ UNCHANGED <<stored, direction, service, status, created, clock,
                       filter, total, answer, throughout, entered, left, pruned>>
    BY DEF Page, table, history
  <1>3. Matching' = Matching /\ \A r : Newer(r)' = Newer(r) /\ Ties(r)' = Ties(r)
    BY <1>2 DEF Matching, Matches, Newer, Ties
  <1>4. P \subseteq Matching /\ Cardinality(P) \in Nat /\ Cardinality(P) <= Limit
    BY <1>0, PageShape
  <1>5. PICK S \in Heads(offset), T \in Heads(offset + Limit) :
           P = T \ S /\ S \subseteq T /\ (T # Matching => Cardinality(P) = Limit)
    BY <1>0, PageShape
  <1>6. Matching \subseteq throughout \cup entered /\ Matching \subseteq Rows /\ Matching \subseteq stored
    BY <1>0, <1>2, MatchingFinite DEF MetInv
  <1>7. TypeOK'
    <2>1. Cardinality(told') <= offset'
      <3>1. IsFiniteSet(told) /\ IsFiniteSet(P)
        BY <1>0, <1>4, <1>6, LogAssumption, FS_Subset DEF TypeOK
      <3>2. /\ Cardinality(told') = Cardinality(told) + Cardinality(P) - Cardinality(told \cap P)
            /\ Cardinality(told) \in Nat /\ Cardinality(told \cap P) \in Nat
        BY <1>1, <3>1, FS_Union, FS_CardinalityType, FS_Intersection
      <3> QED
        BY <1>0, <1>2, <1>4, <3>2 DEF TypeOK
    <2> QED
      BY <1>0, <1>1, <1>2, <1>4, <1>6, <2>1 DEF TypeOK
  <1>8. MetInv'
    <2>1. \A r \in P : service[r] = Reader \/ direction[r] = "inbound"
      BY <1>4 DEF Matching, Matches
    <2>2. P \subseteq Met
      BY <1>4, <1>6 DEF Met
    <2> QED
      BY <1>0, <1>1, <1>2, <1>3, <2>1, <2>2 DEF MetInv, Met, Known
  <1>9. ASSUME NEW r \in Matching, Ties(r) = {}
        PROVE  /\ Cardinality(Newer(r)) < offset <=> r \in S
               /\ Cardinality(Newer(r)) < offset + Limit <=> r \in T
               /\ Cardinality(Newer(r)) \in Nat
    <2>1. \A q \in Matching \ {r} : created[q] # created[r]
      BY <1>6, <1>9 DEF Ties
    <2>2. created \in [Rows -> Times]
      BY <1>0 DEF TypeOK
    <2>3. offset + Limit \in Nat
      BY <1>0
    <2>4. Newer(r) \subseteq Matching
      BY DEF Newer
    <2> QED
      BY <1>0, <2>1, <2>2, <2>3, <2>4, HeadsAreFirst, MatchingFinite
  <1>10. ASSUME NEW r \in throughout \ told', Ties(r) = {}, ~\E q \in left : created[q] > created[r]
         PROVE  pc' # "look" /\ Cardinality(Newer(r)) >= offset'
    <2>1. r \in Matching /\ r \notin told /\ r \notin P
      BY <1>0, <1>1, <1>2, <1>10 DEF MetInv
    <2>2. Cardinality(Newer(r)) >= offset
      BY <1>0, <1>10, <2>1 DEF PositionInv
    <2>3. r \notin S
      BY <1>0, <1>9, <1>10, <2>1, <2>2
    <2>4. r \notin T
      BY <1>5, <2>1, <2>3
    <2>5. Cardinality(P) = Limit
      BY <1>5, <2>1, <2>4
    <2>6. Cardinality(Newer(r)) >= offset + Limit
      BY <1>0, <1>9, <1>10, <2>1, <2>4
    <2> QED
      BY <1>1, <1>2, <2>5, <2>6
  <1>11. ASSUME NEW r \in told', Ties(r) = {}, ~\E q \in entered : created[q] > created[r]
         PROVE  r \notin again' /\ Cardinality(Newer(r)) < offset'
    <2>1. CASE r \in told
      <3>1. r \notin again /\ Cardinality(Newer(r)) < offset
        BY <1>0, <1>11, <2>1 DEF PositionInv
      <3>2. r \notin P
        <4> SUFFICES ASSUME r \in P PROVE FALSE
          OBVIOUS
        <4>1. r \in Matching /\ r \notin S
          BY <1>4, <1>5
        <4> QED
          BY <1>9, <1>11, <3>1, <4>1
      <3>3. Cardinality(Newer(r)) \in Nat
        <4>1. Newer(r) \subseteq Matching
          BY DEF Newer
        <4> QED
          BY <4>1, MatchingFinite
      <3> QED
        BY <1>0, <1>1, <1>2, <3>1, <3>2, <3>3
    <2>2. CASE r \notin told
      <3>1. r \in P
        BY <1>1, <1>11, <2>2
      <3>2. r \in T /\ r \in Matching
        BY <1>4, <1>5, <3>1
      <3>3. Cardinality(Newer(r)) < offset + Limit
        BY <1>9, <1>11, <3>2
      <3>4. r \notin again
        BY <1>0, <2>2 DEF TypeOK
      <3> QED
        BY <1>1, <1>2, <2>2, <3>3, <3>4
    <2> QED
      BY <2>1, <2>2
  <1>12. PositionInv'
    BY <1>2, <1>3, <1>10, <1>11 DEF PositionInv
  <1>13. CountInv'
    BY <1>1, <1>2, <1>3 DEF LogInv, CountInv
  <1>14. GoneMeansPruned'
    <2>1. answer.row = "none"
      BY <1>0, <1>2 DEF MetInv, NoAnswer
    <2>2. told' \subseteq Rows
      BY <1>7 DEF TypeOK
    <2> QED
      BY <1>2, <2>1, <2>2, LogAssumption DEF GoneMeansPruned
  <1> QED
    BY <1>7, <1>8, <1>12, <1>13, <1>14 DEF LogInv

\* Both handlers scope their reads alike.
LEMMA GetStep ==
    ASSUME LogInv, NEW r \in Rows, Get(r)
    PROVE  LogInv'
  <1>1. /\ pc = "look" /\ r \in told /\ answer' = [row |-> r, found |-> Readable(r)]
        /\ UNCHANGED <<stored, direction, service, status, created, clock,
                       pc, filter, offset, total, told, again, throughout, entered, left, pruned>>
    BY DEF Get, table, history
  <1>2. Matching' = Matching /\ \A q : Newer(q)' = Newer(q) /\ Ties(q)' = Ties(q)
    BY <1>1 DEF Matching, Matches, Newer, Ties
  <1>3. r \in Known /\ (service[r] = Reader \/ direction[r] = "inbound")
    BY <1>1 DEF LogInv, MetInv
  <1>4. ~Readable(r) => r \in pruned
    BY <1>3 DEF Readable, Known
  <1>5. answer' \in [row : Rows \cup {"none"}, found : BOOLEAN]
    BY <1>1 DEF Readable
  <1> QED
    BY <1>1, <1>2, <1>4, <1>5
       DEF LogInv, TypeOK, MetInv, Met, Known, PositionInv, CountInv, GoneMeansPruned

\* A page walk knows, of each row, on which side of the offset it stands.
THEOREM LogInvariance == Spec => []LogInv
  <1>1. Init => LogInv
    <2> SUFFICES ASSUME Init PROVE LogInv
      OBVIOUS
    <2>1. Cardinality(Rows) \in Nat /\ Cardinality({}) = 0
      BY LogAssumption, FS_CardinalityType, FS_EmptySet
    <2>2. TypeOK
      BY <2>1, LogAssumption DEF Init, TypeOK, Statuses, NoAnswer
    <2> QED
      BY <2>2 DEF Init, LogInv, MetInv, Met, Known, PositionInv, CountInv, GoneMeansPruned, NoAnswer
  <1>2. LogInv /\ [Next]_vars => LogInv'
    <2> SUFFICES ASSUME LogInv, [Next]_vars PROVE LogInv'
      OBVIOUS
    <2>1. ASSUME NEW r \in Rows,
                 (\E s \in Services : StoreOutbound(r, s)) \/ StoreInbound(r) \/ Move(r) \/ Prune(r)
          PROVE  LogInv'
      BY <2>1, ServiceStep
    <2>2. ASSUME NEW r \in Rows, Get(r) PROVE LogInv'
      BY <2>2, GetStep
    <2>3. CASE UNCHANGED vars
      <3>1. Matching' = Matching /\ \A q : Newer(q)' = Newer(q) /\ Ties(q)' = Ties(q)
        BY <2>3 DEF vars, table, walk, history, Matching, Matches, Newer, Ties
      <3> QED
        BY <2>3, <3>1 DEF vars, table, walk, history, LogInv, TypeOK, MetInv, Met, Known,
                          PositionInv, CountInv, GoneMeansPruned
    <2> QED
      BY <2>1, <2>2, <2>3, BeginStep, CountStep, PageStep DEF Next
  <1> QED
    BY <1>1, <1>2, PTL DEF Spec

-----------------------------------------------------------------------------
(* What a reader of the log can rely on.                                   *)

\* Types, including that a walk of k pages was shown at most k * Limit rows.
THEOREM LogTypes == Spec => []TypeOK
  BY LogInvariance, PTL DEF LogInv

\* An offset walk misses a message only behind one that left, and repeats one
\* only behind one that entered, or next to a tie.
THEOREM WalksExplained == Spec => []WalksAreExplained
  <1>1. LogInv => WalksAreExplained
    BY DEF LogInv, TypeOK, PositionInv, WalksAreExplained
  <1> QED
    BY <1>1, LogInvariance, PTL

\* While the log is quiet, a walk is the log.
THEOREM QuietWalksExact == Spec => []QuietWalksAreExact
  <1>1. LogInv => QuietWalksAreExact
    <2> SUFFICES ASSUME LogInv, pc = "look", entered \cup left = {}, \A r \in throughout : Ties(r) = {}
                 PROVE  told = throughout /\ total = Cardinality(told)
      BY DEF QuietWalksAreExact
    <2>1. Matching = throughout
      BY DEF LogInv, MetInv
    <2>2. told \subseteq throughout
      BY DEF LogInv, MetInv, Met
    <2>3. throughout \subseteq told
      BY DEF LogInv, PositionInv
    <2> QED
      BY <2>1, <2>2, <2>3 DEF LogInv, CountInv
  <1> QED
    BY <1>1, LogInvariance, PTL

\* A listed message is a 404 only once it has been pruned.
THEOREM GonePruned == Spec => []GoneMeansPruned
  BY LogInvariance, PTL DEF LogInv
=============================================================================
