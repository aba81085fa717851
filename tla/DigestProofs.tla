------------------------------ MODULE DigestProofs ------------------------------
(***************************************************************************)
(* What holds of the text of a group of any alerts up to the limit, of any    *)
(* lengths, posted any number of times.                                     *)
(***************************************************************************)
EXTENDS Digest, FiniteSetTheorems, TLAPS

\* What the loop knows: the alerts are whole until one is malformed, the
\* entries are they, sorted, and the text built so far fits its budget.
Group == alerts \in Seq(Alerts \cup {Malformed})

Sorted ==
    /\ entries \in Seq(Alerts)
    /\ \A m, n \in Positions(entries) : m < n => Priority(entries[m]) >= Priority(entries[n])

\* Every alert is among the entries.
Same == \A i \in Positions(alerts) : \E n \in Positions(entries) : entries[n] = alerts[i]

Budget ==
    /\ lines \in 0..Len(entries)
    /\ used \in Nat
    /\ lines = 0 => used = 0
    /\ lines > 0 => used - 2 \in 1..PackLimit

Told ==
    /\ body.entries \in Seq(Alerts) /\ Len(body.entries) = lines
    /\ \A n \in 1..lines : body.entries[n] = entries[n]
    /\ lines > 0
    /\ priority = Priority(entries[1])

DInv ==
    /\ pc \in {"idle", "packing", "queued", "refused"}
    /\ Group
    /\ Sorted
    /\ pc \in {"packing", "queued"} => Len(entries) \in 1..AlertLimit /\ Same
    /\ Budget
    /\ pc = "queued" => Told
    /\ pc = "refused" => ~Valid(alerts)
    /\ posts = 0 <=> pc = "idle"
    /\ posts \in 0..MaxPosts

-----------------------------------------------------------------------------
(* Sequences given as functions, and what an alert adds.                   *)

LEMMA IsSeq ==
    ASSUME NEW S, NEW n \in Nat, NEW f \in [1..n -> S]
    PROVE  f \in Seq(S) /\ Len(f) = n
  BY SMT

\* Arithmetic, apart from the records and sequences it is about.
LEMMA Cut ==
    ASSUME NEW n \in Lengths
    PROVE  (IF n > TextLimit THEN TextLimit ELSE n) \in 1..TextLimit
  BY DigestAssumption DEF TextLimit

LEMMA NotEmpty ==
    ASSUME NEW n \in Nat, n # 0, NEW k \in Nat, n <= k
    PROVE  n \in 1..k
  OBVIOUS

LEMMA Packed ==
    ASSUME NEW u \in Nat, NEW n \in 1..TextLimit, u + n <= PackLimit
    PROVE  u + n + 2 \in Nat /\ u + n + 2 - 2 \in 1..PackLimit
  BY DEF TextLimit, PackLimit

LEMMA RoomForTheSuffix ==
    ASSUME NEW j \in 1..PackLimit, NEW k \in 0..37
    PROVE  j + k \in 1..BodyLimit
  BY DEF PackLimit, BodyLimit

LEMMA HasFirst ==
    ASSUME NEW n \in 1..AlertLimit
    PROVE  1 \in 1..n /\ 0 < n
  BY DEF AlertLimit

LEMMA OneFits ==
    ASSUME NEW n \in 1..TextLimit
    PROVE  0 + n <= PackLimit
  BY DEF TextLimit, PackLimit

\* An alert's text is cut, and is never empty.
LEMMA LenBounds ==
    ASSUME NEW a \in Alerts
    PROVE  LenOf(a) \in 1..TextLimit
  <1>1. a.length \in Lengths
    BY DEF Alerts
  <1> QED
    BY <1>1, Cut DEF LenOf

LEMMA PriorityBounds ==
    ASSUME NEW a \in Alerts
    PROVE  Priority(a) \in 1..5
  BY DEF Priority, Alerts

\* An alert that is malformed is none that is not.
LEMMA MalformedIsNone == Malformed \notin Alerts
  BY DigestAssumption DEF Malformed, Alerts

\* A group that is accepted holds alerts only.
LEMMA ValidAlerts ==
    ASSUME NEW s \in Seq(Alerts \cup {Malformed}), Valid(s)
    PROVE  \A i \in Positions(s) : s[i] \in Alerts
  <1> SUFFICES ASSUME NEW i \in Positions(s) PROVE s[i] \in Alerts
    OBVIOUS
  <1>1. s[i] \in Alerts \cup {Malformed}
    BY DEF Positions
  <1>2. s[i] # Malformed
    BY DEF Valid
  <1> QED
    BY <1>1, <1>2

\* What comes first in the sort is no less urgent.
LEMMA SortsByPriority ==
    ASSUME NEW s, NEW i, NEW j, s[i] \in Alerts, s[j] \in Alerts, SortsBefore(s, i, j)
    PROVE  Priority(s[i]) >= Priority(s[j])
  <1>1. Priority(s[i]) \in 1..5 /\ Priority(s[j]) \in 1..5
    BY PriorityBounds
  <1>2. CASE Before(s[i], s[j])
    BY <1>1, <1>2 DEF Before
  <1>3. CASE ~Before(s[j], s[i])
    BY <1>1, <1>3 DEF Before
  <1> QED
    BY <1>2, <1>3 DEF SortsBefore

-----------------------------------------------------------------------------
(* The invariant.                                                          *)

\* Whatever group arrives, in whatever order.
LEMMA ReceiveStep ==
    ASSUME NEW s \in Seq(Alerts \cup {Malformed}), Receive(s), DInv, posts < MaxPosts
    PROVE  DInv'
  <1> USE DEF Positions
  <1>0. alerts' = s /\ posts' = posts + 1 /\ posts' # 0 /\ posts' \in 0..MaxPosts
    BY DigestAssumption DEF Receive, DInv
  <1>1. lines' = 0 /\ used' = 0
    BY DEF Receive
  <1>2. CASE ~Valid(s) /\ pc' = "refused" /\ entries' = <<>>
    <2>1. Sorted'
      BY <1>2 DEF Sorted
    <2>2. Budget'
      BY <1>1, <1>2 DEF Budget
    <2> QED
      BY <1>0, <1>2, <2>1, <2>2 DEF DInv, Group
  <1>3. ASSUME Valid(s), pc' = "packing",
               NEW p \in Orders(s), entries' = [n \in Positions(s) |-> s[p[n]]]
        PROVE  DInv'
    <2>0. Len(s) \in 1..AlertLimit /\ Len(s) \in Nat
      BY <1>3 DEF Valid, AlertLimit
    <2>1. /\ p \in [1..Len(s) -> 1..Len(s)]
          /\ \A i \in 1..Len(s) : \E n \in 1..Len(s) : p[n] = i
          /\ \A m, n \in 1..Len(s) : m < n => SortsBefore(s, p[m], p[n])
      BY <1>3 DEF Orders, Permutations
    <2>2. \A i \in 1..Len(s) : s[i] \in Alerts
      BY <1>3, ValidAlerts
    <2>3. entries' \in [1..Len(s) -> Alerts]
      BY <1>3, <2>1, <2>2
    <2>4. entries' \in Seq(Alerts) /\ Len(entries') = Len(s)
      BY <2>0, <2>3, IsSeq
    <2>5. Sorted'
      <3> SUFFICES ASSUME NEW m \in 1..Len(s), NEW n \in 1..Len(s), m < n
                   PROVE  Priority(s[p[m]]) >= Priority(s[p[n]])
        BY <1>3, <2>4 DEF Sorted
      <3> QED
        BY <2>1, <2>2, SortsByPriority
    <2>6. Same'
      BY <1>0, <1>3, <2>1, <2>4 DEF Same
    <2>7. Budget'
      BY <1>1, <2>0, <2>4 DEF Budget
    <2> QED
      BY <1>0, <1>3, <2>0, <2>4, <2>5, <2>6, <2>7 DEF DInv, Group
  <1> QED
    BY <1>2, <1>3 DEF Receive

LEMMA PackStep ==
    ASSUME DInv, Pack
    PROVE  DInv'
  <1>0. lines \in 0..Len(entries) /\ lines < Len(entries) /\ entries \in Seq(Alerts) /\ used \in Nat
    BY DEF DInv, Pack, Budget, Sorted
  <1>1. entries[lines + 1] \in Alerts
    BY <1>0
  <1>2. LenOf(entries[lines + 1]) \in 1..TextLimit
    BY <1>1, LenBounds
  <1>3. used + LenOf(entries[lines + 1]) <= PackLimit
    BY DEF Pack, Fits
  <1>4. Budget'
    <2> DEFINE n == LenOf(entries[lines + 1])
    <2>1. lines' = lines + 1 /\ entries' = entries /\ used' = used + n + 2
      BY DEF Pack
    <2>2. n \in 1..TextLimit /\ used + n <= PackLimit
      BY <1>2, <1>3
    <2> HIDE DEF n
    <2>3. lines' > 0 /\ lines' \in 0..Len(entries')
      BY <1>0, <2>1
    <2>4. used' \in Nat /\ used' - 2 \in 1..PackLimit
      BY <1>0, <2>1, <2>2, Packed
    <2>5. lines' # 0
      BY <2>3
    <2> QED
      BY <2>3, <2>4, <2>5 DEF Budget
  <1> QED
    BY <1>4 DEF DInv, Pack, Group, Sorted, Same

\* The first entry always fits, so that there is a text; and whatever is
\* left out, it fits the request.
LEMMA FinishStep ==
    ASSUME DInv, Finish
    PROVE  DInv'
  <1> USE DEF Positions
  <1>0. /\ lines \in 0..Len(entries) /\ used \in Nat /\ entries \in Seq(Alerts)
        /\ Len(entries) \in 1..AlertLimit
    BY DEF DInv, Finish, Budget, Sorted
  <1>1. lines > 0
    <2> SUFFICES ASSUME lines = 0 PROVE FALSE
      BY <1>0
    <2>1. used = 0
      BY DEF DInv, Budget
    <2>0. Len(entries) \in 1..AlertLimit
      BY <1>0
    <2>2. 1 \in 1..Len(entries) /\ lines < Len(entries) /\ lines + 1 = 1
      BY <2>0, HasFirst
    <2>3. entries[1] \in Alerts
      BY <1>0, <2>2
    <2>4. LenOf(entries[1]) \in 1..TextLimit
      BY <2>3, LenBounds
    <2>5. ~Fits(entries[1])
      BY <2>2 DEF Finish
    <2> QED
      BY <2>1, <2>4, <2>5, OneFits DEF Fits
  <1>2. used - 2 \in 1..PackLimit
    BY <1>1 DEF DInv, Budget
  <1>3. Suffix(Len(entries) - lines) \in 0..37
    BY <1>0 DEF Suffix, Digits, AlertLimit
  <1>4. Joined + Suffix(Len(entries) - lines) \in 1..BodyLimit
    <2>1. Joined \in 1..PackLimit
      BY <1>0, <1>1, <1>2 DEF Joined
    <2> QED
      BY <1>3, <2>1, RoomForTheSuffix
  <1>5. pc' = "queued"
    BY <1>4 DEF Finish
  <1>6. body'.entries = SubSeq(entries, 1, lines)
    BY DEF Finish
  <1>7. /\ SubSeq(entries, 1, lines) \in Seq(Alerts)
        /\ Len(SubSeq(entries, 1, lines)) = lines
        /\ \A n \in 1..lines : SubSeq(entries, 1, lines)[n] = entries[n]
    BY <1>0
  <1>8. priority' = Priority(entries[1])
    <2>1. PICK n \in 1..Len(entries) : priority' = Priority(entries[n])
      BY DEF Finish
    <2>2. Priority(entries[n]) \in 1..5 /\ Priority(entries[1]) \in 1..5
      BY <1>0, PriorityBounds DEF AlertLimit
    <2>3. Priority(entries[1]) <= priority'
      BY <1>0 DEF Finish, AlertLimit
    <2>4. n = 1 \/ Priority(entries[1]) >= Priority(entries[n])
      BY <1>0 DEF DInv, Sorted, AlertLimit
    <2> QED
      BY <2>1, <2>2, <2>3, <2>4
  <1>9. Told'
    BY <1>1, <1>6, <1>7, <1>8 DEF Told, Finish
  <1> QED
    BY <1>5, <1>9 DEF DInv, Finish, Group, Sorted, Same, Budget

\* What the loop knows holds of every group.
THEOREM DigestInvariance == Spec => []DInv
  <1>1. Init => DInv
    BY DigestAssumption DEF Init, DInv, Group, Sorted, Budget, Positions
  <1>2. DInv /\ [Next]_vars => DInv'
    <2> SUFFICES ASSUME DInv, [Next]_vars PROVE DInv'
      OBVIOUS
    <2>1. CASE Post
      <3>1. PICK n \in 0..MaxAlerts : \E s \in [1..n -> Alerts \cup {Malformed}] : Receive(s)
        BY <2>1 DEF Post
      <3>2. PICK s \in [1..n -> Alerts \cup {Malformed}] : Receive(s)
        BY <3>1
      <3>3. n \in Nat
        BY DigestAssumption
      <3>4. s \in Seq(Alerts \cup {Malformed})
        BY <3>2, <3>3, IsSeq
      <3> QED
        BY <2>1, <3>2, <3>4, ReceiveStep DEF Post
    <2>2. CASE Repost
      <3>1. PICK p \in Permutations(alerts) : Receive([i \in Positions(alerts) |-> alerts[p[i]]])
        BY <2>2 DEF Repost
      <3>2. alerts \in Seq(Alerts \cup {Malformed}) /\ Len(alerts) \in Nat
        BY DEF DInv, Group
      <3>3. [i \in Positions(alerts) |-> alerts[p[i]]] \in [1..Len(alerts) -> Alerts \cup {Malformed}]
        BY <3>1, <3>2 DEF Permutations, Positions
      <3>4. [i \in Positions(alerts) |-> alerts[p[i]]] \in Seq(Alerts \cup {Malformed})
        BY <3>2, <3>3, IsSeq
      <3>5. posts < MaxPosts
        BY <2>2, DigestAssumption DEF Repost
      <3> QED
        BY <3>1, <3>4, <3>5, ReceiveStep
    <2>3. CASE Pack
      BY <2>3, PackStep
    <2>4. CASE Finish
      BY <2>4, FinishStep
    <2>5. CASE UNCHANGED vars
      BY <2>5 DEF vars, DInv, Group, Sorted, Same, Budget, Told
    <2> QED
      BY <2>1, <2>2, <2>3, <2>4, <2>5 DEF Next
  <1> QED
    BY <1>1, <1>2, PTL DEF Spec

-----------------------------------------------------------------------------
(* Types.                                                                  *)

\* A checked group keeps its length when it is sorted.
LEMMA ReceiveTypes ==
    ASSUME NEW s \in Seq(Alerts \cup {Malformed}), Receive(s), DInv', posts' \in 0..MaxPosts
    PROVE  TypeOK'
  <1> USE DEF Positions
  <1>1. /\ entries' \in Seq(Alerts) /\ lines' \in 0..Len(entries') /\ used' \in Nat
        /\ pc' \in {"idle", "packing", "queued", "refused"}
        /\ pc' \in {"packing", "queued"} => Len(entries') \in 1..AlertLimit
    BY DEF DInv, Sorted, Budget
  <1>2. body' \in [entries : Seq(Alerts), length : Nat] /\ priority' \in 0..5
    BY DEF Receive, Nothing
  <1>3. pc' \in {"packing", "queued"} => Len(entries') = Len(alerts')
    <2> SUFFICES ASSUME pc' # "refused" PROVE Len(entries') = Len(s)
      BY DEF Receive
    <2>1. PICK p \in Orders(s) : entries' = [n \in Positions(s) |-> s[p[n]]]
      BY DEF Receive
    <2>2. p \in [1..Len(s) -> 1..Len(s)] /\ Len(s) \in Nat
      BY <2>1 DEF Orders, Permutations
    <2>3. entries' \in [1..Len(s) -> Alerts \cup {Malformed}]
      BY <2>1, <2>2
    <2> QED
      BY <2>2, <2>3, IsSeq
  <1> QED
    BY <1>1, <1>2, <1>3 DEF TypeOK, Receive

\* Types, including that a text's entries are as many as its lines say and the
\* sorted group as many as the group.
THEOREM DigestTypes == Spec => []TypeOK
  <1>1. Init => TypeOK
    BY DigestAssumption DEF Init, TypeOK, Nothing
  <1>2. TypeOK /\ DInv /\ DInv' /\ [Next]_vars => TypeOK'
    <2> SUFFICES ASSUME TypeOK, DInv, DInv', [Next]_vars PROVE TypeOK'
      OBVIOUS
    <2>0. alerts' \in Seq(Alerts \cup {Malformed}) /\ posts' \in 0..MaxPosts
      BY DEF DInv, Group
    <2>1. CASE Post
      BY <2>0, <2>1, ReceiveTypes DEF Post, Receive
    <2>2. CASE Repost
      BY <2>0, <2>2, ReceiveTypes DEF Repost, Receive
    <2>3. CASE Pack
      BY <2>3 DEF Pack, TypeOK, DInv, Budget
    <2>4. CASE Finish
      <3> USE DEF Positions
      <3>1. lines \in 0..Len(entries) /\ Len(entries) \in 1..AlertLimit /\ entries \in Seq(Alerts)
        BY <2>4 DEF DInv, Finish, Budget, Sorted
      <3>2. SubSeq(entries, 1, lines) \in Seq(Alerts)
        BY <3>1
      <3>3. used \in Nat /\ (lines > 0 => used - 2 \in Nat)
        BY DEF DInv, Budget, PackLimit
      <3>4. Joined + Suffix(Len(entries) - lines) \in Nat
        BY <3>1, <3>3 DEF Joined, Suffix, Digits, AlertLimit
      <3>5. \A n \in 1..Len(entries) : Priority(entries[n]) \in 0..5
        BY <3>1, PriorityBounds
      <3>6. body' \in [entries : Seq(Alerts), length : Nat] /\ priority' \in 0..5
        BY <2>4, <3>2, <3>4, <3>5 DEF Finish
      <3> QED
        BY <2>4, <3>6 DEF Finish, TypeOK
    <2>5. CASE UNCHANGED vars
      BY <2>5 DEF vars, TypeOK
    <2> QED
      BY <2>1, <2>2, <2>3, <2>4, <2>5 DEF Next
  <1> QED
    BY <1>1, <1>2, DigestInvariance, PTL DEF Spec

-----------------------------------------------------------------------------
(* What the text promises.                                                 *)

\* Whatever the lengths, the cut, the packing limit and the line that counts
\* the rest keep the text within SendRequest's max_length.
THEOREM NeverTooLong == Spec => []WellFormedIsQueued
  <1>1. DInv => WellFormedIsQueued
    <2> SUFFICES ASSUME DInv, pc = "refused", WellFormed PROVE FALSE
      BY DEF WellFormedIsQueued
    <2>1. ~Valid(alerts)
      BY DEF DInv
    <2>2. alerts \in Seq(Alerts) /\ Len(alerts) \in 1..AlertLimit
      <3>1. alerts \in Seq(Alerts) /\ alerts # <<>> /\ Len(alerts) <= AlertLimit
        BY DEF WellFormed
      <3>2. Len(alerts) \in Nat /\ Len(alerts) # 0
        BY <3>1
      <3>3. AlertLimit \in Nat
        BY DEF AlertLimit
      <3> QED
        BY <3>1, <3>2, <3>3, NotEmpty
    <2>3. \A i \in Positions(alerts) : alerts[i] \in Alerts
      BY <2>2 DEF Positions
    <2> QED
      BY <2>1, <2>2, <2>3, MalformedIsNone DEF Valid
  <1> QED
    BY <1>1, DigestInvariance, PTL

\* The first entry, one of the most urgent, is in every text.
THEOREM UrgentNamed == Spec => []MostUrgentIsNamed
  <1>1. DInv => MostUrgentIsNamed
    BY DEF DInv, Told, Budget, MostUrgentIsNamed, Positions
  <1> QED
    BY <1>1, DigestInvariance, PTL

\* The packing stops at the first entry that does not fit, so what is told
\* is a prefix of the sorted group.
THEOREM UrgentFirst == Spec => []NothingUrgentIsHidden
  <1>1. DInv => NothingUrgentIsHidden
    <2> SUFFICES ASSUME DInv, pc = "queued", NEW i \in Positions(alerts)
                 PROVE  \/ \E n \in Positions(body.entries) : body.entries[n] = alerts[i]
                        \/ \A n \in Positions(body.entries) :
                              Priority(body.entries[n]) >= Priority(alerts[i])
      BY DEF NothingUrgentIsHidden
    <2> USE DEF Positions
    <2>1. PICK k \in 1..Len(entries) : entries[k] = alerts[i]
      BY DEF DInv, Same
    <2>2. Len(body.entries) = lines /\ \A n \in 1..lines : body.entries[n] = entries[n]
      BY DEF DInv, Told
    <2>3. lines \in 0..Len(entries)
      BY DEF DInv, Budget
    <2>4. CASE k <= lines
      BY <2>1, <2>2, <2>3, <2>4
    <2>5. CASE k > lines
      BY <2>1, <2>2, <2>3, <2>5 DEF DInv, Sorted
    <2> QED
      BY <2>3, <2>4, <2>5
  <1> QED
    BY <1>1, DigestInvariance, PTL

-----------------------------------------------------------------------------
(* The order of the sort, and that it leaves no choice.                    *)

\* An identity as a number: by name, the firing one first.
Rank(a) == 2 * a.name + (IF a.firing THEN 0 ELSE 1)

LEMMA RankTells ==
    ASSUME NEW a \in Alerts, NEW b \in Alerts
    PROVE  /\ Rank(a) \in Nat /\ Rank(b) \in Nat
           /\ IdentityBefore(a, b) <=> Rank(a) < Rank(b)
           /\ Rank(a) = Rank(b) => Identity(a) = Identity(b)
  <1>1. a.name \in Nat /\ b.name \in Nat
    BY DigestAssumption DEF Alerts
  <1>2. a.firing \in BOOLEAN /\ b.firing \in BOOLEAN
    BY DEF Alerts
  <1>3. CASE a.firing /\ b.firing
    <2>1. Rank(a) = 2 * a.name /\ Rank(b) = 2 * b.name
      BY <1>1, <1>3 DEF Rank
    <2>2. IdentityBefore(a, b) <=> a.name < b.name
      BY <1>3 DEF IdentityBefore
    <2>3. a.firing = b.firing
      BY <1>2, <1>3
    <2> QED
      BY <1>1, <2>1, <2>2, <2>3 DEF Identity
  <1>4. CASE a.firing /\ ~b.firing
    <2>1. Rank(a) = 2 * a.name /\ Rank(b) = 2 * b.name + 1
      BY <1>1, <1>4 DEF Rank
    <2>2. IdentityBefore(a, b) <=> a.name < b.name \/ a.name = b.name
      BY <1>4 DEF IdentityBefore
    <2> QED
      BY <1>1, <2>1, <2>2
  <1>5. CASE ~a.firing /\ b.firing
    <2>1. Rank(a) = 2 * a.name + 1 /\ Rank(b) = 2 * b.name
      BY <1>1, <1>5 DEF Rank
    <2>2. IdentityBefore(a, b) <=> a.name < b.name
      BY <1>5 DEF IdentityBefore
    <2> QED
      BY <1>1, <2>1, <2>2
  <1>6. CASE ~a.firing /\ ~b.firing
    <2>1. Rank(a) = 2 * a.name + 1 /\ Rank(b) = 2 * b.name + 1
      BY <1>1, <1>6 DEF Rank
    <2>2. IdentityBefore(a, b) <=> a.name < b.name
      BY <1>6 DEF IdentityBefore
    <2>3. a.firing = b.firing
      BY <1>2, <1>6
    <2> QED
      BY <1>1, <2>1, <2>2, <2>3 DEF Identity
  <1> QED
    BY <1>2, <1>3, <1>4, <1>5, <1>6

\* The sort key is a strict weak order, and ties have one identity.
LEMMA BeforeIsAnOrder ==
    ASSUME NEW a \in Alerts, NEW b \in Alerts, NEW c \in Alerts
    PROVE  /\ ~Before(a, a)
           /\ Before(a, b) => ~Before(b, a)
           /\ Before(a, b) /\ ~Before(a, c) => Before(c, b)
           /\ ~Before(a, b) /\ ~Before(b, a) => Identity(a) = Identity(b)
  <1>1. Priority(a) \in 1..5 /\ Priority(b) \in 1..5 /\ Priority(c) \in 1..5
    BY PriorityBounds
  <1>2. Rank(a) \in Nat /\ Rank(b) \in Nat /\ Rank(c) \in Nat
    BY RankTells
  <1>3. /\ IdentityBefore(a, a) <=> Rank(a) < Rank(a)
        /\ IdentityBefore(a, b) <=> Rank(a) < Rank(b)
        /\ IdentityBefore(b, a) <=> Rank(b) < Rank(a)
        /\ IdentityBefore(a, c) <=> Rank(a) < Rank(c)
        /\ IdentityBefore(c, b) <=> Rank(c) < Rank(b)
    BY RankTells
  <1>4. Rank(a) = Rank(b) => Identity(a) = Identity(b)
    BY RankTells
  <1> QED
    BY <1>1, <1>2, <1>3, <1>4 DEF Before

\* Nothing stands before what is sorted ahead of it.
Ordered(e) == \A m, n \in 1..Len(e) : m < n => ~Before(e[n], e[m])

\* The alerts of s are those of e, in an order of its own.
Rearranges(s, e) ==
    /\ Len(s) = Len(e)
    /\ \E p \in [1..Len(e) -> 1..Len(e)] :
          /\ \A k \in 1..Len(e) : \E i \in 1..Len(e) : p[i] = k
          /\ \A i \in 1..Len(e) : s[i] = e[p[i]]

\* What reaches every position reaches it once.
LEMMA OntoIsOneToOne ==
    ASSUME NEW n \in Nat, NEW p \in [1..n -> 1..n],
           \A k \in 1..n : \E i \in 1..n : p[i] = k
    PROVE  \A i, j \in 1..n : p[i] = p[j] => i = j
  <1>1. IsFiniteSet(1..n)
    BY FS_Interval
  <1>2. p \in Surjection(1..n, 1..n)
    BY DEF Surjection
  <1>3. p \in Injection(1..n, 1..n)
    BY <1>1, <1>2, FS_SurjSameCardinalityImpliesInj
  <1> QED
    BY <1>3 DEF Injection, IsInjective

LEMMA CountTo ==
    ASSUME NEW m \in Nat
    PROVE  IsFiniteSet(1..m) /\ Cardinality(1..m) = m
  <1>1. IsFiniteSet(1..m) /\ Cardinality(1..m) = IF 1 > m THEN 0 ELSE m - 1 + 1
    BY FS_Interval
  <1> QED
    BY <1>1

\* Two of k alerts share a position, when there are less than k.
LEMMA NoRoomAhead ==
    ASSUME NEW k \in Nat, k >= 1, NEW h \in [1..k -> 1..k - 1]
    PROVE  \E x, y \in 1..k : x # y /\ h[x] = h[y]
  <1> DEFINE S == 1..k
             T == 1..k - 1
  <1>1. IsFiniteSet(S) /\ Cardinality(S) = k
    BY CountTo
  <1>2. IsFiniteSet(T) /\ Cardinality(T) = k - 1
    <2>1. k - 1 \in Nat
      OBVIOUS
    <2> QED
      BY <2>1, CountTo
  <1>3. Cardinality(T) < Cardinality(S)
    BY <1>1, <1>2
  <1>4. h \in [S -> T]
    OBVIOUS
  <1> HIDE DEF S, T
  <1>5. \E x, y \in S : x # y /\ h[x] = h[y]
    BY <1>1, <1>2, <1>3, <1>4, FS_PigeonHole
  <1> QED
    BY <1>5 DEF S

\* Two sorted sequences of the same alerts: e[k] does not stand before f[k],
\* or k alerts of e would have to find room ahead of it in f.
LEMMA NoneEarlier ==
    ASSUME NEW n \in Nat, NEW e \in [1..n -> Alerts], NEW f \in [1..n -> Alerts],
           \A i, j \in 1..n : i < j => ~Before(e[j], e[i]),
           \A i, j \in 1..n : i < j => ~Before(f[j], f[i]),
           NEW g \in [1..n -> 1..n], \A i, j \in 1..n : g[i] = g[j] => i = j,
           \A i \in 1..n : f[g[i]] = e[i],
           NEW k \in 1..n
    PROVE  ~Before(e[k], f[k])
  <1> SUFFICES ASSUME Before(e[k], f[k]) PROVE FALSE
    OBVIOUS
  <1> DEFINE h == [i \in 1..k |-> g[i]]
  <1>1. ASSUME NEW i \in 1..k PROVE g[i] \in 1..k - 1
    <2>1. i \in 1..n /\ g[i] \in 1..n
      OBVIOUS
    <2>2. e[i] \in Alerts /\ e[k] \in Alerts /\ f[k] \in Alerts
      BY <2>1
    <2>3. ~Before(e[k], e[i])
      <3>1. CASE i = k
        BY <2>2, <3>1, BeforeIsAnOrder
      <3>2. CASE i < k
        BY <2>1, <3>2
      <3> QED
        BY <2>1, <3>1, <3>2
    <2>4. Before(e[i], f[k])
      BY <2>2, <2>3, BeforeIsAnOrder
    <2>5. f[g[i]] = e[i]
      BY <2>1
    <2>6. g[i] # k
      BY <2>2, <2>4, <2>5, BeforeIsAnOrder
    <2>7. ~(k < g[i])
      BY <2>1, <2>4, <2>5
    <2> QED
      BY <2>1, <2>6, <2>7
  <1>2. h \in [1..k -> 1..k - 1]
    BY <1>1
  <1>3. k \in Nat /\ k >= 1
    OBVIOUS
  <1>7. \E x, y \in 1..k : x # y /\ h[x] = h[y]
    <2> HIDE DEF h
    <2> QED
      BY <1>2, <1>3, NoRoomAhead
  <1> QED
    BY <1>7

\* A group is sorted in one way, but for alerts of one identity.
LEMMA SortsTheSame ==
    ASSUME NEW e \in Seq(Alerts), NEW f \in Seq(Alerts), Ordered(e), Ordered(f), Rearranges(f, e)
    PROVE  Len(f) = Len(e) /\ \A k \in 1..Len(e) : Identity(f[k]) = Identity(e[k])
  <1> DEFINE n == Len(e)
  <1>1. n \in Nat /\ Len(f) = n
    BY DEF Rearranges
  <1>2. PICK p \in [1..n -> 1..n] :
           (\A k \in 1..n : \E i \in 1..n : p[i] = k) /\ \A i \in 1..n : f[i] = e[p[i]]
    BY DEF Rearranges
  <1> DEFINE g == [k \in 1..n |-> CHOOSE i \in 1..n : p[i] = k]
  <1>3. \A k \in 1..n : g[k] \in 1..n /\ p[g[k]] = k
    BY <1>2
  <1>4. g \in [1..n -> 1..n]
    BY <1>3
  <1> HIDE DEF g, n
  <1>5. \A i, j \in 1..n : g[i] = g[j] => i = j
    BY <1>3
  <1>6. \A i \in 1..n : f[g[i]] = e[i]
    BY <1>2, <1>3
  <1>7. \A i, j \in 1..n : p[i] = p[j] => i = j
    <2>1. \A k \in 1..n : \E i \in 1..n : p[i] = k
      BY <1>2
    <2> QED
      BY <1>1, <2>1, OntoIsOneToOne
  <1>8. e \in [1..n -> Alerts] /\ f \in [1..n -> Alerts]
    BY <1>1 DEF n
  <1>9. /\ \A i, j \in 1..n : i < j => ~Before(e[j], e[i])
        /\ \A i, j \in 1..n : i < j => ~Before(f[j], f[i])
    BY <1>1 DEF Ordered, n
  <1>10. ASSUME NEW k \in 1..n PROVE Identity(f[k]) = Identity(e[k])
    <2>1. ~Before(e[k], f[k])
      BY <1>1, <1>4, <1>5, <1>6, <1>8, <1>9, NoneEarlier
    <2>2. \A i \in 1..n : e[p[i]] = f[i]
      BY <1>2
    <2>3. ~Before(f[k], e[k])
      BY <1>1, <1>7, <1>8, <1>9, <2>2, NoneEarlier
    <2>4. e[k] \in Alerts /\ f[k] \in Alerts
      BY <1>8
    <2> QED
      BY <2>1, <2>3, <2>4, BeforeIsAnOrder
  <1> QED
    BY <1>1, <1>10 DEF n

\* An order of an order is an order.
LEMMA RearrangesAgain ==
    ASSUME NEW r, NEW s, NEW e, Len(e) \in Nat, Rearranges(r, s), Rearranges(s, e)
    PROVE  Rearranges(r, e)
  <1> DEFINE n == Len(e)
  <1>1. n \in Nat /\ Len(s) = n /\ Len(r) = n
    BY DEF Rearranges
  <1>2. PICK p \in [1..n -> 1..n] :
           (\A k \in 1..n : \E i \in 1..n : p[i] = k) /\ \A i \in 1..n : s[i] = e[p[i]]
    BY DEF Rearranges
  <1>3. PICK q \in [1..n -> 1..n] :
           (\A k \in 1..n : \E i \in 1..n : q[i] = k) /\ \A i \in 1..n : r[i] = s[q[i]]
    <2>1. \E q \in [1..Len(s) -> 1..Len(s)] :
             /\ \A k \in 1..Len(s) : \E i \in 1..Len(s) : q[i] = k
             /\ \A i \in 1..Len(s) : r[i] = s[q[i]]
      BY DEF Rearranges
    <2>2. Len(s) = n
      BY <1>1
    <2> HIDE DEF n
    <2> QED
      BY <2>1, <2>2
  <1> DEFINE pq == [i \in 1..n |-> p[q[i]]]
  <1>4. pq \in [1..n -> 1..n]
    OBVIOUS
  <1>5. \A k \in 1..n : \E i \in 1..n : pq[i] = k
    <2> SUFFICES ASSUME NEW k \in 1..n PROVE \E i \in 1..n : pq[i] = k
      OBVIOUS
    <2>1. PICK j \in 1..n : p[j] = k
      BY <1>2
    <2>2. PICK i \in 1..n : q[i] = j
      BY <1>3
    <2> QED
      BY <2>1, <2>2
  <1>6. \A i \in 1..n : r[i] = e[pq[i]]
    BY <1>2, <1>3
  <1> HIDE DEF pq
  <1> QED
    BY <1>1, <1>4, <1>5, <1>6 DEF Rearranges

\* The group as posted and the group as sorted are orders of one another.
LEMMA SortGives ==
    ASSUME NEW s \in Seq(Alerts \cup {Malformed}), Valid(s), NEW p \in Orders(s),
           NEW e, e = [n \in Positions(s) |-> s[p[n]]]
    PROVE  /\ e \in Seq(Alerts) /\ Len(e) = Len(s)
           /\ Ordered(e) /\ Rearranges(e, s) /\ Rearranges(s, e)
  <1> DEFINE n == Len(s)
             q == [k \in 1..n |-> CHOOSE i \in 1..n : p[i] = k]
  <1>1. n \in Nat
    OBVIOUS
  <1>2. /\ p \in [1..n -> 1..n]
        /\ \A k \in 1..n : \E i \in 1..n : p[i] = k
        /\ \A i, j \in 1..n : i < j => SortsBefore(s, p[i], p[j])
    BY DEF Orders, Permutations, Positions
  <1>3. \A i \in 1..n : s[i] \in Alerts
    BY ValidAlerts DEF Positions
  <1>4. e \in [1..n -> Alerts] /\ \A i \in 1..n : e[i] = s[p[i]]
    BY <1>2, <1>3 DEF Positions
  <1>5. e \in Seq(Alerts) /\ Len(e) = n
    BY <1>1, <1>4, IsSeq
  <1>6. Ordered(e)
    <2> SUFFICES ASSUME NEW i \in 1..n, NEW j \in 1..n, i < j PROVE ~Before(e[j], e[i])
      BY <1>5 DEF Ordered
    <2>1. SortsBefore(s, p[i], p[j])
      BY <1>2
    <2>2. e[i] = s[p[i]] /\ e[j] = s[p[j]] /\ e[i] \in Alerts /\ e[j] \in Alerts
      BY <1>4
    <2>3. Before(e[i], e[j]) \/ ~Before(e[j], e[i])
      BY <2>1, <2>2 DEF SortsBefore
    <2> QED
      BY <2>2, <2>3, BeforeIsAnOrder
  <1>7. Rearranges(e, s)
    BY <1>2, <1>4, <1>5 DEF Rearranges
  <1>8. \A k \in 1..n : q[k] \in 1..n /\ p[q[k]] = k
    BY <1>2
  <1>9. \A i, j \in 1..n : p[i] = p[j] => i = j
    <2>1. p \in [1..n -> 1..n] /\ \A k \in 1..n : \E i \in 1..n : p[i] = k
      BY <1>2
    <2> QED
      BY <1>1, <2>1, OntoIsOneToOne
  <1>10. q \in [1..n -> 1..n]
    BY <1>8
  <1> HIDE DEF q
  <1>11. \A k \in 1..n : \E i \in 1..n : q[i] = k
    <2> SUFFICES ASSUME NEW k \in 1..n PROVE \E i \in 1..n : q[i] = k
      OBVIOUS
    <2>1. p[k] \in 1..n
      BY <1>2
    <2>2. q[p[k]] \in 1..n /\ p[q[p[k]]] = p[k]
      BY <1>8, <2>1
    <2>3. q[p[k]] = k
      BY <1>9, <2>2
    <2> QED
      BY <2>1, <2>3
  <1>12. \A i \in 1..n : s[i] = e[q[i]]
    BY <1>4, <1>8
  <1>13. Rearranges(s, e)
    <2>1. Len(e) = n
      BY <1>5
    <2>2. /\ q \in [1..Len(e) -> 1..Len(e)]
          /\ \A k \in 1..Len(e) : \E i \in 1..Len(e) : q[i] = k
          /\ \A i \in 1..Len(e) : s[i] = e[q[i]]
      <3> HIDE DEF n
      <3> QED
        BY <1>10, <1>11, <1>12, <2>1
    <2> QED
      BY <2>1, <2>2 DEF Rearranges
  <1> QED
    BY <1>5, <1>6, <1>7, <1>13

\* When no two alerts of the group share an identity, there is one order.
LEMMA DistinctSortTheSame ==
    ASSUME NEW s, NEW e \in Seq(Alerts), NEW f \in Seq(Alerts),
           Rearranges(s, e), Rearranges(f, s),
           \A k \in 1..Len(e) : Identity(f[k]) = Identity(e[k]),
           \A i, j \in Positions(s) : Identity(s[i]) = Identity(s[j]) => i = j
    PROVE  f = e
  <1> DEFINE n == Len(e)
  <1>1. n \in Nat /\ Len(s) = n /\ Len(f) = n
    BY DEF Rearranges
  <1>2. PICK p \in [1..n -> 1..n] :
           (\A k \in 1..n : \E i \in 1..n : p[i] = k) /\ \A i \in 1..n : s[i] = e[p[i]]
    BY DEF Rearranges
  <1>3. PICK q \in [1..n -> 1..n] : \A i \in 1..n : f[i] = s[q[i]]
    BY <1>1 DEF Rearranges
  <1>4. ASSUME NEW k \in 1..n PROVE f[k] = e[k]
    <2>1. PICK i \in 1..n : p[i] = k
      BY <1>2
    <2>2. s[i] = e[k]
      BY <1>2, <2>1
    <2>3. q[k] \in 1..n /\ f[k] = s[q[k]]
      BY <1>3
    <2>4. Identity(s[q[k]]) = Identity(s[i])
      BY <2>2, <2>3
    <2>5. q[k] = i
      BY <1>1, <2>3, <2>4 DEF Positions
    <2> QED
      BY <2>2, <2>3, <2>5
  <1> QED
    BY <1>1, <1>4

-----------------------------------------------------------------------------
(* The first text of a group, kept in mind while the group is repeated.     *)

\* A packing of L entries of e: U[m] characters are used after m of them.
Packing(e, L, U) ==
    /\ L \in 0..Len(e) /\ U \in [0..L -> Nat] /\ U[0] = 0
    /\ \A m \in 0..L - 1 :
          U[m] + LenOf(e[m + 1]) <= PackLimit /\ U[m + 1] = U[m] + LenOf(e[m + 1]) + 2

IsFull(e, L, U) == L < Len(e) => U[L] + LenOf(e[L + 1]) > PackLimit

IsFirst == posts = 1 /\ pc = "packing"

\* e was the group when it was sorted first, and L of it were told, as U went;
\* the group as it is now is an order of it.
FirstWas(e, L, U) ==
    /\ e \in Seq(Alerts) /\ Ordered(e) /\ Rearranges(alerts, e) /\ Packing(e, L, U)
    /\ IsFirst => e = entries /\ L = lines /\ U[L] = used
    /\ ~IsFirst => /\ IsFull(e, L, U)
                   /\ first.key = [n \in 1..Len(e) |-> Identity(e[n])]
                   /\ first.entries = SubSeq(e, 1, L)

\* What is sorted and told now, beside it.
NowIs(e, L, U) ==
    /\ Len(entries) = Len(e) /\ \A k \in 1..Len(e) : Identity(entries[k]) = Identity(e[k])
    /\ AllDistinct => entries = e /\ lines <= L /\ used = U[lines]
    /\ pc = "queued" => /\ key = [n \in Positions(entries) |-> Identity(entries[n])]
                        /\ body.entries = SubSeq(entries, 1, lines)
                        /\ AllDistinct => lines = L

RetryInv ==
    /\ pc \in {"packing", "queued"} => Valid(alerts)
    /\ posts > 0 /\ Valid(alerts) => \E e, L, U : FirstWas(e, L, U) /\ NowIs(e, L, U)

\* A group repeated in another order is as valid as it was.
LEMMA ValidStays ==
    ASSUME NEW s, NEW t, Len(t) \in Nat, Rearranges(s, t), Valid(s)
    PROVE  Valid(t)
  <1>1. Len(s) = Len(t) /\ Len(t) \in 1..AlertLimit
    BY DEF Rearranges, Valid
  <1>2. PICK p \in [1..Len(t) -> 1..Len(t)] :
           /\ \A k \in 1..Len(t) : \E i \in 1..Len(t) : p[i] = k
           /\ \A i \in 1..Len(t) : s[i] = t[p[i]]
    BY DEF Rearranges
  <1>3. ASSUME NEW k \in 1..Len(t) PROVE t[k] # Malformed
    <2>1. PICK i \in 1..Len(t) : p[i] = k
      BY <1>2
    <2>2. s[i] = t[k]
      BY <1>2, <2>1
    <2>3. s[i] # Malformed
      BY <1>1 DEF Valid, Positions
    <2> QED
      BY <2>2, <2>3
  <1> QED
    BY <1>1, <1>3 DEF Valid, Positions

\* A group arrives, for the first time or again in an order of its own.
LEMMA ReceiveRetry ==
    ASSUME DInv, RetryInv, NEW s \in Seq(Alerts \cup {Malformed}), Receive(s),
           posts > 0 => Rearranges(s, alerts) /\ pc # "packing"
    PROVE  RetryInv'
  <1>1. /\ alerts' = s /\ posts' = posts + 1 /\ posts \in Nat
        /\ lines' = 0 /\ used' = 0 /\ first' = first
    BY DEF Receive, DInv
  <1>2. Valid(alerts)' <=> Valid(s)
    BY <1>1 DEF Valid, Positions
  <1>3. CASE ~Valid(s)
    BY <1>2, <1>3 DEF Receive, RetryInv
  <1>4. CASE Valid(s)
    <2>1. pc' = "packing"
      BY <1>4 DEF Receive
    <2>2. PICK p \in Orders(s) : entries' = [n \in Positions(s) |-> s[p[n]]]
      BY <1>4 DEF Receive
    <2>3. /\ entries' \in Seq(Alerts) /\ Len(entries') = Len(s)
          /\ Ordered(entries') /\ Rearranges(entries', s) /\ Rearranges(s, entries')
      BY <1>4, <2>2, SortGives
    <2>4. CASE posts = 0
      <3> DEFINE U == [m \in 0..0 |-> 0]
      <3>1. U \in [0..0 -> Nat] /\ U[0] = 0
        OBVIOUS
      <3> HIDE DEF U
      <3>2. PICK e : e = entries'
        OBVIOUS
      <3>3. Packing(e, 0, U)
        <4>1. 0 \in 0..Len(e)
          BY <2>3, <3>2
        <4> QED
          BY <3>1, <4>1 DEF Packing
      <3>4. posts' = 1 /\ IsFirst'
        BY <1>1, <2>1, <2>4 DEF IsFirst
      <3>5. FirstWas(e, 0, U)'
        <4>1. e \in Seq(Alerts) /\ Ordered(e) /\ Rearranges(alerts, e)' /\ e = entries'
          <5>1. e \in Seq(Alerts) /\ Ordered(e) /\ Rearranges(s, e)
            BY <2>3, <3>2
          <5>2. Rearranges(alerts, e)'
            BY <1>1, <5>1 DEF Rearranges
          <5> QED
            BY <3>2, <5>1, <5>2
        <4>2. 0 = lines' /\ U[0] = used'
          BY <1>1, <3>1
        <4> QED
          BY <3>3, <3>4, <4>1, <4>2 DEF FirstWas, Ordered, Packing
      <3>6. NowIs(e, 0, U)'
        <4>1. 0 <= 0
          OBVIOUS
        <4> QED
          BY <1>1, <2>1, <3>1, <3>2, <4>1 DEF NowIs
      <3> QED
        BY <1>2, <1>4, <3>5, <3>6 DEF RetryInv
    <2>5. CASE posts > 0
      <3>1. Len(alerts) \in Nat
        BY DEF DInv, Group
      <3>2. Valid(alerts)
        BY <1>4, <2>5, <3>1, ValidStays
      <3>3. PICK e, L, U : FirstWas(e, L, U) /\ NowIs(e, L, U)
        BY <2>5, <3>2 DEF RetryInv
      <3>4. ~IsFirst /\ ~IsFirst'
        BY <1>1, <2>5 DEF IsFirst
      <3>5. e \in Seq(Alerts) /\ Ordered(e) /\ Rearranges(alerts, e) /\ Packing(e, L, U)
        BY <3>3 DEF FirstWas
      <3>6. Rearranges(s, e)
        BY <2>5, <3>5, RearrangesAgain
      <3>7. Rearranges(entries', e)
        BY <2>3, <3>5, <3>6, RearrangesAgain
      <3>8. Len(entries') = Len(e) /\ \A k \in 1..Len(e) : Identity(entries'[k]) = Identity(e[k])
        BY <2>3, <3>5, <3>7, SortsTheSame
      <3>9. AllDistinct' => entries' = e
        <4>1. AllDistinct' <=> \A i, j \in Positions(s) : Identity(s[i]) = Identity(s[j]) => i = j
          BY <1>1 DEF AllDistinct, Positions
        <4> QED
          BY <2>3, <3>5, <3>6, <3>8, <4>1, DistinctSortTheSame
      <3>10. L \in Nat /\ U[0] = 0
        BY <3>5 DEF Packing
      <3>11. FirstWas(e, L, U)'
        <4>1. /\ IsFull(e, L, U)
              /\ first.key = [n \in 1..Len(e) |-> Identity(e[n])]
              /\ first.entries = SubSeq(e, 1, L)
          BY <3>3, <3>4 DEF FirstWas
        <4>2. Rearranges(alerts, e)'
          BY <1>1, <3>6 DEF Rearranges
        <4> QED
          BY <1>1, <3>4, <3>5, <4>1, <4>2 DEF FirstWas, Ordered, Packing, IsFull
      <3>12. NowIs(e, L, U)'
        BY <1>1, <2>1, <3>8, <3>9, <3>10 DEF NowIs
      <3> QED
        BY <1>2, <1>4, <3>11, <3>12 DEF RetryInv
    <2> QED
      BY <1>1, <2>4, <2>5
  <1> QED
    BY <1>3, <1>4

\* The packing moves on: for the first time it makes the record, and again it
\* follows it.
LEMMA PackRetry ==
    ASSUME DInv, RetryInv, Pack
    PROVE  RetryInv'
  <1> DEFINE a == entries[lines + 1]
  <1>1. /\ pc = "packing" /\ lines < Len(entries) /\ used + LenOf(a) <= PackLimit
        /\ lines' = lines + 1 /\ used' = used + LenOf(a) + 2
        /\ UNCHANGED <<pc, alerts, entries, body, key, priority, first, posts>>
    BY DEF Pack, Fits
  <1>2. lines \in Nat /\ used \in Nat /\ entries \in Seq(Alerts) /\ Len(entries) \in Nat
    BY DEF DInv, Budget, Sorted
  <1>3. LenOf(a) \in Nat
    <2>1. a \in Alerts
      BY <1>1, <1>2
    <2> QED
      BY <2>1, LenBounds
  <1>4. Valid(alerts) /\ Valid(alerts)' /\ posts > 0 /\ (AllDistinct' <=> AllDistinct)
    BY <1>1 DEF RetryInv, DInv, Valid, AllDistinct, Positions
  <1>5. PICK e, L, U : FirstWas(e, L, U) /\ NowIs(e, L, U)
    BY <1>4 DEF RetryInv
  <1>6. /\ e \in Seq(Alerts) /\ Len(e) \in Nat /\ L \in 0..Len(e) /\ L \in Nat
        /\ U \in [0..L -> Nat] /\ U[0] = 0
        /\ \A m \in 0..L - 1 :
              U[m] + LenOf(e[m + 1]) <= PackLimit /\ U[m + 1] = U[m] + LenOf(e[m + 1]) + 2
    BY <1>5 DEF FirstWas, Packing
  <1>7. IsFirst' <=> IsFirst
    BY <1>1 DEF IsFirst
  <1>8. Ordered(e)' /\ Rearranges(alerts, e)'
    BY <1>1, <1>5 DEF FirstWas, Ordered, Rearranges
  <1> HIDE DEF a
  <1>9. CASE IsFirst
    <2>1. e = entries /\ L = lines /\ U[lines] = used
      BY <1>5, <1>9 DEF FirstWas
    <2>1a. PICK V : V = [m \in 0..lines + 1 |-> IF m <= lines THEN U[m] ELSE used + LenOf(a) + 2]
      OBVIOUS
    <2>2. /\ V \in [0..lines + 1 -> Nat] /\ V[0] = 0 /\ V[lines + 1] = used'
          /\ \A m \in 0..lines : V[m] = U[m]
      BY <1>1, <1>2, <1>3, <1>6, <2>1, <2>1a
    <2>3. ASSUME NEW m \in 0..lines
          PROVE  V[m] + LenOf(e[m + 1]) <= PackLimit /\ V[m + 1] = V[m] + LenOf(e[m + 1]) + 2
      <3>1. CASE m = lines
        <4>1. e[m + 1] = a /\ V[m] = used /\ V[m + 1] = used'
          BY <1>2, <2>1, <2>2, <3>1 DEF a
        <4> QED
          BY <1>1, <4>1
      <3>2. CASE m # lines
        <4>1. m \in 0..L - 1 /\ m + 1 \in 0..lines
          BY <1>2, <2>1, <3>2
        <4>2. V[m] = U[m] /\ V[m + 1] = U[m + 1]
          BY <2>2, <4>1
        <4> QED
          BY <1>6, <4>1, <4>2
      <3> QED
        BY <3>1, <3>2
    <2>4. PICK K : K = lines + 1
      OBVIOUS
    <2>5. Packing(e, K, V)
      <3>1. K \in 0..Len(e) /\ 0..K - 1 = 0..lines
        BY <1>1, <1>2, <2>1, <2>4
      <3>2. V \in [0..K -> Nat] /\ V[0] = 0
        BY <2>2, <2>4
      <3> QED
        BY <2>3, <3>1, <3>2 DEF Packing
    <2>6. K = lines' /\ V[K] = used' /\ e = entries' /\ K <= K
      BY <1>1, <1>2, <2>1, <2>2, <2>4
    <2>7. FirstWas(e, K, V)'
      <3>1. IsFirst'
        BY <1>7, <1>9
      <3>2. Packing(e, K, V)'
        BY <2>5 DEF Packing
      <3>3. IsFirst' => e = entries' /\ K = lines' /\ V[K] = used'
        BY <2>6
      <3>4. Ordered(e)' /\ Rearranges(alerts, e)' /\ e \in Seq(Alerts)
        BY <1>6, <1>8
      <3> QED
        BY <3>1, <3>2, <3>3, <3>4 DEF FirstWas
    <2>8. NowIs(e, K, V)'
      <3>1. pc' # "queued" /\ Len(entries') = Len(e)
        BY <1>1, <2>6
      <3>2. \A k \in 1..Len(e) : Identity(entries'[k]) = Identity(e[k])
        BY <2>6
      <3>3. entries' = e /\ lines' <= K /\ used' = V[lines']
        BY <2>6
      <3> QED
        BY <3>1, <3>2, <3>3 DEF NowIs
    <2> QED
      BY <1>4, <2>7, <2>8 DEF RetryInv
  <1>10. CASE ~IsFirst
    <2>1. /\ IsFull(e, L, U)
          /\ first.key = [n \in 1..Len(e) |-> Identity(e[n])]
          /\ first.entries = SubSeq(e, 1, L)
      BY <1>5, <1>10 DEF FirstWas
    <2>2. ASSUME AllDistinct PROVE lines' <= L /\ used' = U[lines']
      <3>1. entries = e /\ lines <= L /\ used = U[lines]
        BY <1>5, <2>2 DEF NowIs
      <3>2. lines # L
        <4> SUFFICES ASSUME lines = L PROVE FALSE
          OBVIOUS
        <4>1. U[L] + LenOf(e[L + 1]) > PackLimit
          BY <1>1, <2>1, <3>1 DEF IsFull
        <4>2. used + LenOf(a) > PackLimit
          BY <3>1, <4>1 DEF a
        <4> QED
          BY <1>1, <1>2, <1>3, <4>2 DEF PackLimit
      <3>3. lines \in 0..L - 1
        BY <1>2, <1>6, <3>1, <3>2
      <3>4. U[lines + 1] = U[lines] + LenOf(e[lines + 1]) + 2
        BY <1>6, <3>3
      <3>5. U[lines + 1] = used + LenOf(a) + 2
        BY <3>1, <3>4 DEF a
      <3> QED
        BY <1>1, <1>2, <1>6, <3>3, <3>5
    <2>3. FirstWas(e, L, U)'
      <3>1. IsFull(e, L, U)' /\ Packing(e, L, U)'
        BY <1>6, <2>1 DEF IsFull, Packing
      <3> QED
        BY <1>1, <1>6, <1>7, <1>8, <1>10, <2>1, <3>1 DEF FirstWas
    <2>4. NowIs(e, L, U)'
      <3>1. Len(entries) = Len(e) /\ \A k \in 1..Len(e) : Identity(entries[k]) = Identity(e[k])
        BY <1>5 DEF NowIs
      <3>2. AllDistinct => entries = e
        BY <1>5 DEF NowIs
      <3> QED
        BY <1>1, <1>4, <2>2, <3>1, <3>2 DEF NowIs
    <2> QED
      BY <1>4, <2>3, <2>4 DEF RetryInv
  <1> QED
    BY <1>9, <1>10

\* The packing ends: for the first time it makes the record, and again it ends
\* where it did.
LEMMA FinishRetry ==
    ASSUME DInv, DInv', RetryInv, Finish
    PROVE  RetryInv'
  <1>1. /\ pc = "packing" /\ UNCHANGED <<alerts, entries, lines, used, posts>>
        /\ lines < Len(entries) => ~Fits(entries[lines + 1])
        /\ body'.entries = SubSeq(entries, 1, lines)
        /\ key' = [n \in Positions(entries) |-> Identity(entries[n])]
    BY DEF Finish
  <1>2. lines \in Nat /\ used \in Nat /\ entries \in Seq(Alerts) /\ Len(entries) \in Nat
    BY DEF DInv, Budget, Sorted
  <1>3. lines < Len(entries) => used + LenOf(entries[lines + 1]) > PackLimit
    <2> SUFFICES ASSUME lines < Len(entries)
                 PROVE  used + LenOf(entries[lines + 1]) > PackLimit
      OBVIOUS
    <2>1. entries[lines + 1] \in Alerts
      BY <1>2
    <2>2. LenOf(entries[lines + 1]) \in Nat
      BY <2>1, LenBounds
    <2>3. ~(used + LenOf(entries[lines + 1]) <= PackLimit)
      BY <1>1 DEF Fits
    <2> QED
      BY <1>2, <2>2, <2>3 DEF PackLimit
  <1>4. Valid(alerts) /\ Valid(alerts)' /\ posts > 0 /\ (AllDistinct' <=> AllDistinct)
    BY <1>1 DEF RetryInv, DInv, Valid, AllDistinct, Positions
  <1>5. pc' = "queued"
    BY <1>1, <1>4 DEF Finish, DInv
  <1>6. PICK e, L, U : FirstWas(e, L, U) /\ NowIs(e, L, U)
    BY <1>4 DEF RetryInv
  <1>7. /\ e \in Seq(Alerts) /\ Len(e) \in Nat /\ L \in 0..Len(e) /\ L \in Nat
        /\ U \in [0..L -> Nat] /\ U[0] = 0
        /\ \A m \in 0..L - 1 :
              U[m] + LenOf(e[m + 1]) <= PackLimit /\ U[m + 1] = U[m] + LenOf(e[m + 1]) + 2
    BY <1>6 DEF FirstWas, Packing
  <1>8. Packing(e, L, U)' /\ Ordered(e)' /\ Rearranges(alerts, e)' /\ ~IsFirst'
    BY <1>1, <1>5, <1>6 DEF FirstWas, Packing, Ordered, Rearranges, IsFirst
  <1>9. /\ Len(entries) = Len(e) /\ \A k \in 1..Len(e) : Identity(entries[k]) = Identity(e[k])
        /\ AllDistinct => entries = e /\ lines <= L /\ used = U[lines]
    BY <1>6 DEF NowIs
  <1>10. IsFull(e, L, U) /\ first'.key = [n \in 1..Len(e) |-> Identity(e[n])]
         /\ first'.entries = SubSeq(e, 1, L)
    <2>1. CASE IsFirst
      <3>1. e = entries /\ L = lines /\ U[L] = used /\ posts = 1
        BY <1>6, <2>1 DEF FirstWas, IsFirst
      <3>2. first'.key = key' /\ first'.entries = body'.entries
        BY <3>1 DEF Finish
      <3> QED
        BY <1>1, <1>3, <3>1, <3>2 DEF IsFull, Positions
    <2>2. CASE ~IsFirst
      <3>1. first' = first
        BY <1>1, <2>2 DEF Finish, IsFirst
      <3> QED
        BY <1>6, <2>2, <3>1 DEF FirstWas
    <2> QED
      BY <2>1, <2>2
  <1>11. AllDistinct => lines = L
    <2> SUFFICES ASSUME AllDistinct, lines # L PROVE FALSE
      OBVIOUS
    <2>1. entries = e /\ lines \in 0..L - 1 /\ used = U[lines] /\ lines < Len(entries)
      BY <1>2, <1>7, <1>9
    <2>2. used + LenOf(entries[lines + 1]) <= PackLimit
      BY <1>7, <2>1
    <2>3. LenOf(entries[lines + 1]) \in Nat
      <3>1. entries[lines + 1] \in Alerts
        BY <1>2, <2>1
      <3> QED
        BY <3>1, LenBounds
    <2> QED
      BY <1>2, <1>3, <2>1, <2>2, <2>3 DEF PackLimit
  <1>12. FirstWas(e, L, U)'
    <2>1. IsFull(e, L, U)'
      BY <1>10 DEF IsFull
    <2> QED
      BY <1>7, <1>8, <1>10, <2>1 DEF FirstWas
  <1>13. NowIs(e, L, U)'
    <2>1. Len(entries') = Len(e) /\ \A k \in 1..Len(e) : Identity(entries'[k]) = Identity(e[k])
      BY <1>1, <1>9
    <2>2. AllDistinct' => entries' = e /\ lines' <= L /\ used' = U[lines']
      BY <1>1, <1>4, <1>9
    <2>3. /\ key' = [n \in Positions(entries') |-> Identity(entries'[n])]
          /\ body'.entries = SubSeq(entries', 1, lines')
          /\ AllDistinct' => lines' = L
      BY <1>1, <1>4, <1>11
    <2> QED
      BY <2>1, <2>2, <2>3 DEF NowIs, Positions
  <1> QED
    BY <1>4, <1>12, <1>13 DEF RetryInv

\* Every text of a group is made as the first one was.
THEOREM RetryInvariance == Spec => []RetryInv
  <1>1. Init => RetryInv
    BY DEF Init, RetryInv
  <1>2. DInv /\ DInv' /\ RetryInv /\ [Next]_vars => RetryInv'
    <2> SUFFICES ASSUME DInv, DInv', RetryInv, [Next]_vars PROVE RetryInv'
      OBVIOUS
    <2>1. CASE Post
      <3>1. PICK n \in 0..MaxAlerts : \E s \in [1..n -> Alerts \cup {Malformed}] : Receive(s)
        BY <2>1 DEF Post
      <3>2. PICK s \in [1..n -> Alerts \cup {Malformed}] : Receive(s)
        BY <3>1
      <3>3. n \in Nat
        BY DigestAssumption
      <3>4. s \in Seq(Alerts \cup {Malformed})
        BY <3>2, <3>3, IsSeq
      <3> QED
        BY <2>1, <3>2, <3>4, ReceiveRetry DEF Post
    <2>2. CASE Repost
      <3>1. PICK p \in Permutations(alerts) : Receive([i \in Positions(alerts) |-> alerts[p[i]]])
        BY <2>2 DEF Repost
      <3> DEFINE s == [i \in Positions(alerts) |-> alerts[p[i]]]
      <3>2. alerts \in Seq(Alerts \cup {Malformed}) /\ Len(alerts) \in Nat
        BY DEF DInv, Group
      <3>3. /\ p \in [1..Len(alerts) -> 1..Len(alerts)]
            /\ \A k \in 1..Len(alerts) : \E i \in 1..Len(alerts) : p[i] = k
        BY <3>1 DEF Permutations, Positions
      <3>4. /\ s \in [1..Len(alerts) -> Alerts \cup {Malformed}]
            /\ \A i \in 1..Len(alerts) : s[i] = alerts[p[i]]
        BY <3>2, <3>3 DEF Positions
      <3>5. s \in Seq(Alerts \cup {Malformed}) /\ Len(s) = Len(alerts)
        BY <3>2, <3>4, IsSeq
      <3> HIDE DEF s
      <3>6. Rearranges(s, alerts)
        BY <3>3, <3>4, <3>5 DEF Rearranges
      <3>7. Receive(s) /\ pc # "packing"
        BY <2>2, <3>1 DEF Repost, s
      <3> QED
        BY <3>5, <3>6, <3>7, ReceiveRetry
    <2>3. CASE Pack
      BY <2>3, PackRetry
    <2>4. CASE Finish
      BY <2>4, FinishRetry
    <2>5. CASE UNCHANGED vars
      <3>1. UNCHANGED <<pc, alerts, entries, lines, used, body, key, first, posts>>
        BY <2>5 DEF vars
      <3>2. Valid(alerts)' <=> Valid(alerts)
        BY <3>1 DEF Valid, Positions
      <3>3. ASSUME NEW e, NEW L, NEW U, FirstWas(e, L, U), NowIs(e, L, U)
            PROVE  FirstWas(e, L, U)' /\ NowIs(e, L, U)'
        <4>1. FirstWas(e, L, U)'
          BY <3>1, <3>3 DEF FirstWas, Ordered, Rearranges, Packing, IsFull, IsFirst
        <4>2. NowIs(e, L, U)'
          BY <3>1, <3>3 DEF NowIs, AllDistinct, Positions
        <4> QED
          BY <4>1, <4>2
      <3> QED
        BY <3>1, <3>2, <3>3 DEF RetryInv
    <2> QED
      BY <2>1, <2>2, <2>3, <2>4, <2>5 DEF Next
  <1> QED
    BY <1>1, <1>2, DigestInvariance, PTL DEF Spec

\* The key of a group does not depend on the order its alerts come in, nor, when
\* they are distinct, does its text: whatever their number and lengths.
THEOREM RetriesSame == Spec => []RetriesAreTheSame
  <1>1. DInv /\ RetryInv => RetriesAreTheSame
    <2> SUFFICES ASSUME DInv, RetryInv, pc = "queued", posts > 1
                 PROVE  key = first.key /\ (AllDistinct => body.entries = first.entries)
      BY DEF RetriesAreTheSame
    <2>1. PICK e, L, U : FirstWas(e, L, U) /\ NowIs(e, L, U)
      BY DEF RetryInv, DInv
    <2>2. /\ first.key = [n \in 1..Len(e) |-> Identity(e[n])]
          /\ first.entries = SubSeq(e, 1, L)
      BY <2>1 DEF FirstWas, IsFirst
    <2>3. /\ Len(entries) = Len(e) /\ \A k \in 1..Len(e) : Identity(entries[k]) = Identity(e[k])
          /\ key = [n \in Positions(entries) |-> Identity(entries[n])]
          /\ body.entries = SubSeq(entries, 1, lines)
          /\ AllDistinct => entries = e /\ lines = L
      BY <2>1 DEF NowIs
    <2>4. key = [n \in 1..Len(e) |-> Identity(entries[n])]
      BY <2>3 DEF Positions
    <2>5. key = first.key
      BY <2>2, <2>3, <2>4
    <2> QED
      BY <2>2, <2>3, <2>5
  <1> QED
    BY <1>1, DigestInvariance, RetryInvariance, PTL
=============================================================================
