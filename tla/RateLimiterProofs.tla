------------------------- MODULE RateLimiterProofs -------------------------
(***************************************************************************)
(* Proofs about RateLimiter, for any limit, window and clock resolution.    *)
(***************************************************************************)
EXTENDS RateLimiter, SequenceTheorems, FiniteSetTheorems, TLAPS

USE LimiterAssumption

\* How many slots of the log the deque no longer holds.
Dropped == Len(log) - Len(sent)

\* The deque is the end of this life's log, and what it dropped is aged.
DequeInv ==
    /\ lifeStart <= Dropped
    /\ \A i \in 1..Len(sent) : sent[i] = log[Dropped + i]
    /\ \A i \in lifeStart + 1..Dropped : now - log[i] >= Window

\* Grants are in order, and none is later than now or than a pending call.
OrderInv ==
    /\ \A i, j \in 1..Len(log) : i <= j => log[i] <= log[j]
    /\ \A i \in 1..Len(log) : log[i] <= now
    /\ caller # "idle" => since <= now /\ \A i \in 1..Len(log) : log[i] <= since

\* Timers are set within the window of the call, and are not overdue.
TimerInv ==
    /\ caller = "asleep" => wake <= since + Window + MinNap /\ now <= wake + Late
    /\ caller = "trying" => now <= since + Window + MinNap + Late

\* Within one process life, no Capacity + 1 sends fall in one window.
WindowBound ==
    \A i \in lifeStart + 1..Len(log) :
        i + Capacity <= Len(log) => log[i + Capacity] - log[i] >= Window

\* The grants of this life are the last ones.
LivesInv ==
    /\ \A i \in 1..lifeStart : lives[i] < life
    /\ \A i \in lifeStart + 1..Len(log) : lives[i] = life

LInv == /\ TypeOK /\ DequeInv /\ OrderInv /\ TimerInv
        /\ WindowBound /\ LivesInv /\ BurstBound

-----------------------------------------------------------------------------
LEMMA CapacityIsPositive == Capacity \in Nat \ {0}
BY DEF Capacity

\* Popping k entries leaves the rest in place.
LEMMA PoppedDeque ==
    ASSUME NEW s \in Seq(Nat), NEW k \in 0..Len(s)
    PROVE  /\ SubSeq(s, k + 1, Len(s)) \in Seq(Nat)
           /\ Len(SubSeq(s, k + 1, Len(s))) = Len(s) - k
           /\ \A i \in 1..Len(s) - k : SubSeq(s, k + 1, Len(s))[i] = s[k + i]
BY SubSeqProperties

\* The arithmetic of a burst that spans two lives.
LEMMA BurstsAdd ==
    ASSUME NEW c \in Nat \ {0}, NEW x \in Int, NEW y \in Int, x < y,
           NEW d \in Int, d < c * (1 + x)
    PROVE  d + c < c * (1 + y)
<1>1. c * (1 + x) + c = c * (2 + x)
  OBVIOUS
<1>2. \A z \in Nat : c * (2 + x) <= c * (2 + x + z)
  <2> SUFFICES ASSUME NEW z \in Nat PROVE c * (2 + x) <= c * (2 + x + z)
    OBVIOUS
  <2>1. c * (2 + x + z) = c * (2 + x) + c * z /\ c * (2 + x) \in Int /\ c * z \in Nat
    OBVIOUS
  <2> QED
    BY <2>1
<1>3. PICK z \in Nat : 1 + y = 2 + x + z
  <2>1. y - x - 1 \in Nat /\ 1 + y = 2 + x + (y - x - 1)
    OBVIOUS
  <2> QED
    BY <2>1
<1>4. c * (1 + x) \in Int /\ c * (2 + x) \in Int /\ c * (2 + x + z) \in Int
  OBVIOUS
<1> QED
  BY <1>1, <1>2, <1>3, <1>4

\* A grant keeps the bound on bursts: L are the grants and V the lives they
\* belong to, n of them before this one and s of them in earlier lives.
LEMMA BurstStep ==
    ASSUME NEW n \in Nat, NEW s \in 0..n, NEW c \in Nat \ {0}, NEW w \in Nat, NEW L, NEW V,
           \A i \in 1..n + 1 : L[i] \in Nat /\ V[i] \in Nat,
           \A i, j \in 1..n + 1 : i <= j => L[i] <= L[j],
           \A i \in s + 1..n + 1 : i + c <= n + 1 => L[i + c] - L[i] >= w,
           \A i \in 1..s : V[i] < V[n + 1],
           \A i \in s + 1..n + 1 : V[i] = V[n + 1],
           \A j \in 1..n : \A i \in 1..j - 1 :
               L[j] - L[i] < w => j - i < c * (1 + V[j] - V[i])
    PROVE  \A j \in 1..n + 1 : \A i \in 1..j - 1 :
               L[j] - L[i] < w => j - i < c * (1 + V[j] - V[i])
<1> SUFFICES ASSUME NEW i \in 1..n, L[n + 1] - L[i] < w
             PROVE  n + 1 - i < c * (1 + V[n + 1] - V[i])
  OBVIOUS
\* Fewer than c grants of this life are within the window.
<1>1. ASSUME NEW k \in s + 1..n, L[n + 1] - L[k] < w PROVE n + 1 - k < c
  <2>1. CASE k + c <= n + 1
    <3>1. k + c \in 1..n + 1 /\ k \in 1..n + 1 /\ n + 1 \in 1..n + 1
      BY <2>1
    <3>2. L[k + c] <= L[n + 1] /\ L[k + c] - L[k] >= w
      BY <2>1, <3>1
    <3>3. L[k + c] \in Nat /\ L[k] \in Nat /\ L[n + 1] \in Nat
      BY <3>1
    <3> QED
      BY <1>1, <3>2, <3>3
  <2> QED
    BY <2>1
<1>2. CASE i > s
  <2>1. i \in s + 1..n /\ V[i] = V[n + 1] /\ V[i] \in Nat
    BY <1>2
  <2>2. 1 + V[n + 1] - V[i] = 1
    BY <2>1
  <2>3. c * 1 = c
    OBVIOUS
  <2> QED
    BY <1>1, <2>1, <2>2, <2>3
<1>3. CASE i <= s
  <2>1. s \in 1..n /\ n + 1 \in 1..n + 1 /\ i \in 1..n + 1 /\ s \in 1..n + 1
    BY <1>3
  <2>2. V[s] < V[n + 1] /\ V[s] \in Nat /\ V[i] \in Nat /\ V[n + 1] \in Nat
    BY <2>1
  <2>3. L[s] \in Nat /\ L[i] \in Nat /\ L[n + 1] \in Nat /\ L[s] <= L[n + 1]
    BY <2>1
  <2> DEFINE x == V[s] - V[i]
             y == V[n + 1] - V[i]
  <2>4. x \in Int /\ y \in Int /\ x < y /\ 1 + V[s] - V[i] = 1 + x /\ 1 + V[n + 1] - V[i] = 1 + y
    BY <2>2
  <2>5. s - i < c * (1 + x)
    <3>1. CASE i = s
      <4>1. x = 0 /\ s - i = 0
        BY <2>2, <3>1
      <4>2. c * (1 + 0) = c
        OBVIOUS
      <4> QED
        BY <4>1, <4>2
    <3>2. CASE i < s
      <4>1. i \in 1..s - 1 /\ L[s] - L[i] < w
        BY <2>3, <3>2
      <4>2. s - i < c * (1 + V[s] - V[i])
        BY <2>1, <4>1
      <4> QED
        BY <2>4, <4>2
    <3> QED
      BY <1>3, <3>1, <3>2
  <2>6. n + 1 - s <= c
    <3>1. CASE s = n
      BY <3>1
    <3>2. CASE s < n
      <4>1. s + 1 \in s + 1..n /\ s + 1 \in 1..n + 1
        BY <3>2
      <4>2. L[i] <= L[s + 1] /\ L[s + 1] \in Nat
        BY <1>3, <2>1, <4>1
      <4>3. L[n + 1] - L[s + 1] < w
        BY <2>3, <4>2
      <4>4. n + 1 - (s + 1) < c
        BY <1>1, <4>1, <4>3
      <4> QED
        BY <4>4
    <3> QED
      BY <3>1, <3>2
  <2>7. s - i \in Int
    BY <1>3
  <2> HIDE DEF x, y
  <2>8. (s - i) + c < c * (1 + y)
    BY <2>4, <2>5, <2>7, BurstsAdd
  <2>9. c * (1 + y) \in Int
    BY <2>4
  <2>10. n + 1 - i < c * (1 + y)
    BY <2>6, <2>7, <2>8, <2>9
  <2> QED
    BY <2>4, <2>10
<1> QED
  BY <1>2, <1>3

LEMMA InitLInv == Init => LInv
BY CapacityIsPositive DEF Init, LInv, TypeOK, DequeInv, OrderInv, TimerInv, WindowBound, Dropped,
   LivesInv, BurstBound

\* Taking a slot: the new grant is a window away from the one Capacity before.
LEMMA GrantLInv == LInv /\ Grant => LInv'
<1> SUFFICES ASSUME LInv, Grant PROVE LInv'
  OBVIOUS
<1> USE CapacityIsPositive DEF LInv
<1>1. PICK k \in 0..Len(sent) :
        /\ Leading(k) /\ Len(sent) - k < Capacity
        /\ sent' = SubSeq(sent, k + 1, Len(sent)) \o <<now>>
  BY DEF Grant
<1>2. /\ Len(sent) \in Nat /\ Len(log) \in Nat /\ now \in Nat
      /\ lifeStart \in 0..Len(log) /\ Dropped \in Int /\ Len(log) = Dropped + Len(sent)
      /\ lifeStart <= Dropped
      /\ \A i \in 1..Len(log) : log[i] \in Nat
  <2>1. /\ Len(log) \in Nat /\ \A i \in 1..Len(log) : log[i] \in Nat
    BY ElementOfSeq, LenProperties DEF TypeOK
  <2>2. Len(sent) \in Nat /\ now \in Nat /\ lifeStart \in 0..Len(log)
    BY LenProperties DEF TypeOK
  <2>3. lifeStart <= Dropped
    BY DEF DequeInv
  <2> QED
    BY <2>1, <2>2, <2>3 DEF Dropped
<1>3. /\ sent' \in Seq(Nat) /\ Len(sent') = Len(sent) - k + 1
      /\ \A i \in 1..Len(sent) - k : sent'[i] = sent[k + i]
      /\ sent'[Len(sent) - k + 1] = now
  <2> DEFINE rest == SubSeq(sent, k + 1, Len(sent))
  <2>1. rest \in Seq(Nat) /\ Len(rest) = Len(sent) - k
        /\ \A i \in 1..Len(sent) - k : rest[i] = sent[k + i]
    BY PoppedDeque DEF TypeOK
  <2>2. <<now>> \in Seq(Nat) /\ Len(<<now>>) = 1 /\ <<now>>[1] = now
    BY DEF TypeOK
  <2> HIDE DEF rest
  <2>3. sent' = rest \o <<now>>
    BY <1>1 DEF rest
  <2> QED
    BY <2>1, <2>2, <2>3, ConcatProperties DEF TypeOK
<1>4. /\ log' \in Seq(Nat) /\ Len(log') = Len(log) + 1
      /\ \A i \in 1..Len(log) : log'[i] = log[i]
      /\ log'[Len(log) + 1] = now
  BY AppendProperties DEF Grant, TypeOK
<1>a. /\ lives' \in Seq(Nat) /\ Len(lives') = Len(log) + 1
      /\ \A i \in 1..Len(log) : lives'[i] = lives[i] /\ lives[i] \in Nat
      /\ lives'[Len(log) + 1] = life /\ life \in Nat
  <2>1. lives' \in Seq(Nat) /\ Len(lives') = Len(lives) + 1
        /\ (\A i \in 1..Len(lives) : lives'[i] = lives[i])
        /\ lives'[Len(lives) + 1] = life
    <3>1. lives \in Seq(Nat) /\ life \in Nat /\ lives' = Append(lives, life)
      BY DEF Grant, TypeOK
    <3> QED
      BY <3>1, AppendProperties
  <2>2. Len(lives) = Len(log) /\ life \in Nat /\ lives \in Seq(Nat)
    BY DEF TypeOK
  <2> QED
    BY <2>1, <2>2, ElementOfSeq
<1>5. TypeOK'
  <2>1. Len(sent') <= Capacity /\ lifeStart \in 0..Len(log')
    BY <1>1, <1>2, <1>3, <1>4
  <2> QED
    BY <1>3, <1>4, <1>a, <2>1 DEF Grant, TypeOK
<1>6. Dropped' = Dropped + k
  BY <1>2, <1>3, <1>4 DEF Dropped
<1>7. \A i \in lifeStart + 1..Dropped + k : now - log[i] >= Window
  <2> SUFFICES ASSUME NEW i \in lifeStart + 1..Dropped + k PROVE now - log[i] >= Window
    OBVIOUS
  <2>1. CASE i <= Dropped
    BY <1>2, <2>1 DEF DequeInv
  <2>2. CASE i > Dropped
    <3> DEFINE j == i - Dropped
    <3>1. j \in 1..k /\ j \in 1..Len(sent) /\ Dropped + j = i
      BY <1>2, <2>2
    <3>2. Aged(sent[j])
      BY <1>1, <3>1 DEF Leading
    <3>3. sent[j] = log[i]
      BY <3>1 DEF DequeInv
    <3> QED
      BY <3>2, <3>3 DEF Aged
  <2> QED
    BY <1>2, <2>1, <2>2
<1>8. DequeInv'
  <2>1. \A i \in 1..Len(sent') : sent'[i] = log'[Dropped + k + i]
    <3> SUFFICES ASSUME NEW i \in 1..Len(sent) - k + 1 PROVE sent'[i] = log'[Dropped + k + i]
      BY <1>3
    <3>1. CASE i = Len(sent) - k + 1
      <4>1. Dropped + k + i = Len(log) + 1
        BY <1>2, <3>1
      <4> QED
        BY <1>3, <1>4, <3>1, <4>1
    <3>2. CASE i # Len(sent) - k + 1
      <4>1. i \in 1..Len(sent) - k /\ k + i \in 1..Len(sent) /\ Dropped + (k + i) \in 1..Len(log)
        BY <1>2, <3>2
      <4>2. sent'[i] = sent[k + i] /\ sent[k + i] = log[Dropped + (k + i)]
        BY <1>3, <4>1 DEF DequeInv
      <4>3. Dropped + (k + i) = Dropped + k + i
        BY <1>2
      <4> QED
        BY <1>4, <4>1, <4>2, <4>3
    <3> QED
      BY <3>1, <3>2
  <2>2. \A i \in lifeStart + 1..Dropped + k : now - log'[i] >= Window
    <3> SUFFICES ASSUME NEW i \in lifeStart + 1..Dropped + k PROVE now - log'[i] >= Window
      OBVIOUS
    <3>1. i \in 1..Len(log)
      BY <1>2
    <3> QED
      BY <1>4, <1>7, <3>1
  <2>3. lifeStart <= Dropped + k
    BY <1>2
  <2>4. UNCHANGED <<now, lifeStart>>
    BY DEF Grant
  <2> QED
    BY <1>6, <2>1, <2>2, <2>3, <2>4 DEF DequeInv
<1>9. OrderInv'
  <2>1. \A i \in 1..Len(log') : log'[i] <= now
    BY <1>2, <1>4 DEF OrderInv
  <2>2. \A i, j \in 1..Len(log') : i <= j => log'[i] <= log'[j]
    <3> SUFFICES ASSUME NEW i \in 1..Len(log) + 1, NEW j \in 1..Len(log) + 1, i <= j
                 PROVE  log'[i] <= log'[j]
      BY <1>4
    <3>1. CASE j = Len(log) + 1
      BY <1>4, <2>1, <3>1
    <3>2. CASE j # Len(log) + 1
      <4>1. i \in 1..Len(log) /\ j \in 1..Len(log)
        BY <1>2, <3>2
      <4> QED
        BY <1>4, <4>1 DEF OrderInv
    <3> QED
      BY <3>1, <3>2
  <2> QED
    BY <2>1, <2>2 DEF OrderInv, Grant
<1>10. TimerInv'
  BY DEF TimerInv, Grant
<1>11. WindowBound'
  <2> SUFFICES ASSUME NEW i \in lifeStart + 1..Len(log) + 1, i + Capacity <= Len(log) + 1
               PROVE  log'[i + Capacity] - log'[i] >= Window
    BY <1>4 DEF WindowBound, Grant, Capacity
  <2>1. CASE i + Capacity <= Len(log)
    <3>1. i \in lifeStart + 1..Len(log) /\ i \in 1..Len(log) /\ i + Capacity \in 1..Len(log)
      BY <1>2, <2>1
    <3> QED
      BY <1>4, <2>1, <3>1 DEF WindowBound
  <2>2. CASE i + Capacity = Len(log) + 1
    <3>1. i \in lifeStart + 1..Dropped + k /\ i \in 1..Len(log)
      BY <1>1, <1>2, <2>2
    <3>2. log'[i + Capacity] = now /\ log'[i] = log[i]
      BY <1>4, <2>2, <3>1
    <3> QED
      BY <1>7, <3>1, <3>2
  <2> QED
    BY <1>2, <2>1, <2>2
<1>12. LivesInv'
  <2>1. UNCHANGED <<life, lifeStart>>
    BY DEF Grant
  <2>2. \A i \in 1..lifeStart : lives'[i] < life
    <3> SUFFICES ASSUME NEW i \in 1..lifeStart PROVE lives'[i] < life
      OBVIOUS
    <3>1. i \in 1..Len(log)
      BY <1>2
    <3> QED
      BY <1>a, <3>1 DEF LivesInv
  <2>3. \A i \in lifeStart + 1..Len(log) + 1 : lives'[i] = life
    <3> SUFFICES ASSUME NEW i \in lifeStart + 1..Len(log) + 1 PROVE lives'[i] = life
      OBVIOUS
    <3>1. CASE i = Len(log) + 1
      BY <1>a, <3>1
    <3>2. CASE i # Len(log) + 1
      <4>1. i \in 1..Len(log) /\ i \in lifeStart + 1..Len(log)
        BY <1>2, <3>2
      <4> QED
        BY <1>a, <4>1 DEF LivesInv
    <3> QED
      BY <3>1, <3>2
  <2> QED
    BY <1>4, <2>1, <2>2, <2>3 DEF LivesInv
<1>13. BurstBound'
  <2>1. \A i \in 1..Len(log) + 1 : log'[i] \in Nat /\ lives'[i] \in Nat
    BY <1>4, <1>a, ElementOfSeq
  <2>2. \A i, j \in 1..Len(log) + 1 : i <= j => log'[i] <= log'[j]
    BY <1>4, <1>9 DEF OrderInv
  <2>3. \A i \in lifeStart + 1..Len(log) + 1 : i + Capacity <= Len(log) + 1 =>
            log'[i + Capacity] - log'[i] >= Window
    BY <1>4, <1>11 DEF WindowBound, Grant, Capacity
  <2>4. /\ \A i \in 1..lifeStart : lives'[i] < lives'[Len(log) + 1]
        /\ \A i \in lifeStart + 1..Len(log) + 1 : lives'[i] = lives'[Len(log) + 1]
    <3>1. UNCHANGED <<life, lifeStart>>
      BY DEF Grant
    <3> QED
      BY <1>4, <1>a, <1>12, <3>1 DEF LivesInv
  <2>5. \A j \in 1..Len(log) : \A i \in 1..j - 1 :
            log'[j] - log'[i] < Window => j - i < Capacity * (1 + lives'[j] - lives'[i])
    <3> SUFFICES ASSUME NEW j \in 1..Len(log), NEW i \in 1..j - 1, log'[j] - log'[i] < Window
                 PROVE  j - i < Capacity * (1 + lives'[j] - lives'[i])
      OBVIOUS
    <3>1. i \in 1..Len(log)
      BY <1>2
    <3>2. log'[j] = log[j] /\ log'[i] = log[i] /\ lives'[j] = lives[j] /\ lives'[i] = lives[i]
      BY <1>4, <1>a, <3>1
    <3> QED
      BY <3>2 DEF BurstBound
  <2>6. Len(log) \in Nat /\ lifeStart \in 0..Len(log) /\ Window \in Nat
    BY <1>2
  <2> DEFINE n == Len(log)
  <2> HIDE DEF n
  <2>7. \A j \in 1..n + 1 : \A i \in 1..j - 1 :
            log'[j] - log'[i] < Window => j - i < Capacity * (1 + lives'[j] - lives'[i])
    BY <2>1, <2>2, <2>3, <2>4, <2>5, <2>6, BurstStep DEF n
  <2>8. Len(log') = n + 1
    BY <1>4 DEF n
  <2> QED
    BY <2>7, <2>8 DEF BurstBound, Capacity
<1> QED
  BY <1>5, <1>8, <1>9, <1>10, <1>11, <1>12, <1>13

\* Going to sleep: the timer ends a window after the head of the deque.
LEMMA SleepLInv == LInv /\ GoToSleep => LInv'
<1> SUFFICES ASSUME LInv, GoToSleep PROVE LInv'
  OBVIOUS
<1> USE CapacityIsPositive DEF LInv
<1>1. PICK k \in 0..Len(sent) :
        /\ Leading(k) /\ Len(sent) - k >= Capacity
        /\ sent' = SubSeq(sent, k + 1, Len(sent))
        /\ wake' = now + Nap(sent[k + 1])
  BY DEF GoToSleep
<1>2. /\ Len(sent) \in Nat /\ Len(log) \in Nat /\ now \in Nat
      /\ lifeStart \in 0..Len(log) /\ Dropped \in Int /\ Len(log) = Dropped + Len(sent)
      /\ lifeStart <= Dropped
      /\ \A i \in 1..Len(sent) : sent[i] \in Nat
  <2>1. /\ Len(sent) \in Nat /\ \A i \in 1..Len(sent) : sent[i] \in Nat
    BY ElementOfSeq, LenProperties DEF TypeOK
  <2>2. Len(log) \in Nat /\ now \in Nat /\ lifeStart \in 0..Len(log)
    BY LenProperties DEF TypeOK
  <2>3. lifeStart <= Dropped
    BY DEF DequeInv
  <2> QED
    BY <2>1, <2>2, <2>3 DEF Dropped
<1>3. /\ sent' \in Seq(Nat) /\ Len(sent') = Len(sent) - k
      /\ \A i \in 1..Len(sent) - k : sent'[i] = sent[k + i]
  BY <1>1, PoppedDeque DEF TypeOK
<1>4. k + 1 \in 1..Len(sent) /\ ~Aged(sent[k + 1])
  BY <1>1, <1>2 DEF Leading
<1>5. sent[k + 1] = log[Dropped + (k + 1)] /\ Dropped + (k + 1) \in 1..Len(log)
  BY <1>2, <1>4 DEF DequeInv
<1>6. wake' \in Nat /\ wake' <= since + Window + MinNap
  <2>1. sent[k + 1] <= now /\ sent[k + 1] <= since /\ since \in Nat /\ since <= now
    BY <1>5 DEF OrderInv, GoToSleep, TypeOK
  <2>2. now < sent[k + 1] + Window
    BY <1>2, <1>4 DEF Aged
  <2>3. sent[k + 1] \in Nat /\ wake' = now + Nap(sent[k + 1])
    BY <1>1, <1>2, <1>4
  <2>4. \A head \in Nat : now < head + Window /\ head <= since /\ head <= now =>
            now + Nap(head) \in Nat /\ now + Nap(head) <= since + Window + MinNap
    BY <1>2, <2>1 DEF Nap
  <2> QED
    BY <2>1, <2>2, <2>3, <2>4
<1>7. TypeOK'
  <2>1. Len(sent') <= Capacity
    BY <1>2, <1>3 DEF TypeOK
  <2> QED
    BY <1>3, <1>6, <2>1 DEF GoToSleep, TypeOK
<1>8. Dropped' = Dropped + k
  <2>1. UNCHANGED log
    BY DEF GoToSleep
  <2> QED
    BY <1>2, <1>3, <2>1 DEF Dropped
<1>9. DequeInv'
  <2>1. \A i \in 1..Len(sent') : sent'[i] = log[Dropped + k + i]
    <3> SUFFICES ASSUME NEW i \in 1..Len(sent) - k PROVE sent'[i] = log[Dropped + k + i]
      BY <1>3
    <3>1. k + i \in 1..Len(sent) /\ Dropped + (k + i) = Dropped + k + i
      BY <1>2
    <3> QED
      BY <1>3, <3>1 DEF DequeInv
  <2>2. \A i \in lifeStart + 1..Dropped + k : now - log[i] >= Window
    <3> SUFFICES ASSUME NEW i \in lifeStart + 1..Dropped + k PROVE now - log[i] >= Window
      OBVIOUS
    <3>1. CASE i <= Dropped
      BY <1>2, <3>1 DEF DequeInv
    <3>2. CASE i > Dropped
      <4> DEFINE j == i - Dropped
      <4>1. j \in 1..k /\ j \in 1..Len(sent) /\ Dropped + j = i
        BY <1>2, <3>2
      <4>2. Aged(sent[j]) /\ sent[j] = log[i]
        BY <1>1, <4>1 DEF Leading, DequeInv
      <4> QED
        BY <4>2 DEF Aged
    <3> QED
      BY <1>2, <3>1, <3>2
  <2>3. lifeStart <= Dropped + k
    BY <1>2
  <2> QED
    BY <1>8, <2>1, <2>2, <2>3 DEF DequeInv, GoToSleep
<1>10. OrderInv'
  BY DEF OrderInv, GoToSleep
<1>11. TimerInv'
  <2>1. now <= wake'
    BY <1>1, <1>2, <1>4 DEF Nap
  <2> QED
    BY <1>2, <1>6, <2>1 DEF TimerInv, GoToSleep
<1>12. WindowBound' /\ LivesInv' /\ BurstBound'
  BY DEF WindowBound, LivesInv, BurstBound, GoToSleep
<1> QED
  BY <1>7, <1>9, <1>10, <1>11, <1>12

\* The other steps grant nothing.
LEMMA OtherLInv == LInv /\ (Call \/ Wake \/ Tick \/ Restart \/ UNCHANGED vars) => LInv'
<1> SUFFICES ASSUME LInv, Call \/ Wake \/ Tick \/ Restart \/ UNCHANGED vars PROVE LInv'
  OBVIOUS
<1> USE CapacityIsPositive DEF LInv, TypeOK
<1>1. CASE Call
  BY <1>1 DEF Call, DequeInv, OrderInv, TimerInv, WindowBound, LivesInv, BurstBound, Dropped, Capacity
<1>2. CASE Wake
  BY <1>2 DEF Wake, DequeInv, OrderInv, TimerInv, WindowBound, LivesInv, BurstBound, Dropped, Capacity
<1>3. CASE Tick
  <2>1. TypeOK' /\ WindowBound' /\ LivesInv' /\ BurstBound' /\ TimerInv'
    BY <1>3 DEF Tick, WindowBound, LivesInv, BurstBound, TimerInv
  <2>2. DequeInv' /\ OrderInv'
    <3>1. \A i \in 1..Len(log) : log[i] \in Nat
      OBVIOUS
    <3>2. Dropped' = Dropped /\ Dropped \in Int /\ Dropped <= Len(log)
      BY <1>3 DEF Tick, Dropped
    <3>3. \A i \in lifeStart + 1..Dropped : i \in 1..Len(log)
      BY <3>2
    <3>4. DequeInv'
      <4>1. now' = now + 1 /\ now \in Nat /\ UNCHANGED <<sent, log, lifeStart>>
        BY <1>3 DEF Tick
      <4>2. ASSUME NEW i \in lifeStart + 1..Dropped PROVE now' - log[i] >= Window
        <5>1. now - log[i] >= Window /\ log[i] \in Nat
          BY <3>1, <3>3 DEF DequeInv
        <5> QED
          BY <4>1, <5>1
      <4> QED
        BY <3>2, <4>1, <4>2 DEF DequeInv
    <3>5. OrderInv'
      BY <1>3, <3>1 DEF Tick, OrderInv
    <3> QED
      BY <3>4, <3>5
  <2> QED
    BY <2>1, <2>2
<1>4. CASE Restart
  <2>1. /\ sent' = <<>> /\ Len(sent') = 0 /\ caller' = "idle" /\ life' = life + 1
        /\ lifeStart' = Len(log) /\ Len(log) \in Nat /\ UNCHANGED <<now, since, wake, log, lives>>
    BY <1>4 DEF Restart
  <2>2. TypeOK'
    BY <2>1
  <2>3. DequeInv' /\ OrderInv' /\ TimerInv' /\ WindowBound'
    BY <2>1 DEF DequeInv, OrderInv, TimerInv, WindowBound, Dropped
  <2>4. LivesInv'
    <3>1. ASSUME NEW i \in 1..Len(log) PROVE lives[i] < life + 1
      <4>1. lives[i] < life \/ lives[i] = life
        BY DEF LivesInv
      <4>2. lives[i] \in Nat /\ life \in Nat
        OBVIOUS
      <4> QED
        BY <4>1, <4>2
    <3> QED
      BY <2>1, <3>1 DEF LivesInv
  <2>5. BurstBound'
    BY <2>1 DEF BurstBound
  <2> QED
    BY <2>2, <2>3, <2>4, <2>5
<1>5. CASE UNCHANGED vars
  BY <1>5 DEF vars, DequeInv, OrderInv, TimerInv, WindowBound, LivesInv, BurstBound, Dropped
<1> QED
  BY <1>1, <1>2, <1>3, <1>4, <1>5

\* The limiter's invariant holds of every reachable state.
THEOREM LimiterInvariance == Spec => []LInv
<1>1. LInv /\ [Next]_vars => LInv'
  BY GrantLInv, SleepLInv, OtherLInv DEF Next, Horizon
<1> QED
  BY InitLInv, <1>1, PTL DEF Spec

\* The deque never holds more than a window's worth of grants, and the history
\* agrees with it.
THEOREM LimiterTypes == Spec => []TypeOK
<1>1. LInv => TypeOK
  BY DEF LInv
<1> QED
  BY <1>1, LimiterInvariance, PTL

\* Restarts let a burst grow by one window's worth each, and by no more.
THEOREM BurstsBounded == Spec => []BurstBound
<1>1. LInv => BurstBound
  BY DEF LInv
<1> QED
  BY <1>1, LimiterInvariance, PTL

\* No call sleeps longer than a window, a nap and a late timer.
THEOREM WaitBounded == Spec => []BoundedWait
<1>1. LInv => BoundedWait
  BY DEF LInv, TypeOK, TimerInv, BoundedWait
<1> QED
  BY <1>1, LimiterInvariance, PTL

\* The limiter makes nobody sleep while the window has room.
THEOREM NapsNeeded == Spec => NoNeedlessNap
<1> DEFINE Recent == {i \in lifeStart + 1..Len(log) : now - log[i] < Window}
<1>1. LInv /\ GoToSleep => Cardinality(Recent) >= Capacity
  <2> SUFFICES ASSUME LInv, GoToSleep PROVE Cardinality(Recent) >= Capacity
    OBVIOUS
  <2> USE CapacityIsPositive DEF LInv
  <2>1. PICK k \in 0..Len(sent) : Leading(k) /\ Len(sent) - k >= Capacity
    BY DEF GoToSleep
  <2>2. /\ Len(sent) \in Nat /\ Len(log) \in Nat /\ now \in Nat
        /\ lifeStart \in 0..Len(log) /\ Dropped \in Int /\ Len(log) = Dropped + Len(sent)
        /\ lifeStart <= Dropped
        /\ \A i \in 1..Len(log) : log[i] \in Nat
    <3>1. \A i \in 1..Len(log) : log[i] \in Nat
      BY ElementOfSeq DEF TypeOK
    <3>2. Len(sent) \in Nat /\ Len(log) \in Nat /\ now \in Nat /\ lifeStart \in 0..Len(log)
      BY LenProperties DEF TypeOK
    <3>3. lifeStart <= Dropped
      BY DEF DequeInv
    <3> QED
      BY <3>1, <3>2, <3>3 DEF Dropped
  <2> DEFINE first == Dropped + (k + 1)
  <2>3. now - log[first] < Window /\ first \in 1..Len(log)
    <3>1. k + 1 \in 1..Len(sent) /\ ~Aged(sent[k + 1]) /\ first \in 1..Len(log)
      BY <2>1, <2>2 DEF Leading
    <3>2. sent[k + 1] = log[first]
      BY <3>1 DEF DequeInv
    <3> QED
      BY <2>2, <3>1, <3>2 DEF Aged
  <2>4. first..Len(log) \subseteq Recent
    <3> SUFFICES ASSUME NEW i \in first..Len(log)
                 PROVE  i \in lifeStart + 1..Len(log) /\ now - log[i] < Window
      OBVIOUS
    <3>1. i \in 1..Len(log) /\ i \in lifeStart + 1..Len(log) /\ first <= i
      BY <2>2, <2>3
    <3>2. log[first] <= log[i]
      BY <2>3, <3>1 DEF OrderInv
    <3> QED
      BY <2>2, <2>3, <3>1, <3>2
  <2>5. IsFiniteSet(Recent)
    <3>1. IsFiniteSet(lifeStart + 1..Len(log))
      BY <2>2, FS_Interval
    <3> QED
      BY <3>1, FS_Subset
  <2>6. Cardinality(first..Len(log)) <= Cardinality(Recent)
    BY <2>4, <2>5, FS_Subset
  <2>7. Cardinality(first..Len(log)) = Len(sent) - k
    BY <2>2, <2>3, FS_Interval
  <2>8. Cardinality(Recent) \in Nat
    BY <2>5, FS_CardinalityType
  <2> HIDE DEF Recent, first
  <2> QED
    BY <2>1, <2>2, <2>6, <2>7, <2>8
<1>2. LInv => (GoToSleep => Cardinality(Recent) >= Capacity)
  BY <1>1
<1> QED
  BY <1>2, LimiterInvariance, PTL DEF NoNeedlessNap
=============================================================================
