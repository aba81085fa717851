----------------------------- MODULE RateLimiter -----------------------------
(***************************************************************************)
(* The sliding-window limiter between the send loop and the handset        *)
(* (worker.RateLimiter), with a discrete clock.  acquire() awaits in one    *)
(* place, its sleep, so an attempt - prune the deque, then take a slot or   *)
(* go to sleep - is one step.  The deque lives in memory: a restart empties *)
(* it.  The log of the slots granted is history.                            *)
(***************************************************************************)
EXTENDS Integers, Sequences, FiniteSets

CONSTANTS PerMinute,  \* settings.rate_limit_per_minute
          Window,     \* sixty seconds, in ticks
          MinNap,     \* a tenth of a second, in ticks
          Early,      \* how early the event loop may fire a timer (its clock resolution)
          Late,       \* how late it may fire one
          MaxTime,    \* bound: ticks
          MaxSends,   \* bound: slots asked for
          MaxLives    \* bound: processes, one after the other

ASSUME LimiterAssumption ==
    /\ PerMinute \in Int
    /\ Window \in Nat \ {0} /\ MinNap \in Nat \ {0}
    /\ Early \in Nat /\ Late \in Nat
    /\ MaxTime \in Nat /\ MaxSends \in Nat /\ MaxLives \in Nat \ {0}

VARIABLES now,        \* loop.time()
          sent,       \* the deque of grant times
          caller,     \* "idle", "trying" (in acquire), "asleep" (in its sleep)
          since,      \* when acquire was called
          wake,       \* when the sleep is due to end
          log,        \* history: every slot granted
          lives,      \* history: for each, the process that granted it
          life,       \* history: the number of this process
          lifeStart   \* history: slots granted before it started

vars == <<now, sent, caller, since, wake, log, lives, life, lifeStart>>

\* max(1, per_minute)
Capacity == IF PerMinute < 1 THEN 1 ELSE PerMinute

TypeOK ==
    /\ now \in Nat
    /\ sent \in Seq(Nat) /\ Len(sent) <= Capacity
    /\ caller \in {"idle", "trying", "asleep"}
    /\ since \in Nat /\ wake \in Nat
    /\ log \in Seq(Nat)
    /\ lives \in Seq(Nat) /\ Len(lives) = Len(log)
    /\ life \in Nat
    /\ lifeStart \in 0..Len(log)

Init ==
    /\ now = 0 /\ sent = <<>>
    /\ caller = "idle" /\ since = 0 /\ wake = 0
    /\ log = <<>> /\ lives = <<>> /\ life = 1 /\ lifeStart = 0

-----------------------------------------------------------------------------
AgedPast(t) == now - t > Window    \* mutant
Aged(t) == now - t >= Window

\* The loop pops the head while it is aged: k entries, and no more.
Leading(k) == /\ \A i \in 1..k : Aged(sent[i])
              /\ k < Len(sent) => ~Aged(sent[k + 1])

NapWrongSign(head) == IF Window + (now - head) > MinNap THEN Window + (now - head) ELSE MinNap   \* mutant
Nap(head) == IF Window - (now - head) > MinNap THEN Window - (now - head) ELSE MinNap

\* The send loop asks for a slot.
Call ==
    /\ caller = "idle" /\ Len(log) < MaxSends
    /\ caller' = "trying" /\ since' = now
    /\ UNCHANGED <<now, sent, wake, log, lives, life, lifeStart>>

GrantOneMore ==   \* mutant: off by one
    /\ caller = "trying"
    /\ \E k \in 0..Len(sent) :
          /\ Leading(k)
          /\ Len(sent) - k <= Capacity
          /\ sent' = SubSeq(sent, k + 1, Len(sent)) \o <<now>>
    /\ log' = Append(log, now) /\ lives' = Append(lives, life)
    /\ caller' = "idle"
    /\ UNCHANGED <<now, since, wake, life, lifeStart>>

Grant ==
    /\ caller = "trying"
    /\ \E k \in 0..Len(sent) :
          /\ Leading(k)
          /\ Len(sent) - k < Capacity
          /\ sent' = SubSeq(sent, k + 1, Len(sent)) \o <<now>>
    /\ log' = Append(log, now) /\ lives' = Append(lives, life)
    /\ caller' = "idle"
    /\ UNCHANGED <<now, since, wake, life, lifeStart>>

GoToSleep ==
    /\ caller = "trying"
    /\ \E k \in 0..Len(sent) :
          /\ Leading(k)
          /\ Len(sent) - k >= Capacity
          /\ sent' = SubSeq(sent, k + 1, Len(sent))
          /\ wake' = now + Nap(sent[k + 1])
    /\ caller' = "asleep"
    /\ UNCHANGED <<now, since, log, lives, life, lifeStart>>

\* asyncio fires the timer; acquire looks again.
Wake ==
    /\ caller = "asleep" /\ now + Early >= wake
    /\ caller' = "trying"
    /\ UNCHANGED <<now, sent, since, wake, log, lives, life, lifeStart>>

\* The clock moves, but not past a timer that is overdue by Late, nor while
\* acquire runs.
Tick ==
    /\ now < MaxTime
    /\ caller # "trying"
    /\ caller = "asleep" => now < wake + Late
    /\ now' = now + 1
    /\ UNCHANGED <<sent, caller, since, wake, log, lives, life, lifeStart>>

\* A new process has a new limiter.
Restart ==
    /\ life < MaxLives
    /\ sent' = <<>> /\ caller' = "idle"
    /\ life' = life + 1 /\ lifeStart' = Len(log)
    /\ UNCHANGED <<now, since, wake, log, lives>>

\* The bounds are reached; the limiter itself never stops.
Horizon == now = MaxTime /\ UNCHANGED vars

Next == Call \/ Grant \/ GoToSleep \/ Wake \/ Tick \/ Restart \/ Horizon

Spec == Init /\ [][Next]_vars

-----------------------------------------------------------------------------
\* The reason for the limiter: within one process life no Capacity + 1 sends
\* fall in one window, however calls, naps and early or late timers fall.
\* Across restarts, which forget the window, a burst grows by one window's worth
\* for each process that took part in it and no more: j - i + 1 sends less than
\* a window apart need that many processes.
BurstBound ==
    \A j \in 1..Len(log) : \A i \in 1..j - 1 :
        log[j] - log[i] < Window => j - i < Capacity * (1 + lives[j] - lives[i])

\* acquire sleeps only when the window really is full: a caller that may send
\* is never held back.
NoNeedlessNap ==
    [][GoToSleep =>
          Cardinality({i \in lifeStart + 1..Len(log) : now - log[i] < Window}) >= Capacity]_vars

\* No call waits longer than a window, whatever came before it: one that is
\* asleep is woken within a window, a nap and a late timer of its arrival.
BoundedWait == caller = "asleep" => now <= since + Window + MinNap + Late
=============================================================================
