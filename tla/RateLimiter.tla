----------------------------- MODULE RateLimiter -----------------------------
(* rate_limit: the sliding window of one bucket, that is of one operator on  *)
(* one group of endpoints in one process, and the threads that ask it.       *)
(*                                                                           *)
(* A thread reads the monotonic clock before it takes the lock, so the deque *)
(* holds clock readings in the order of the lock and not of the clock.  Time *)
(* is kept as ages in ticks, saturated where no comparison can change.       *)
EXTENDS Naturals, Sequences, FiniteSets

CONSTANTS
    Threads,
    MAX_REQUESTS,
    WINDOW,     \* window_seconds, in ticks
    LockLag     \* bound: how long a thread may wait for the lock

VARIABLES
    window,     \* the bucket's deque, as the ages of its readings
    asking,     \* the age of the reading each thread waits with, or Out
    passed      \* history: how many calls were let through so many ticks ago

limiterVars == <<window, asking, passed>>

\* A period that is shorter than the window by the longest wait for the lock.
Period == 0 .. WINDOW - LockLag

OldestAge == WINDOW + LockLag + 1
Out == OldestAge + 1

Asking(t) == asking[t] # Out

LimiterTypeOK ==
    /\ window \in Seq(0 .. OldestAge)
    /\ Len(window) <= MAX_REQUESTS
    /\ asking \in [Threads -> 0 .. LockLag \cup {Out}]
    /\ passed \in [Period -> Nat]

LimiterInit ==
    /\ window = <<>>
    /\ asking = [t \in Threads |-> Out]
    /\ passed = [ago \in Period |-> 0]

-----------------------------------------------------------------------------
(* One call of rate_limit                                                    *)

ReadMonotonic(t) ==
    /\ ~Asking(t)
    /\ asking' = [asking EXCEPT ![t] = 0]
    /\ UNCHANGED <<window, passed>>

\* Mutant: a reading is dropped in the last tick of its window.
ExpiredEarly(age, now_age) == age >= now_age + WINDOW

Expired(age, now_age) == age > now_age + WINDOW

\* The deque without the readings that have expired, taken from its left end
\* up to the first that has not.
Trimmed(now_age) ==
    LET live == {i \in DOMAIN window : ~Expired(window[i], now_age)}
    IN IF live = {}
       THEN <<>>
       ELSE SubSeq(window, CHOOSE i \in live : \A j \in live : i <= j, Len(window))

Full(now_age) == Len(Trimmed(now_age)) >= MAX_REQUESTS

Admit(t) ==
    /\ Asking(t)
    /\ ~Full(asking[t])
    /\ window' = Append(Trimmed(asking[t]), asking[t])
    /\ passed' = [ago \in Period |-> passed[ago] + (IF ago = 0 THEN 1 ELSE 0)]
    /\ asking' = [asking EXCEPT ![t] = Out]

\* Mutant: a refused call counts as well.
RefusedCounts(now_age) == Append(Tail(Trimmed(now_age)), now_age)

\* What a refusal leaves in the deque.
LeftByRefusal(now_age) == Trimmed(now_age)

\* 429 RATE_LIMITED.
Refuse(t) ==
    /\ Asking(t)
    /\ Full(asking[t])
    /\ window' = LeftByRefusal(asking[t])
    /\ asking' = [asking EXCEPT ![t] = Out]
    /\ UNCHANGED passed

\* A thread that dies before it took the lock leaves nothing behind.
Vanish(t) ==
    /\ asking' = [asking EXCEPT ![t] = Out]
    /\ UNCHANGED <<window, passed>>

-----------------------------------------------------------------------------
(* The clock                                                                 *)

Grown(age) == IF age < OldestAge THEN age + 1 ELSE age

LimiterTick ==
    /\ \A t \in Threads : Asking(t) => asking[t] < LockLag
    /\ window' = [i \in DOMAIN window |-> Grown(window[i])]
    /\ asking' = [t \in Threads |-> IF Asking(t) THEN asking[t] + 1 ELSE Out]
    /\ passed' = [ago \in Period |-> IF ago = 0 THEN 0 ELSE passed[ago - 1]]

-----------------------------------------------------------------------------
(* Properties                                                                *)

\* The calls let through in the period that ends now: so many each tick.
LetThrough == UNION {{<<ago, n>> : n \in 1 .. passed[ago]} : ago \in Period}

\* No Period of time, wherever it lies, sees more than MAX_REQUESTS calls get past
\* the limiter.  A call counts when it is let through, so what one does that read
\* the clock early and was overtaken at the lock counts with the calls it joins.
LimitHolds == Cardinality(LetThrough) <= MAX_REQUESTS

\* However often its callers ask, a bucket does not stay full.
BucketReopens == []<>~Full(0)

=============================================================================
