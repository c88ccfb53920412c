------------------------ MODULE SteppingLease_proofs ------------------------
(* What TLC checks for three callers, proved for any number of callers, any  *)
(* LEASE_TTL and any lag between a caller's clock and its UPDATE.            *)
EXTENDS SteppingLease, TLAPS

LEMMA OlderType == \A age \in Ages : Older(age) \in Ages /\ Older(age) >= age
  BY LeaseAssumption DEF Older, Ages, MaxAge

\* The columns and the callers' local state keep their types, and the three
\* lease columns are set and cleared together.
THEOREM TypeCorrect == Spec => []TypeOK
<1>1. Init => TypeOK
  <2>1. 0 \in Ages
    BY LeaseAssumption DEF Ages, MaxAge
  <2> QED
    BY <2>1, LeaseAssumption DEF Init, TypeOK
<1>2. TypeOK /\ [Next]_vars => TypeOK'
  <2> SUFFICES ASSUME TypeOK, [Next]_vars PROVE TypeOK'
    OBVIOUS
  <2> USE LeaseAssumption DEF TypeOK
  <2>0. 0 \in Ages /\ \A a \in Ages : a <= MaxAge /\ a \in Nat
    BY DEF Ages, MaxAge
  <2>1. ASSUME NEW c \in Callers, ReadClock(c) PROVE TypeOK'
    BY <2>0, <2>1 DEF ReadClock, row
  <2>2. ASSUME NEW c \in Callers, ClaimWon(c) PROVE TypeOK'
    BY <2>2 DEF ClaimWon
  <2>3. ASSUME NEW c \in Callers, ClaimLost(c) PROVE TypeOK'
    BY <2>0, <2>3 DEF ClaimLost, Leave, row
  <2>4. ASSUME NEW c \in Callers, Release(c) PROVE TypeOK'
    BY <2>0, <2>4 DEF Release, StillMine, ClearRow, Leave, row
  <2>5. ASSUME NEW c \in Callers, Crash(c) PROVE TypeOK'
    BY <2>0, <2>5 DEF Crash, Leave, row
  <2>6. CASE Tick
    <3>1. claimed_age' \in Ages /\ (~stepping' => claimed_age' = 0)
      BY <2>0, <2>6, OlderType DEF Tick
    <3>2. now_age' \in [Callers -> Ages]
      BY <2>0, <2>6, OlderType DEF Tick
    <3>3. \A c \in Callers : pc'[c] = "claiming" => now_age'[c] <= MaxLag
      <4> TAKE c \in Callers
      <4> HAVE pc'[c] = "claiming"
      <4>1. pc[c] = "claiming" /\ now_age[c] < MaxLag /\ now_age[c] \in Nat
        BY <2>0, <2>6 DEF Tick
      <4>2. now_age'[c] = now_age[c] + 1
        BY <2>6, <4>1 DEF Tick, Older, MaxAge
      <4> QED
        BY <4>1, <4>2
    <3> QED
      BY <2>6, <3>1, <3>2, <3>3 DEF Tick
  <2>7. CASE UNCHANGED vars
    BY <2>7 DEF vars
  <2> QED
    BY <2>1, <2>2, <2>3, <2>4, <2>5, <2>6, <2>7 DEF Next
<1> QED
  BY <1>1, <1>2, PTL DEF Spec

-----------------------------------------------------------------------------
(* The exclusion is not inductive by itself: nothing in it ties a holder to  *)
(* the row.  A holder still owns the row, with the timestamp that it read    *)
(* itself, or its time is up.                                                *)
HolderOwnsOrOverran ==
    \A c \in Callers :
        Holding(c) => \/ Owns(c) /\ claimed_age = now_age[c]
                      \/ now_age[c] > LEASE_TTL

LEMMA OwnsOrOverranInit == Init => HolderOwnsOrOverran
  BY DEF Init, HolderOwnsOrOverran, Holding

LEMMA OwnsOrOverranStep ==
  TypeOK /\ HolderOwnsOrOverran /\ [Next]_vars => HolderOwnsOrOverran'
<1> SUFFICES ASSUME TypeOK, HolderOwnsOrOverran, [Next]_vars,
                    NEW h \in Callers, Holding(h)'
             PROVE  \/ Owns(h)' /\ claimed_age' = now_age'[h]
                    \/ now_age'[h] > LEASE_TTL
  BY DEF HolderOwnsOrOverran
<1> USE LeaseAssumption DEF TypeOK, Holding, Owns
<1>0. \A a \in Ages : a \in Nat
  BY DEF Ages, MaxAge
<1>h. pc[h] = "holding" => \/ Owns(h) /\ claimed_age = now_age[h]
                           \/ now_age[h] > LEASE_TTL
  BY DEF HolderOwnsOrOverran
<1>1. ASSUME NEW c \in Callers, ReadClock(c) PROVE h # c /\ pc[h] = "holding"
  BY <1>1 DEF ReadClock
<1>2. ASSUME NEW c \in Callers, ClaimWon(c)
      PROVE  \/ Owns(h)' /\ claimed_age' = now_age'[h]
             \/ now_age'[h] > LEASE_TTL
  <2>1. CASE h = c
    BY <1>2, <2>1 DEF ClaimWon
  <2>2. CASE h # c
    <3>1. pc[h] = "holding" /\ now_age'[h] = now_age[h]
      BY <1>2, <2>2 DEF ClaimWon
    <3>2. now_age[h] \in Nat /\ now_age[c] \in Nat /\ claimed_age \in Nat
      BY <1>0
    <3>3. CASE Owns(h) /\ claimed_age = now_age[h]
      <4>1. claimed_age > now_age[c] + LEASE_TTL
        BY <1>2, <3>3 DEF ClaimWon, Claimable
      <4> QED
        BY <3>1, <3>2, <3>3, <4>1
    <3> QED
      BY <1>h, <3>1, <3>3
  <2> QED
    BY <2>1, <2>2
<1>3. ASSUME NEW c \in Callers, Leave(c) PROVE h # c /\ pc[h] = "holding"
  BY <1>3 DEF Leave
<1>4. ASSUME NEW c \in Callers, Release(c)
      PROVE  \/ Owns(h)' /\ claimed_age' = now_age'[h]
             \/ now_age'[h] > LEASE_TTL
  <2>1. h # c /\ pc[h] = "holding" /\ now_age'[h] = now_age[h]
    BY <1>3, <1>4 DEF Release, Leave
  <2>2. CASE Owns(h)
    BY <1>h, <1>4, <2>1, <2>2 DEF Release, StillMine, row
  <2> QED
    BY <1>h, <2>1, <2>2
<1>5. CASE Tick
  <2>1. pc[h] = "holding" /\ now_age'[h] = Older(now_age[h])
    BY <1>5 DEF Tick
  <2>2. CASE Owns(h) /\ claimed_age = now_age[h]
    BY <1>5, <2>1, <2>2 DEF Tick
  <2>3. CASE now_age[h] > LEASE_TTL
    BY <1>0, <2>1, <2>3, OlderType
  <2> QED
    BY <1>h, <2>1, <2>2, <2>3
<1>6. CASE UNCHANGED vars
  BY <1>h, <1>6 DEF vars
<1>7. ASSUME NEW c \in Callers, ReadClock(c) \/ ClaimLost(c) \/ Crash(c)
      PROVE  \/ Owns(h)' /\ claimed_age' = now_age'[h]
             \/ now_age'[h] > LEASE_TTL
  <2>1. h # c /\ pc[h] = "holding"
    BY <1>1, <1>3, <1>7 DEF ClaimLost, Crash
  <2>2. now_age'[h] = now_age[h]
    BY <1>7, <2>1 DEF ReadClock, ClaimLost, Crash, Leave
  <2> QED
    BY <1>h, <1>7, <2>1, <2>2 DEF ReadClock, ClaimLost, Crash, row
<1> QED
  BY <1>2, <1>4, <1>5, <1>6, <1>7 DEF Next

\* Two callers are inside the critical section together only when one of them
\* has outlived LEASE_TTL.
THEOREM Exclusion == Spec => []FreshHoldersExclude
<1>1. TypeOK /\ HolderOwnsOrOverran => FreshHoldersExclude
  BY DEF HolderOwnsOrOverran, FreshHoldersExclude, Owns
<1> QED
  BY <1>1, TypeCorrect, OwnsOrOverranInit, OwnsOrOverranStep, PTL DEF Spec

-----------------------------------------------------------------------------

\* A lease is freed by the caller whose claim it carries and by nobody else.
THEOREM OwnerFrees == Spec => OnlyOwnerFrees
<1>1. TypeOK /\ [Next]_vars =>
        [stepping /\ ~stepping'
           => /\ Holding(stepping_claim_id)
              /\ pc'[stepping_claim_id] = "idle"]_vars
  BY DEF TypeOK, Next, Tick, ReadClock, ClaimWon, ClaimLost, Release, Crash,
         StillMine, ClearRow, Leave, Holding, row, vars
<1> QED
  BY <1>1, TypeCorrect, PTL DEF Spec, OnlyOwnerFrees

-----------------------------------------------------------------------------

\* The lease with clocks implements the lease of module Lease: each of its
\* steps acquires, overruns, releases or dies there, or stutters.
THEOREM Refinement == Spec => ImplementsLease
<1> USE LeaseAssumption DEF TypeOK, Holding, Abstract!leaseVars
<1>0. TypeOK => /\ \A c \in Callers : now_age[c] \in Nat
                /\ claimed_age \in Nat
  BY DEF Ages, MaxAge
<1>1. Init => Abstract!LeaseInit
  BY DEF Init, Abstract!LeaseInit
<1>2. TypeOK /\ [Next]_vars => [Abstract!LeaseNext]_(Abstract!leaseVars)
  <2> SUFFICES ASSUME TypeOK, [Next]_vars
               PROVE  Abstract!LeaseNext \/ UNCHANGED Abstract!leaseVars
    OBVIOUS
  <2> DEFINE inside == {c \in Callers : Holding(c)}
             Same == UNCHANGED <<stepping_claim_id, claimed_age, inside>>
  <2>s. Same => UNCHANGED Abstract!leaseVars
    OBVIOUS
  <2>1. ASSUME NEW c \in Callers, ReadClock(c) PROVE Same
    BY <2>1 DEF ReadClock, row
  <2>2. ASSUME NEW c \in Callers, ClaimWon(c) PROVE Abstract!Acquire(c)
    <3>1. c \notin inside /\ inside' = inside \cup {c}
      BY <2>2 DEF ClaimWon
    <3>2. stepping_claim_id = Nobody \/ claimed_age > LEASE_TTL
      BY <1>0, <2>2 DEF ClaimWon, Claimable
    <3> QED
      BY <2>2, <3>1, <3>2 DEF ClaimWon, Abstract!Acquire
  <2>3. ASSUME NEW c \in Callers, ClaimLost(c) PROVE Same
    BY <2>3 DEF ClaimLost, Leave, row
  <2>4. ASSUME NEW c \in Callers, Release(c) PROVE Abstract!Release(c)
    <3>1. c \in inside /\ inside' = inside \ {c}
      BY <2>4 DEF Release, Leave
    <3> QED
      BY <2>4, <3>1
      DEF Release, StillMine, ClearRow, Leave, row, Abstract!Release
  <2>5. ASSUME NEW c \in Callers, Crash(c) PROVE Abstract!Die(c) \/ Same
    <3>1. inside' = inside \ {c}
      BY <2>5 DEF Crash, Leave
    <3> QED
      BY <2>5, <3>1 DEF Crash, Leave, row, Abstract!Die
  <2>6. CASE Tick
    <3>1. inside' = inside
      BY <2>6 DEF Tick
    <3>2. claimed_age' = claimed_age \/ (claimed_age' = claimed_age + 1 /\ stepping)
      BY <2>6 DEF Tick, Older
    <3>3. CASE claimed_age' = claimed_age
      BY <2>6, <3>1, <3>3 DEF Tick
    <3>4. CASE claimed_age' = claimed_age + 1 /\ stepping
      <4>1. (claimed_age' > LEASE_TTL) <=> (claimed_age >= LEASE_TTL)
        BY <1>0, <3>4
      <4> QED
        BY <1>0, <2>6, <3>1, <3>4, <4>1 DEF Tick, Abstract!Overrun, Abstract!LeaseNext
    <3> QED
      BY <3>2, <3>3, <3>4
  <2>7. CASE UNCHANGED vars
    BY <2>7 DEF vars
  <2> QED
    BY <2>s, <2>1, <2>2, <2>3, <2>4, <2>5, <2>6, <2>7
    DEF Next, Abstract!LeaseNext
<1> QED
  BY <1>1, <1>2, TypeCorrect, PTL DEF Spec, ImplementsLease, Abstract!LeaseSpec

=============================================================================
