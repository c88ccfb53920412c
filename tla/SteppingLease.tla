--------------------------- MODULE SteppingLease ----------------------------
(* The TTL'd stepping lease on one executions row: AgentRuntime's            *)
(* _claim_stepping and _release_stepping as step, resume,                    *)
(* submit_external_action and reconcile_external_step use them.              *)
(*                                                                           *)
(* Time is kept relative.  A timestamp is represented by its age, counted in *)
(* ticks and saturated at MaxAge, past which no comparison can change.  A    *)
(* caller reads the application's clock before its UPDATE reaches the        *)
(* database, so the UPDATE may carry a timestamp up to MaxLag ticks old.     *)
(*                                                                           *)
(* claim_id is a fresh uuid4.  A caller has one live claim at most and wins  *)
(* by overwriting whatever the row holds, so the caller stands for the id.   *)
EXTENDS Naturals

CONSTANTS
    Callers,
    Nobody,
    LEASE_TTL,  \* in ticks
    MaxLag      \* bound: how long an UPDATE may trail the clock it carries

ASSUME LeaseAssumption ==
    /\ Nobody \notin Callers
    /\ LEASE_TTL \in Nat
    /\ MaxLag \in Nat

VARIABLES
    stepping,           \* executions.stepping
    stepping_claim_id,  \* executions.stepping_claim_id
    claimed_age,        \* age of executions.stepping_claimed_at, 0 when NULL
    pc,                 \* where each caller is
    now_age             \* age of the `now` each caller read for its claim

row == <<stepping, stepping_claim_id, claimed_age>>
vars == <<stepping, stepping_claim_id, claimed_age, pc, now_age>>

MaxAge == LEASE_TTL + MaxLag + 1
Ages == 0 .. MaxAge

Holding(c) == pc[c] = "holding"
Owns(c) == stepping /\ stepping_claim_id = c

TypeOK ==
    /\ stepping \in BOOLEAN
    /\ stepping_claim_id \in Callers \cup {Nobody}
    /\ claimed_age \in Ages
    /\ pc \in [Callers -> {"idle", "claiming", "holding"}]
    /\ now_age \in [Callers -> Ages]
    \* the three columns are set and cleared together
    /\ stepping <=> stepping_claim_id # Nobody
    /\ ~stepping => claimed_age = 0
    \* a claim in flight carries a clock read at most MaxLag ticks ago
    /\ \A c \in Callers : pc[c] = "claiming" => now_age[c] <= MaxLag

Init ==
    /\ stepping = FALSE
    /\ stepping_claim_id = Nobody
    /\ claimed_age = 0
    /\ pc = [c \in Callers |-> "idle"]
    /\ now_age = [c \in Callers |-> 0]

-----------------------------------------------------------------------------
(* One caller                                                                *)

ReadClock(c) ==
    /\ pc[c] = "idle"
    /\ pc' = [pc EXCEPT ![c] = "claiming"]
    /\ now_age' = [now_age EXCEPT ![c] = 0]
    /\ UNCHANGED row

\* Mutant: the plain boolean claim that the TTL'd lease replaced.
ClaimableIfFree(c) == ~stepping

\* Mutant: a lease is taken over in the last tick of its TTL.
ClaimableTooEarly(c) == ~stepping \/ claimed_age >= now_age[c] + LEASE_TTL

\* The WHERE clause of the claim's UPDATE.
Claimable(c) == ~stepping \/ claimed_age > now_age[c] + LEASE_TTL

ClaimWon(c) ==
    /\ pc[c] = "claiming"
    /\ Claimable(c)
    /\ stepping' = TRUE
    /\ stepping_claim_id' = c
    /\ claimed_age' = now_age[c]
    /\ pc' = [pc EXCEPT ![c] = "holding"]
    /\ UNCHANGED now_age

Leave(c) ==
    /\ pc' = [pc EXCEPT ![c] = "idle"]
    /\ now_age' = [now_age EXCEPT ![c] = 0]

\* Zero rows matched: the caller answers CONFLICT.
ClaimLost(c) ==
    /\ pc[c] = "claiming"
    /\ ~Claimable(c)
    /\ Leave(c)
    /\ UNCHANGED row

\* The SET clause of the release's UPDATE.
ClearRow ==
    /\ stepping' = FALSE
    /\ stepping_claim_id' = Nobody
    /\ claimed_age' = 0

\* Mutant: a release that does not compare the claim.
AnyClaim(c) == stepping

\* The WHERE clause of the release's UPDATE.
StillMine(c) == stepping_claim_id = c

\* The `finally` of the critical section.
Release(c) ==
    /\ pc[c] = "holding"
    /\ IF StillMine(c) THEN ClearRow ELSE UNCHANGED row
    /\ Leave(c)

\* The process dies and its `finally` never runs.
Crash(c) ==
    /\ pc[c] # "idle"
    /\ Leave(c)
    /\ UNCHANGED row

-----------------------------------------------------------------------------
(* The clock                                                                 *)

Older(age) == IF age < MaxAge THEN age + 1 ELSE age

Tick ==
    /\ \A c \in Callers : pc[c] = "claiming" => now_age[c] < MaxLag
    /\ claimed_age' = IF stepping THEN Older(claimed_age) ELSE 0
    /\ now_age' = [c \in Callers |->
                     IF pc[c] = "idle" THEN 0 ELSE Older(now_age[c])]
    /\ UNCHANGED <<stepping, stepping_claim_id, pc>>

Next ==
    \/ Tick
    \/ \E c \in Callers :
          ReadClock(c) \/ ClaimWon(c) \/ ClaimLost(c) \/ Release(c) \/ Crash(c)

Spec == Init /\ [][Next]_vars

-----------------------------------------------------------------------------
(* Properties                                                                *)

\* Of two callers inside the critical section at once, one has been there
\* longer than LEASE_TTL: the lease excludes callers that keep to the TTL
\* (agent_runtime.py, "Lease safety model").
FreshHoldersExclude ==
    \A c, d \in Callers :
        c # d /\ Holding(c) /\ Holding(d)
            => now_age[c] > LEASE_TTL \/ now_age[d] > LEASE_TTL

\* Only the caller whose claim the row carries can free it; a zombie's release
\* leaves the claim of its successor alone
\* (test_zombie_holder_cannot_clear_a_recovered_claim).
OnlyOwnerFrees ==
    [][stepping /\ ~stepping'
           => /\ Holding(stepping_claim_id)
              /\ pc'[stepping_claim_id] = "idle"]_vars

\* A lease whose holder died is taken over or freed, as long as claims keep
\* reaching the database (test_stale_claim_is_recovered).
Abandoned == stepping /\ ~Holding(stepping_claim_id)
ClaimArrives == \E c \in Callers : ClaimWon(c) \/ ClaimLost(c)
AbandonedLeaseRecovered ==
    []<><<ClaimArrives>>_vars => (Abandoned ~> ~Abandoned)

\* The lease with clocks implements the lease without.
Abstract ==
    INSTANCE Lease WITH
        owner <- stepping_claim_id,
        overdue <- claimed_age > LEASE_TTL,
        inside <- {c \in Callers : Holding(c)}
ImplementsLease == Abstract!LeaseSpec

=============================================================================
