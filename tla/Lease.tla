------------------------------- MODULE Lease --------------------------------
(* What the stepping lease of one execution promises to the code that runs   *)
(* under it, without clocks: an owner that can be displaced once it is       *)
(* overdue, and a set of callers inside the critical section, of which all   *)
(* but the owner are zombies.  SteppingLease implements it, AgentRuntime     *)
(* runs on it.                                                               *)
EXTENDS Naturals

CONSTANTS
    Callers,    \* concurrent calls of step, resume, submit and reconcile
    Nobody      \* the NULL of stepping_claim_id

VARIABLES
    owner,      \* whose claim the executions row carries
    overdue,    \* the claim is old enough for somebody to take it over
    inside      \* the callers between their claim and their release

leaseVars == <<owner, overdue, inside>>

LeaseTypeOK ==
    /\ owner \in Callers \cup {Nobody}
    /\ overdue \in BOOLEAN
    /\ inside \subseteq Callers

LeaseInit ==
    /\ owner = Nobody
    /\ overdue = FALSE
    /\ inside = {}

\* A claim that its caller was slow to send may be overdue when it lands.
Acquire(c) ==
    /\ c \notin inside
    /\ owner = Nobody \/ overdue
    /\ owner' = c
    /\ overdue' \in BOOLEAN
    /\ inside' = inside \cup {c}

Overrun ==
    /\ owner # Nobody
    /\ overdue' = TRUE
    /\ UNCHANGED <<owner, inside>>

\* The owner frees the lease, a zombie leaves it alone.
Release(c) ==
    /\ c \in inside
    /\ inside' = inside \ {c}
    /\ IF owner = c
       THEN owner' = Nobody /\ overdue' = FALSE
       ELSE UNCHANGED <<owner, overdue>>

Die(c) ==
    /\ c \in inside
    /\ inside' = inside \ {c}
    /\ UNCHANGED <<owner, overdue>>

LeaseNext ==
    \/ Overrun
    \/ \E c \in Callers : Acquire(c) \/ Release(c) \/ Die(c)

LeaseSpec == LeaseInit /\ [][LeaseNext]_leaseVars

=============================================================================
