----------------------------- MODULE Submissions -----------------------------
(* POST /integrations/actions from client to lease: the SDK's                *)
(* submit_action_with_retry calls an endpoint behind the rate limiter, whose *)
(* handler enters the execution under its stepping lease.                    *)
(*                                                                           *)
(* The clients are one integration's, so they share a bucket, and act on one *)
(* execution, so they share a lease.  What the critical section does is left *)
(* open here.  A client that no longer waits leaves its handler running.     *)
EXTENDS SteppingLease, Sequences

CONSTANTS
    MAX_ATTEMPTS,   \* max_attempts of submit_action_with_retry
    MAX_REQUESTS,
    WINDOW,
    LockLag

ASSUME SubmissionsAssumption ==
    /\ MAX_ATTEMPTS \in Nat \ {0}
    /\ MAX_REQUESTS \in Nat \ {0}
    /\ WINDOW \in Nat
    /\ LockLag \in Nat

VARIABLES
    window, asking, passed,
    client,     \* what each client does: nothing, wait for an answer, sleep
    attempt,    \* which attempt of its call that is
    admitted,   \* handlers past the limiter and not yet at the lease
    running     \* executions.status = RUNNING

limiterVars == <<window, asking, passed>>
leaseVars == <<row, pc, now_age>>
clientVars == <<client, attempt>>
submissionVars == <<leaseVars, limiterVars, clientVars, admitted, running>>

Limiter == INSTANCE RateLimiter WITH Threads <- Callers

HandlerTypeOK ==
    /\ TypeOK
    /\ Limiter!LimiterTypeOK
    /\ client \in [Callers -> {"idle", "waiting", "sleeping"}]
    /\ attempt \in [Callers -> 0 .. MAX_ATTEMPTS]
    /\ admitted \subseteq Callers
    /\ running \in BOOLEAN
    /\ \A c \in Callers : client[c] = "idle" <=> attempt[c] = 0
    \* a handler is at one place at a time
    /\ \A c \in Callers : c \in admitted => pc[c] = "idle" /\ ~Limiter!Asking(c)
    /\ \A c \in Callers : Limiter!Asking(c) => pc[c] = "idle"

SubmissionsInit ==
    /\ Init
    /\ Limiter!LimiterInit
    /\ client = [c \in Callers |-> "idle"]
    /\ attempt = [c \in Callers |-> 0]
    /\ admitted = {}
    /\ running = TRUE

Handling(c) == Limiter!Asking(c) \/ c \in admitted \/ pc[c] # "idle"

-----------------------------------------------------------------------------
(* The client                                                                *)

Submit(c) ==
    /\ client[c] = "idle" /\ ~Handling(c)
    /\ client' = [client EXCEPT ![c] = "waiting"]
    /\ attempt' = [attempt EXCEPT ![c] = 1]
    /\ Limiter!ReadMonotonic(c)
    /\ UNCHANGED <<leaseVars, admitted, running>>

\* Mutant: the next call goes on counting.
CountsOn(c) == client' = [client EXCEPT ![c] = "idle"] /\ UNCHANGED attempt

EndCall(c) ==
    /\ client' = [client EXCEPT ![c] = "idle"]
    /\ attempt' = [attempt EXCEPT ![c] = 0]

TriesLeft(c) == attempt[c] < MAX_ATTEMPTS

\* The end of the sleep after an attempt.
Wake(c) ==
    /\ client[c] = "sleeping"
    /\ IF TriesLeft(c)
       THEN /\ client' = [client EXCEPT ![c] = "waiting"]
            /\ attempt' = [attempt EXCEPT ![c] = IF @ < MAX_ATTEMPTS THEN @ + 1 ELSE @]
            /\ Limiter!ReadMonotonic(c)
       ELSE EndCall(c) /\ UNCHANGED limiterVars
    /\ UNCHANGED <<leaseVars, admitted, running>>

\* requests gives up on the socket, which is no SafeOpsAPIError and is not
\* retried; the handler does not notice.
TimeOut(c) ==
    /\ client[c] = "waiting"
    /\ EndCall(c)
    /\ UNCHANGED <<leaseVars, limiterVars, admitted, running>>

\* 429 and 5xx are slept on and retried, every other answer ends the call.
Answer(c, retryable) ==
    IF client[c] # "waiting"
    THEN UNCHANGED clientVars
    ELSE IF retryable
         THEN client' = [client EXCEPT ![c] = "sleeping"] /\ UNCHANGED attempt
         ELSE EndCall(c)

-----------------------------------------------------------------------------
(* The handler                                                               *)

Pass(c) ==
    /\ Limiter!Admit(c)
    /\ admitted' = admitted \cup {c}
    /\ UNCHANGED <<leaseVars, clientVars, running>>

TooMany(c) ==
    /\ Limiter!Refuse(c)
    /\ Answer(c, TRUE)
    /\ UNCHANGED <<leaseVars, admitted, running>>

\* Mapping, tool, payload or execution is wrong, a 4xx, or the handler raised
\* before it came to the lease, a 5xx.
Deny(c) ==
    /\ c \in admitted
    /\ admitted' = admitted \ {c}
    /\ \/ Answer(c, FALSE)
       \/ Answer(c, TRUE)
    /\ UNCHANGED <<leaseVars, limiterVars, running>>

\* submit_external_action's look at the status: a NOOP is answered 503.
Enter(c) ==
    /\ c \in admitted
    /\ admitted' = admitted \ {c}
    /\ IF running
       THEN ReadClock(c) /\ UNCHANGED clientVars
       ELSE Answer(c, TRUE) /\ UNCHANGED leaseVars
    /\ UNCHANGED <<limiterVars, running>>

Win(c) == ClaimWon(c) /\ UNCHANGED <<limiterVars, clientVars, admitted, running>>

\* CONFLICT is answered 503.
Lose(c) ==
    /\ ClaimLost(c)
    /\ Answer(c, TRUE)
    /\ UNCHANGED <<limiterVars, admitted, running>>

\* The action was settled, or the second look at the status was a NOOP, or the
\* critical section raised.
Finish(c) ==
    /\ Release(c)
    /\ \/ Answer(c, FALSE)
       \/ Answer(c, TRUE)
    /\ UNCHANGED <<limiterVars, admitted, running>>

\* The process dies, and with it the connection.
Die(c) ==
    /\ Handling(c)
    /\ \/ Crash(c) /\ UNCHANGED limiterVars
       \/ pc[c] = "idle" /\ UNCHANGED leaseVars /\ Limiter!Vanish(c)
    /\ admitted' = admitted \ {c}
    /\ IF client[c] = "waiting" THEN EndCall(c) ELSE UNCHANGED clientVars
    /\ UNCHANGED running

-----------------------------------------------------------------------------
(* The surroundings                                                          *)

ExecutionEnds ==
    /\ running
    /\ running' = FALSE
    /\ UNCHANGED <<leaseVars, limiterVars, clientVars, admitted>>

TimePasses ==
    /\ Tick
    /\ Limiter!LimiterTick
    /\ UNCHANGED <<clientVars, admitted, running>>

Handle(c) == Pass(c) \/ TooMany(c) \/ Deny(c) \/ Enter(c) \/ Win(c) \/ Lose(c)

SubmissionsNext ==
    \/ TimePasses \/ ExecutionEnds
    \/ \E c \in Callers :
          Submit(c) \/ Wake(c) \/ TimeOut(c) \/ Handle(c) \/ Finish(c) \/ Die(c)

SubmissionsSpec == SubmissionsInit /\ [][SubmissionsNext]_submissionVars

\* Time passes and handlers get as far as the lease.  A critical section may last
\* for ever, and so may what a client does.
SubmissionsFairness ==
    /\ WF_submissionVars(TimePasses)
    /\ \A c \in Callers : WF_submissionVars(Handle(c))

FairSubmissions == SubmissionsSpec /\ SubmissionsFairness

-----------------------------------------------------------------------------
(* Properties                                                                *)

\* Nobody is let through the limiter more often than it says, with clients that
\* retry, time out and come back, and with calls overtaken at the lock (rate_limit).
LimitHolds == Limiter!LimitHolds

\* Retrying clients do not keep their own bucket shut: a 429 costs nothing.
BucketReopens == Limiter!BucketReopens

=============================================================================
