--------------------------- MODULE ApprovalEngine ---------------------------
(* ApprovalEngine over the approvals of one execution: concurrent calls of   *)
(* approve and reject, the expiry they apply on the way, the run of an       *)
(* approved tool and the crash or error that cuts any of it short.  Every    *)
(* statement and every commit the code issues on its own is an action of its *)
(* own, because other sessions run in between (READ COMMITTED, no row is     *)
(* locked across statements).                                                *)
(*                                                                           *)
(* The gateway that asks for approvals and the runtime that cancels and      *)
(* finishes the execution appear as the updates they make to the same rows.  *)
EXTENDS Naturals

CONSTANTS
    Requests,   \* tool requests of the execution that need an approval
    Resolvers,  \* calls of approve and reject in flight at once
    NoRequest

ASSUME ApprovalAssumption == NoRequest \notin Requests

VARIABLES
    approval,   \* approval_requests.status, "NONE" before the row exists
    request,    \* tool_requests.status
    execution,  \* executions.status
    trail,      \* the audit events committed about each request
    overdue,    \* the approvals past their expires_at
    pc,
    subject,    \* the approval each call resolves
    approve,    \* the argument that tells approve from reject
    seen,       \* the execution status an expiry loaded for its chunk
    outcome,    \* what the tool returned
    runs,       \* history: how often each tool ran, 2 stands for more
    abandoned   \* history: claimed approvals whose call did not finish

rows == <<approval, request, execution, trail>>
calls == <<pc, subject, approve, seen, outcome>>
history == <<runs, abandoned>>
vars == <<rows, overdue, calls, history>>

ApprovalStatuses == {"NONE", "PENDING", "APPROVED", "REJECTED", "EXPIRED", "EXECUTED"}
RequestStatuses == {"REQUESTED", "REQUIRES_APPROVAL", "DENIED", "EXECUTED", "FAILED"}
Finals == {"COMPLETED", "FAILED", "BLOCKED"}
ExecutionStatuses == {"RUNNING", "WAITING_APPROVAL", "CANCELLED"} \cup Finals
Events == {"APPROVAL_REQUESTED", "APPROVAL_EXPIRED", "APPROVAL_REJECTED",
           "APPROVAL_APPROVED", "APPROVED_ACTION_EXECUTION_STARTED",
           "APPROVED_ACTION_EXECUTED", "APPROVED_ACTION_FAILED"}

Unclaimed == {"reading_clock", "expiring", "checking_request",
              "checking_execution", "claiming"}
Claimed == {"expired", "denying", "rejected", "approved", "announced",
            "running", "recording"}

TypeOK ==
    /\ approval \in [Requests -> ApprovalStatuses]
    /\ request \in [Requests -> RequestStatuses]
    /\ execution \in ExecutionStatuses
    /\ trail \in [Requests -> SUBSET Events]
    /\ overdue \subseteq Requests
    /\ pc \in [Resolvers -> {"idle"} \cup Unclaimed \cup Claimed]
    /\ subject \in [Resolvers -> Requests \cup {NoRequest}]
    /\ \A r \in Resolvers : subject[r] = NoRequest <=> pc[r] = "idle"
    /\ approve \in [Resolvers -> BOOLEAN]
    /\ seen \in [Resolvers -> ExecutionStatuses]
    /\ outcome \in [Resolvers -> {"EXECUTED", "FAILED"}]
    /\ runs \in [Requests -> 0 .. 2]
    /\ abandoned \subseteq Requests

Init ==
    /\ approval = [q \in Requests |-> "NONE"]
    /\ request = [q \in Requests |-> "REQUESTED"]
    /\ execution = "RUNNING"
    /\ trail = [q \in Requests |-> {}]
    /\ overdue = {}
    /\ pc = [r \in Resolvers |-> "idle"]
    /\ subject = [r \in Resolvers |-> NoRequest]
    /\ approve = [r \in Resolvers |-> FALSE]
    /\ seen = [r \in Resolvers |-> "RUNNING"]
    /\ outcome = [r \in Resolvers |-> "FAILED"]
    /\ runs = [q \in Requests |-> 0]
    /\ abandoned = {}

Goto(r, label) == pc' = [pc EXCEPT ![r] = label]
Record(q, event) == trail' = [trail EXCEPT ![q] = @ \cup {event}]

\* The call returns or dies: its locals are gone.
Return(r) ==
    /\ Goto(r, "idle")
    /\ subject' = [subject EXCEPT ![r] = NoRequest]
    /\ approve' = [approve EXCEPT ![r] = FALSE]
    /\ seen' = [seen EXCEPT ![r] = "RUNNING"]
    /\ outcome' = [outcome EXCEPT ![r] = "FAILED"]

-----------------------------------------------------------------------------
(* The rest of the system                                                    *)

\* Mutant: the gateway does not admit one pending approval at a time.
AdmitAlways == execution \in {"RUNNING", "WAITING_APPROVAL"}

\* The WHERE clause of the gateway's UPDATE of the execution.
Admit == execution = "RUNNING"

\* The gateway's last chunk for a request that needs approval; when it does
\* not get the execution, it rolls back and none of these rows change.
CreateApproval(q) ==
    /\ approval[q] = "NONE"
    /\ Admit
    /\ execution' = "WAITING_APPROVAL"
    /\ request' = [request EXCEPT ![q] = "REQUIRES_APPROVAL"]
    /\ approval' = [approval EXCEPT ![q] = "PENDING"]
    /\ Record(q, "APPROVAL_REQUESTED")
    /\ UNCHANGED <<overdue, calls, history>>

Overrun(q) ==
    /\ approval[q] # "NONE"
    /\ overdue' = overdue \cup {q}
    /\ UNCHANGED <<rows, calls, history>>

\* The UPDATE of AgentRuntime.cancel.
Cancel ==
    /\ execution \in {"RUNNING", "WAITING_APPROVAL"}
    /\ execution' = "CANCELLED"
    /\ UNCHANGED <<approval, request, trail, overdue, calls, history>>

\* The runtime's last step, guarded by RUNNING in its UPDATE.
Finish ==
    /\ execution = "RUNNING"
    /\ execution' \in Finals
    /\ UNCHANGED <<approval, request, trail, overdue, calls, history>>

-----------------------------------------------------------------------------
(* _resolve up to its claim                                                  *)

\* A call that finds no PENDING approval returns without a change.
ReadApproval(r) ==
    /\ pc[r] = "idle"
    /\ \E q \in Requests, yes \in BOOLEAN :
          /\ approval[q] = "PENDING"
          /\ subject' = [subject EXCEPT ![r] = q]
          /\ approve' = [approve EXCEPT ![r] = yes]
    /\ Goto(r, "reading_clock")
    /\ UNCHANGED <<rows, overdue, seen, outcome, history>>

\* Mutant: the expiry is not applied before the approval is resolved.
NeverLate(q) == FALSE

Late(q) == q \in overdue

\* `now` is read once; the claim below compares expires_at with the same
\* value, so a call that gets past this point passes that comparison.
ReadClock(r) ==
    /\ pc[r] = "reading_clock"
    /\ Goto(r, IF Late(subject[r]) THEN "expiring" ELSE "checking_request")
    /\ UNCHANGED <<rows, overdue, subject, approve, seen, outcome, history>>

CheckRequest(r) ==
    /\ pc[r] = "checking_request"
    /\ IF request[subject[r]] = "REQUIRES_APPROVAL"
       THEN Goto(r, "checking_execution") /\ UNCHANGED <<subject, approve, seen, outcome>>
       ELSE Return(r)
    /\ UNCHANGED <<rows, overdue, history>>

CheckExecution(r) ==
    /\ pc[r] = "checking_execution"
    /\ IF execution = "WAITING_APPROVAL"
       THEN Goto(r, "claiming") /\ UNCHANGED <<subject, approve, seen, outcome>>
       ELSE Return(r)
    /\ UNCHANGED <<rows, overdue, history>>

\* Mutant: the UPDATE does not compare the status it read earlier.
ClaimableAnyway(q) == approval[q] # "NONE"

\* The WHERE clause of both claims, the resolution's and the expiry's.
Claimable(q) == approval[q] = "PENDING"

Claim(r) ==
    /\ pc[r] = "claiming"
    /\ IF Claimable(subject[r])
       THEN /\ approval' = [approval EXCEPT ![subject[r]] =
                               IF approve[r] THEN "APPROVED" ELSE "REJECTED"]
            /\ Goto(r, IF approve[r] THEN "approved" ELSE "rejected")
            /\ UNCHANGED <<subject, approve, seen, outcome>>
       ELSE Return(r) /\ UNCHANGED approval
    /\ UNCHANGED <<request, execution, trail, overdue, history>>

-----------------------------------------------------------------------------
(* _lazy_expire                                                              *)

ExpireClaim(r) ==
    /\ pc[r] = "expiring"
    /\ IF Claimable(subject[r])
       THEN /\ approval' = [approval EXCEPT ![subject[r]] = "EXPIRED"]
            /\ Goto(r, "expired")
            /\ UNCHANGED <<subject, approve, seen, outcome>>
       ELSE Return(r) /\ UNCHANGED approval
    /\ UNCHANGED <<request, execution, trail, overdue, history>>

\* The rows its chunk decides by, read again when the chunk collides.  The
\* request is the call's own by now, so only the execution can be stale.
LoadForExpiry(r) ==
    /\ pc[r] \in {"expired", "denying"}
    /\ seen' = [seen EXCEPT ![r] = execution]
    /\ Goto(r, "denying")
    /\ UNCHANGED <<rows, overdue, subject, approve, outcome, history>>

\* Mutant: the expiry leaves the execution waiting.
ExpiryResumes(r) == FALSE

\* Decided by the status that was loaded; the row may have another by now.
Resumes(r) == seen[r] = "WAITING_APPROVAL"

\* Mutant: the request takes the status of its approval.
DeniedAsExpired(status) == "EXPIRED"

\* Mutant: the request stays as it is.
NotDenied(status) == status

Denied(status) == IF status = "REQUIRES_APPROVAL" THEN "DENIED" ELSE status

ExpiryChunk(r) ==
    /\ pc[r] = "denying"
    /\ Record(subject[r], "APPROVAL_EXPIRED")
    /\ request' = [request EXCEPT ![subject[r]] = Denied(@)]
    /\ execution' = IF Resumes(r) THEN "RUNNING" ELSE execution
    /\ Return(r)
    /\ UNCHANGED <<approval, overdue, history>>

-----------------------------------------------------------------------------
(* The claimed resolution                                                    *)

RejectChunk(r) ==
    /\ pc[r] = "rejected"
    /\ Record(subject[r], "APPROVAL_REJECTED")
    /\ request' = [request EXCEPT ![subject[r]] = "DENIED"]
    /\ execution' = "RUNNING"
    /\ Return(r)
    /\ UNCHANGED <<approval, overdue, history>>

Announce(r) ==
    /\ pc[r] = "approved"
    /\ Record(subject[r], "APPROVAL_APPROVED")
    /\ Goto(r, "announced")
    /\ UNCHANGED <<approval, request, execution, overdue,
                   subject, approve, seen, outcome, history>>

\* Mutant: the start is recorded after the tool has run.
RecordNothing(q) == UNCHANGED trail

RecordStart(q) == Record(q, "APPROVED_ACTION_EXECUTION_STARTED")

Start(r) ==
    /\ pc[r] = "announced"
    /\ RecordStart(subject[r])
    /\ Goto(r, "running")
    /\ UNCHANGED <<approval, request, execution, overdue,
                   subject, approve, seen, outcome, history>>

\* The tool commits what it does on its own.  It succeeds, it fails, it
\* raises, or it is no longer registered and does not run.
RunTool(r) ==
    /\ pc[r] = "running"
    /\ \/ /\ runs' = [runs EXCEPT ![subject[r]] = IF @ < 2 THEN @ + 1 ELSE @]
          /\ \E how \in {"EXECUTED", "FAILED"} : outcome' = [outcome EXCEPT ![r] = how]
       \/ /\ outcome' = [outcome EXCEPT ![r] = "FAILED"]
          /\ UNCHANGED runs
    /\ Goto(r, "recording")
    /\ UNCHANGED <<rows, overdue, subject, approve, seen, abandoned>>

OutcomeChunk(r) ==
    /\ pc[r] = "recording"
    /\ Record(subject[r], IF outcome[r] = "EXECUTED" THEN "APPROVED_ACTION_EXECUTED"
                                                     ELSE "APPROVED_ACTION_FAILED")
    /\ approval' = [approval EXCEPT ![subject[r]] = "EXECUTED"]
    /\ request' = [request EXCEPT ![subject[r]] = outcome[r]]
    /\ execution' = "RUNNING"
    /\ Return(r)
    /\ UNCHANGED <<overdue, history>>

\* The process dies, or commit_chunk or the database raises and nothing
\* catches it: the transaction in progress is lost and nothing undoes the
\* commits before it.
Abandon(r) ==
    /\ pc[r] # "idle"
    /\ abandoned' = IF pc[r] \in Claimed THEN abandoned \cup {subject[r]} ELSE abandoned
    /\ Return(r)
    /\ UNCHANGED <<rows, overdue, runs>>

Proceed(r) ==
    \/ ReadClock(r) \/ CheckRequest(r) \/ CheckExecution(r) \/ Claim(r)
    \/ ExpireClaim(r) \/ LoadForExpiry(r) \/ ExpiryChunk(r) \/ RejectChunk(r)
    \/ Announce(r) \/ Start(r) \/ RunTool(r) \/ OutcomeChunk(r)

Next ==
    \/ Cancel \/ Finish
    \/ \E q \in Requests : CreateApproval(q) \/ Overrun(q)
    \/ \E r \in Resolvers : ReadApproval(r) \/ Proceed(r) \/ Abandon(r)

Spec == Init /\ [][Next]_vars

\* A call that has begun goes on: its thread runs, its tool returns, its chunk
\* is committed or raises.  Nobody has to call, cancel or crash.
Fairness == \A r \in Resolvers : WF_vars(Proceed(r))

FairSpec == Spec /\ Fairness

-----------------------------------------------------------------------------
(* Properties                                                                *)

Unsettled(q) ==
    \/ approval[q] \in {"PENDING", "APPROVED"}
    \/ approval[q] \in {"REJECTED", "EXPIRED"} /\ request[q] = "REQUIRES_APPROVAL"

\* The runtime trusts the execution's status: while it is RUNNING no approval
\* is open, claimed or about to run its tool, and while it is WAITING_APPROVAL
\* there is one to wait for.
StatusTellsTheWait ==
    /\ execution = "RUNNING" => \A q \in Requests : ~Unsettled(q)
    /\ execution = "WAITING_APPROVAL" => \E q \in Requests : Unsettled(q)

\* The audit trail and the tables tell one story: a tool runs only once its
\* approval and its start are on record, and a request is settled one way
\* exactly when the trail says so.
TrailTellsTheStory ==
    \A q \in Requests :
        /\ runs[q] > 0 => {"APPROVAL_APPROVED", "APPROVED_ACTION_EXECUTION_STARTED"}
                              \subseteq trail[q]
        /\ request[q] = "DENIED"
               <=> trail[q] \cap {"APPROVAL_REJECTED", "APPROVAL_EXPIRED"} # {}
        /\ request[q] = "EXECUTED" <=> "APPROVED_ACTION_EXECUTED" \in trail[q]
        /\ request[q] = "FAILED" <=> "APPROVED_ACTION_FAILED" \in trail[q]

\* Past its expiry an approval that no call has looked at in time can only
\* expire, whatever the operators do (APPROVAL_EXPIRY).
TooLate(q) ==
    /\ approval[q] = "PENDING"
    /\ q \in overdue
    /\ \A r \in Resolvers :
          subject[r] = q => pc[r] \in {"reading_clock", "expiring"}
TooLateExpires ==
    [][\A q \in Requests :
          TooLate(q) => TooLate(q)' \/ approval'[q] = "EXPIRED"]_vars

\* A claimed approval is settled, unless its call was cut short.
ClaimedIsSettled ==
    \A q \in Requests :
        approval[q] \in {"APPROVED", "REJECTED", "EXPIRED"}
            ~> ~Unsettled(q) \/ q \in abandoned

\* Terminal statuses are terminal (TERMINAL_EXECUTION_STATUSES).  An approval
\* claimed before a cancel undoes it.
TerminalIsFinal ==
    [][(execution \in Finals \cup {"CANCELLED"}) => execution' = execution]_vars

\* Whatever calls race, expire, crash or are cancelled, the engine is the gate
\* it promises to be: no second answer, no tool run without one, no second run.
Verdict(q) ==
    CASE approval[q] = "NONE" -> "unasked"
      [] approval[q] = "PENDING" -> "open"
      [] approval[q] = "APPROVED" -> "granted"
      [] approval[q] \in {"REJECTED", "EXPIRED"} /\ Unsettled(q) -> "refused"
      [] OTHER -> "settled"
Gate == INSTANCE ApprovalGate WITH verdict <- [q \in Requests |-> Verdict(q)]
ImplementsGate == Gate!GateSpec

=============================================================================
