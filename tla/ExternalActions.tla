--------------------------- MODULE ExternalActions --------------------------
(* ExternalActionService over one execution: submit and get_status for       *)
(* requests that clients retry, the row that is their checkpoint, and the    *)
(* part of AgentRuntime they call (submit_external_action and                *)
(* reconcile_external_step) on the stepping lease, with the approvals that   *)
(* humans answer.  AgentRuntime has that part in full; here a submission     *)
(* claims a step, has its tool run, refused, parked or fail, and closes the  *)
(* step.  Its own second try of a failed read is left out: the tools here    *)
(* are those with side effects.                                              *)
(*                                                                           *)
(* A retry with another payload is answered with 409 and changes nothing, so *)
(* a request here has one payload.                                           *)
EXTENDS Naturals, Sequences

CONSTANTS
    Requests,       \* external_request_ids of one integration
    Tool,           \* the tool each request is for
    Handlers,       \* HTTP requests in progress at once
    Nobody,
    Patient,        \* a client waits for its call before it repeats it
    MaxSteps,       \* MAX_EXECUTION_STEPS
    MaxFaults       \* bound: handlers that die

ASSUME ExternalAssumption ==
    /\ Requests # {}
    /\ Nobody \notin Handlers
    /\ Patient \in BOOLEAN
    /\ MaxSteps \in Nat /\ MaxFaults \in Nat

VARIABLES
    status,         \* external_action_requests.status, NONE without a row
    parked,         \* its approval_request_id, as the number of the step, or 0
    execution,
    steps,          \* the execution_steps rows
    approval,       \* approval_requests.status of each step
    owner, stale, inside,   \* the stepping lease
    call,           \* where each handler is and what it holds
    ran,            \* history: how often each request's tool ran, 2 for more
    faults

leaseVars == <<owner, stale, inside>>
runtimeVars == <<execution, steps, approval>>
rowVars == <<status, parked>>
vars == <<rowVars, runtimeVars, leaseVars, call, ran, faults>>

Stepping == INSTANCE Lease WITH Callers <- Handlers, overdue <- stale

Statuses == {"NONE", "RECEIVED", "PROCESSING", "WAITING_APPROVAL", "EXECUTED", "BLOCKED", "FAILED"}
Terminal == {"EXECUTED", "BLOCKED", "FAILED"}
StepStatuses == {"PENDING", "COMPLETED", "WAITING_APPROVAL", "BLOCKED", "FAILED"}
Approvals == {"NONE", "PENDING", "APPROVED", "REJECTED", "EXECUTED", "FAILED"}
Labels == {"idle", "finding", "inserting", "searching", "syncing", "marking", "entering",
           "claiming", "claimed", "running", "closing", "leaving", "applying", "checking",
           "rereading"}

CallFor(q, label, submits) ==
    [at |-> label, request |-> q, submits |-> submits, reconciles |-> FALSE, seen |-> "NONE",
     step |-> 0, result |-> "FAILED"]

NoCall == CallFor(CHOOSE q \in Requests : TRUE, "idle", FALSE)

TypeOK ==
    /\ status \in [Requests -> Statuses]
    /\ parked \in [Requests -> 0 .. MaxSteps]
    /\ execution \in {"RUNNING", "WAITING_APPROVAL", "ENDED"}
    /\ steps \in Seq([request : Requests, status : StepStatuses])
    /\ Len(steps) <= MaxSteps
    /\ approval \in [1 .. MaxSteps -> Approvals]
    /\ Stepping!LeaseTypeOK
    /\ call \in [Handlers -> [at : Labels, request : Requests, submits : BOOLEAN,
                              reconciles : BOOLEAN, seen : Statuses, step : 0 .. MaxSteps,
                              result : StepStatuses \ {"PENDING"}]]
    /\ ran \in [Requests -> 0 .. 2]
    /\ faults \in 0 .. MaxFaults

Init ==
    /\ status = [q \in Requests |-> "NONE"]
    /\ parked = [q \in Requests |-> 0]
    /\ execution = "RUNNING"
    /\ steps = <<>>
    /\ approval = [i \in 1 .. MaxSteps |-> "NONE"]
    /\ Stepping!LeaseInit
    /\ call = [h \in Handlers |-> NoCall]
    /\ ran = [q \in Requests |-> 0]
    /\ faults = 0

At(h, label) == call[h].at = label
Goto(h, label) == call' = [call EXCEPT ![h].at = label]
Return(h) == call' = [call EXCEPT ![h] = NoCall]
Mine(h) == call[h].request
SetStatus(q, value) == status' = [status EXCEPT ![q] = value]

-----------------------------------------------------------------------------
(* submit and get_status up to the runtime                                   *)

Arrive(h) ==
    /\ At(h, "idle")
    /\ \E q \in Requests, submits \in BOOLEAN :
          /\ Patient => \A g \in Handlers : At(g, "idle") \/ Mine(g) # q
          /\ call' = [call EXCEPT ![h] = CallFor(q, "finding", submits)]
    /\ UNCHANGED <<rowVars, runtimeVars, leaseVars, ran, faults>>

\* Mutant: a failed request may be retried.
FindRetryable(h) ==
    /\ At(h, "finding")
    /\ LET found == status[Mine(h)]
           label == CASE found = "NONE" -> IF call[h].submits THEN "inserting" ELSE "idle"
                      [] found \in {"EXECUTED", "BLOCKED"} -> "idle"
                      [] found = "FAILED" -> IF call[h].submits THEN "marking" ELSE "idle"
                      [] found = "WAITING_APPROVAL" -> "checking"
                      [] found \in {"RECEIVED", "PROCESSING"} ->
                            IF call[h].submits THEN "searching" ELSE "idle"
       IN IF label = "idle" THEN Return(h)
          ELSE call' = [call EXCEPT ![h].at = label, ![h].seen = found,
                                    ![h].step = parked[Mine(h)]]
    /\ UNCHANGED <<rowVars, runtimeVars, leaseVars, ran, faults>>

\* _find_existing, then _resolve_existing or, for a status, the same without
\* the runtime.  A row that is terminal is replayed.
Find(h) ==
    /\ At(h, "finding")
    /\ LET found == status[Mine(h)]
           label == CASE found = "NONE" -> IF call[h].submits THEN "inserting" ELSE "idle"
                      [] found \in Terminal -> "idle"
                      [] found = "WAITING_APPROVAL" -> "checking"
                      [] found \in {"RECEIVED", "PROCESSING"} ->
                            IF call[h].submits THEN "searching" ELSE "idle"
       IN IF label = "idle" THEN Return(h)
          ELSE call' = [call EXCEPT ![h].at = label, ![h].seen = found,
                                    ![h].step = parked[Mine(h)]]
    /\ UNCHANGED <<rowVars, runtimeVars, leaseVars, ran, faults>>

\* UNIQUE(operator_id, external_request_id): the loser resolves the row of the
\* winner.
Insert(h) ==
    /\ At(h, "inserting")
    /\ IF status[Mine(h)] = "NONE"
       THEN /\ SetStatus(Mine(h), "RECEIVED")
            /\ call' = [call EXCEPT ![h].at = "marking", ![h].seen = "RECEIVED"]
       ELSE Goto(h, "finding") /\ UNCHANGED status
    /\ UNCHANGED <<parked, runtimeVars, leaseVars, ran, faults>>

\* Mutant: only a step that ran to its end counts as history.
MatchesCompleted(i, q) == Tool[steps[i].request] = Tool[q] /\ steps[i].status = "COMPLETED"

\* Mutant: any step that was decided.
MatchesAnyTool(i, q) == steps[i].status # "PENDING"

\* By tool, not by request: a step does not say which request it is for.
Matches(i, q) == Tool[steps[i].request] = Tool[q] /\ steps[i].status # "PENDING"

\* _find_matching_step, or 0.
Latest(q) ==
    LET matching == {i \in DOMAIN steps : Matches(i, q)}
    IN IF matching = {} THEN 0 ELSE CHOOSE i \in matching : \A j \in matching : j <= i

\* The step as it is now; the handler does not read it again.
Search(h) ==
    /\ At(h, "searching")
    /\ LET i == Latest(Mine(h))
       IN IF i = 0
          THEN IF call[h].reconciles THEN Return(h) ELSE Goto(h, "marking")
          ELSE call' = [call EXCEPT ![h].at = "syncing", ![h].step = i,
                                    ![h].result = steps[i].status]
    /\ UNCHANGED <<rowVars, runtimeVars, leaseVars, ran, faults>>

\* Mutant: the step's status is stored as the request's.
StatusAsIs(result) == result

StatusOf(result) == IF result = "COMPLETED" THEN "EXECUTED" ELSE result

\* _sync_from_step writes a status that differs from the one it has loaded.
Sync(h) ==
    /\ At(h, "syncing")
    /\ IF StatusOf(call[h].result) # call[h].seen
       THEN SetStatus(Mine(h), StatusOf(call[h].result))
       ELSE UNCHANGED status
    /\ parked' = IF call[h].result = "WAITING_APPROVAL"
                 THEN [parked EXCEPT ![Mine(h)] = call[h].step] ELSE parked
    /\ Return(h)
    /\ UNCHANGED <<runtimeVars, leaseVars, ran, faults>>

Mark(h) ==
    /\ At(h, "marking")
    /\ IF call[h].seen # "PROCESSING" THEN SetStatus(Mine(h), "PROCESSING") ELSE UNCHANGED status
    /\ Goto(h, "entering")
    /\ UNCHANGED <<parked, runtimeVars, leaseVars, ran, faults>>

-----------------------------------------------------------------------------
(* submit_external_action and reconcile_external_step                        *)

\* The runtime refuses an execution that does not run: 503, and the row stays
\* PROCESSING.  A reconcile also takes one that waits.
Enter(h) ==
    /\ At(h, "entering")
    /\ CASE execution = "RUNNING" \/ (call[h].reconciles /\ execution # "ENDED") ->
               Goto(h, "claiming")
         [] execution # "RUNNING" /\ ~call[h].reconciles -> Return(h)
         [] execution = "ENDED" /\ call[h].reconciles -> Goto(h, "searching")
    /\ UNCHANGED <<rowVars, runtimeVars, leaseVars, ran, faults>>

Claim(h) ==
    /\ At(h, "claiming")
    /\ Stepping!Acquire(h) /\ ~stale'
    /\ Goto(h, "claimed")
    /\ UNCHANGED <<rowVars, runtimeVars, ran, faults>>

Conflict(h) ==
    /\ At(h, "claiming")
    /\ owner # Nobody /\ ~stale
    /\ IF call[h].reconciles THEN Goto(h, "rereading") ELSE Return(h)
    /\ UNCHANGED <<rowVars, runtimeVars, leaseVars, ran, faults>>

Submit(h) ==
    /\ At(h, "claimed") /\ ~call[h].reconciles
    /\ IF execution # "RUNNING"
       THEN Stepping!Release(h) /\ Return(h) /\ UNCHANGED steps
       ELSE /\ Len(steps) < MaxSteps
            /\ steps' = Append(steps, [request |-> Mine(h), status |-> "PENDING"])
            /\ call' = [call EXCEPT ![h].at = "running", ![h].step = Len(steps) + 1]
            /\ UNCHANGED leaseVars
    /\ UNCHANGED <<rowVars, execution, approval, ran, faults>>

\* _fail_max_steps_exceeded: the execution ends, and no step is the request's.
Exceed(h) ==
    /\ At(h, "claimed") /\ ~call[h].reconciles
    /\ execution = "RUNNING" /\ Len(steps) = MaxSteps
    /\ execution' = "ENDED"
    /\ call' = [call EXCEPT ![h].at = "leaving", ![h].result = "FAILED"]
    /\ UNCHANGED <<rowVars, steps, approval, leaseVars, ran, faults>>

Once(q) == ran' = [ran EXCEPT ![q] = IF @ < 2 THEN @ + 1 ELSE 2]

\* ToolGateway.execute: refused, failed, run or parked.
RunTool(h) ==
    /\ At(h, "running")
    /\ \E result \in IF execution = "RUNNING" THEN StepStatuses \ {"PENDING"} ELSE {"FAILED"} :
          /\ call' = [call EXCEPT ![h].at = "closing", ![h].result = result]
          /\ CASE result = "COMPLETED" -> Once(Mine(h))
               [] result = "FAILED" -> (execution = "RUNNING" /\ Once(Mine(h))) \/ UNCHANGED ran
               [] result \in {"BLOCKED", "WAITING_APPROVAL"} -> UNCHANGED ran
          /\ IF result = "WAITING_APPROVAL"
             THEN /\ execution' = "WAITING_APPROVAL"
                  /\ approval' = [approval EXCEPT ![call[h].step] = "PENDING"]
             ELSE UNCHANGED <<execution, approval>>
    /\ UNCHANGED <<rowVars, steps, leaseVars, faults>>

\* _finalize: a refusal or failure ends an execution that runs.
Finalize(i, result) ==
    /\ steps' = [steps EXCEPT ![i].status = result]
    /\ execution' = IF result \in {"BLOCKED", "FAILED"} /\ execution = "RUNNING"
                    THEN "ENDED" ELSE execution

Close(h) ==
    /\ At(h, "closing")
    /\ Finalize(call[h].step, call[h].result)
    /\ Goto(h, "leaving")
    /\ UNCHANGED <<rowVars, approval, leaseVars, ran, faults>>

Resolution(i) ==
    CASE approval[i] = "EXECUTED" -> {"COMPLETED"}
      [] approval[i] = "FAILED" -> {"FAILED"}
      [] approval[i] = "REJECTED" -> {"BLOCKED", "FAILED"}
      [] approval[i] \in {"NONE", "PENDING", "APPROVED"} -> {}

\* The latest step that waits, if its approval is resolved.
Reconcile(h) ==
    /\ At(h, "claimed") /\ call[h].reconciles
    /\ LET waiting == {i \in DOMAIN steps : steps[i].status = "WAITING_APPROVAL"}
           latest == {i \in waiting : \A j \in waiting : j <= i}
       IN \/ \E i \in latest : \E result \in Resolution(i) : Finalize(i, result)
          \/ /\ \A i \in latest : Resolution(i) = {}
             /\ UNCHANGED <<steps, execution>>
    /\ Goto(h, "leaving")
    /\ UNCHANGED <<rowVars, approval, leaseVars, ran, faults>>

Leave(h) ==
    /\ At(h, "leaving")
    /\ Stepping!Release(h)
    /\ Goto(h, IF call[h].reconciles THEN "rereading" ELSE "applying")
    /\ UNCHANGED <<rowVars, runtimeVars, ran, faults>>

-----------------------------------------------------------------------------
(* What submit and get_status do with it                                     *)

\* The rest of _invoke_and_apply: whatever the row says by now, it is written.
Apply(h) ==
    /\ At(h, "applying")
    /\ SetStatus(Mine(h), StatusOf(call[h].result))
    /\ parked' = IF call[h].result = "WAITING_APPROVAL"
                 THEN [parked EXCEPT ![Mine(h)] = call[h].step] ELSE parked
    /\ Return(h)
    /\ UNCHANGED <<runtimeVars, leaseVars, ran, faults>>

\* _reconcile_if_resolved: an open approval is left alone.
Check(h) ==
    /\ At(h, "checking")
    /\ IF call[h].step = 0 \/ approval[call[h].step] = "PENDING"
       THEN Return(h)
       ELSE call' = [call EXCEPT ![h].at = "entering", ![h].reconciles = TRUE]
    /\ UNCHANGED <<rowVars, runtimeVars, leaseVars, ran, faults>>

\* The runtime's commits expired the row, which is read again.
Reread(h) ==
    /\ At(h, "rereading")
    /\ call' = [call EXCEPT ![h].at = "searching", ![h].seen = status[Mine(h)]]
    /\ UNCHANGED <<rowVars, runtimeVars, leaseVars, ran, faults>>

-----------------------------------------------------------------------------
(* Other sessions                                                            *)

\* REJECTED stands for EXPIRED as well.
Answer(i) ==
    /\ approval[i] = "PENDING"
    /\ \E answer \in {"APPROVED", "REJECTED"} : approval' = [approval EXCEPT ![i] = answer]
    /\ UNCHANGED <<rowVars, execution, steps, leaseVars, call, ran, faults>>

\* The approval engine's run and its last chunk.
RunApproved(i) ==
    /\ approval[i] = "APPROVED"
    /\ \E outcome \in {"EXECUTED", "FAILED"} :
          /\ approval' = [approval EXCEPT ![i] = outcome]
          /\ Once(steps[i].request) \/ (outcome = "FAILED" /\ UNCHANGED ran)
    /\ execution' = "RUNNING"
    /\ UNCHANGED <<rowVars, steps, leaseVars, call, faults>>

\* The last chunk of a rejection.
Reopen ==
    /\ execution = "WAITING_APPROVAL"
    /\ \A i \in 1 .. MaxSteps : approval[i] \notin {"PENDING", "APPROVED"}
    /\ execution' = "RUNNING"
    /\ UNCHANGED <<rowVars, steps, approval, leaseVars, call, ran, faults>>

Cancel ==
    /\ execution # "ENDED"
    /\ execution' = "ENDED"
    /\ UNCHANGED <<rowVars, steps, approval, leaseVars, call, ran, faults>>

\* LEASE_TTL passes after its owner died.
Expire ==
    /\ Stepping!Overrun /\ owner \notin inside
    /\ UNCHANGED <<rowVars, runtimeVars, call, ran, faults>>

Die(h) ==
    /\ ~At(h, "idle")
    /\ faults < MaxFaults /\ faults' = faults + 1
    /\ IF h \in inside THEN Stepping!Die(h) ELSE UNCHANGED leaseVars
    /\ Return(h)
    /\ UNCHANGED <<rowVars, runtimeVars, ran>>

Handle(h) ==
    \/ Find(h) \/ Insert(h) \/ Search(h) \/ Sync(h) \/ Mark(h) \/ Enter(h) \/ Claim(h)
    \/ Conflict(h) \/ Submit(h) \/ Exceed(h) \/ RunTool(h) \/ Close(h) \/ Reconcile(h) \/ Leave(h)
    \/ Apply(h) \/ Check(h) \/ Reread(h)

Next ==
    \/ \E h \in Handlers : Arrive(h) \/ Handle(h) \/ Die(h)
    \/ \E i \in 1 .. MaxSteps : Answer(i) \/ RunApproved(i)
    \/ Reopen \/ Cancel \/ Expire

Spec == Init /\ [][Next]_vars

-----------------------------------------------------------------------------
(* Properties                                                                *)

\* A step whose handler died before it was closed.
Orphaned(q) ==
    \E i \in DOMAIN steps :
        /\ steps[i] = [request |-> q, status |-> "PENDING"]
        /\ \A h \in Handlers : ~(h \in inside /\ call[h].step = i)

\* However often a client repeats its request, with crashes anywhere, other
\* requests and answers in between, the tool runs once, unless a handler died
\* between the tool's run and the end of its step.  It takes a client that
\* waits for one call before it makes the next.
RetriesRunOnce == \A q \in Requests : ran[q] > 1 => Orphaned(q)

\* A request is reported as executed only if its own tool ran, and as blocked
\* only if it did not.  Fails for two requests with one tool.
OutcomesAreTrue ==
    \A q \in Requests :
        /\ status[q] = "EXECUTED" => ran[q] > 0
        /\ status[q] = "BLOCKED" => ran[q] = 0 \/ Orphaned(q)

\* An outcome that a client may have been told is not taken back.
OutcomesAreFinal ==
    [][\A q \in Requests : status[q] \in Terminal => status'[q] = status[q]]_status

\* Repeated calls for one request run its tool once: with clients that do not
\* wait for their calls and no crash.
DuplicatesRunOnce == \A q \in Requests : ran[q] <= 1

=============================================================================
