---------------------------- MODULE AgentRuntime ----------------------------
(* AgentRuntime over one execution, composed with the approval engine that   *)
(* resolves what it parks and the lease its calls run under: step, resume,   *)
(* submit_external_action, reconcile_external_step and cancel, with the      *)
(* planner that decides and the gateway call that carries the decision out.  *)
(*                                                                           *)
(* Each statement or commit that another session can run before or after is  *)
(* an action.  The gateway is the part of it the runtime depends on: its     *)
(* look at the execution, its verdict, the tool it runs or the approval it   *)
(* parks.  The engine's requests are the steps that were parked, named by    *)
(* their sequence numbers.                                                   *)
EXTENDS Naturals, Sequences, FiniteSets

CONSTANTS
    Callers,
    Nobody,
    Resolvers,
    Ops,            \* the entry points in use
    Console,        \* the callers that choose between step and resume as useAutoStep does
    MAX_STEPS,      \* MAX_EXECUTION_STEPS
    Parkable,       \* tools policy or risk may send to approval
    Zombies,        \* whether a call may outlive its lease
    Rows,           \* bound: steps one execution may hold
    MaxFaults       \* bound: crashes and exceptions

ASSUME RuntimeAssumption ==
    /\ Nobody \notin Callers
    /\ Ops \subseteq {"step", "resume", "submit", "reconcile"}
    /\ Console \subseteq Callers
    /\ MAX_STEPS \in Nat \ {0}
    /\ Parkable \subseteq {"read", "effect"}
    /\ Zombies \in BOOLEAN
    /\ Rows \in Nat
    /\ MaxFaults \in Nat

VARIABLES
    approval, request, execution, trail, overdue,
    pc, subject, approve, seen, outcome, runs, abandoned,
    owner, stale, inside,
    steps,      \* the execution_steps rows, in the order of their sequence
    call,       \* where each call is and what it holds
    made,       \* history: steps whose tool call the gateway took on
    ran,        \* history: steps whose tool the gateway itself ran
    announced,  \* the last end of the execution the runtime put on the trail
    shown,      \* what a console's last poll makes its next tick call; history: and
                \* whether the console has called since
    hasty,      \* history: somebody has called on an older look, or on none
    faults

engineVars == <<approval, request, execution, trail, overdue,
                pc, subject, approve, seen, outcome, runs, abandoned>>
leaseVars == <<owner, stale, inside>>
stepVars == <<steps, made, ran, announced>>
consoleVars == <<shown, hasty>>
vars == <<engineVars, leaseVars, stepVars, consoleVars, call, faults>>

Positions == 1 .. Rows

\* The approval engine, whose requests are the parked steps.
Engine == INSTANCE ApprovalEngine WITH Requests <- Positions, NoRequest <- 0

\* The stepping lease.
Stepping == INSTANCE Lease WITH overdue <- stale

Tools == {"read", "effect"}             \* READ_ONLY_TOOLS and the others
Decisions == Tools \cup {"COMPLETE", "FAIL"}
StepStatuses == {"PENDING", "COMPLETED", "WAITING_APPROVAL", "BLOCKED", "FAILED"}
Terminal == {"COMPLETED", "FAILED", "BLOCKED", "CANCELLED"}
Results == {"EXECUTED", "REQUIRES_APPROVAL", "BLOCKED", "FAILED", "RESUMED"} \cup {"COMPLETE", "FAIL"}
Labels == {"idle", "claiming", "claimed", "finding", "planning", "numbering", "inserting",
           "calling", "running", "parking", "finalizing", "leaving"}

Idle == [at |-> "idle", op |-> "step", decision |-> "FAIL", row |-> 0, next |-> 0,
         result |-> "FAILED", retry |-> FALSE]

Calls == [at : Labels, op : {"step", "resume", "submit", "reconcile"},
          decision : Decisions, row : 0 .. Rows, next : 0 .. Rows + 1,
          result : Results, retry : BOOLEAN]

Row(decision, op) == [tool |-> decision, planned |-> op # "submit", status |-> "PENDING"]

ConsoleTypeOK ==
    /\ shown \in [Console -> [next : {"nothing", "step", "resume"}, fresh : BOOLEAN]]
    /\ hasty \in BOOLEAN

TypeOK ==
    /\ Stepping!LeaseTypeOK
    /\ steps \in Seq([tool : Decisions, planned : BOOLEAN, status : StepStatuses])
    /\ Len(steps) <= Rows
    /\ call \in [Callers -> Calls]
    /\ \A c \in Callers : c \in inside <=> call[c].at \notin {"idle", "claiming"}
    /\ made \subseteq DOMAIN steps
    /\ ran \subseteq made
    /\ announced \in {"NONE", "ALREADY_TERMINAL"} \cup Engine!Finals
    /\ ConsoleTypeOK
    /\ faults \in 0 .. MaxFaults

Init ==
    /\ Engine!Init
    /\ Stepping!LeaseInit
    /\ steps = <<>>
    /\ call = [c \in Callers |-> Idle]
    /\ made = {}
    /\ ran = {}
    /\ announced = "NONE"
    /\ shown = [c \in Console |-> [next |-> "nothing", fresh |-> FALSE]]
    /\ hasty = FALSE
    /\ faults = 0

At(c, label) == call[c].at = label
GoHome(c) == call' = [call EXCEPT ![c] = [Idle EXCEPT !.at = "leaving"]]
Goto(c, label) == call' = [call EXCEPT ![c].at = label]
Result(c, result) == call' = [call EXCEPT ![c].at = "finalizing", ![c].result = result]
Close(i, status) == steps' = [steps EXCEPT ![i].status = status]

-----------------------------------------------------------------------------
(* Entering and leaving                                                      *)

Waits(i) == i \in DOMAIN steps /\ steps[i].status = "WAITING_APPROVAL"

\* Mutant: what waits is not looked at.
OfferStep == IF execution # "RUNNING" THEN "nothing" ELSE "step"

\* useAutoStep ticks while the execution it has polled runs, and resumes exactly when
\* the latest step it has polled waits.
Offer ==
    IF execution # "RUNNING" THEN "nothing"
    ELSE IF Waits(Len(steps)) THEN "resume" ELSE "step"

\* The timeline is polled on a timer of its own and after each call, which does not
\* wait for it.
Poll(c) ==
    /\ shown' = [shown EXCEPT ![c] = [next |-> Offer, fresh |-> At(c, "idle")]]
    /\ UNCHANGED <<engineVars, leaseVars, stepVars, hasty, call, faults>>

\* A console calls by what it has polled, however long ago.
Chosen(c, op) == c \in Console => op = shown[c].next

Ticks(c) ==
    IF c \in Console
    THEN /\ shown' = [shown EXCEPT ![c].fresh = FALSE]
         /\ hasty' = (hasty \/ ~shown[c].fresh)
    ELSE hasty' = TRUE /\ UNCHANGED shown

\* The status each entry point accepts; any other is a NOOP.
Accepts(op) == execution = "RUNNING" \/ (op = "reconcile" /\ execution = "WAITING_APPROVAL")

Enter(c, op) ==
    /\ At(c, "idle")
    /\ Accepts(op)
    /\ Chosen(c, op)
    /\ Ticks(c)
    /\ call' = [call EXCEPT ![c].at = "claiming", ![c].op = op]
    /\ UNCHANGED <<engineVars, leaseVars, stepVars, faults>>

\* Mutant: the claim takes the lease whoever holds it.
ClaimAnyway(c) ==
    /\ At(c, "claiming")
    /\ owner' = c /\ inside' = inside \cup {c} /\ UNCHANGED stale
    /\ Goto(c, "claimed")
    /\ UNCHANGED <<engineVars, stepVars, faults, consoleVars>>

\* Mutant: an overdue lease is not taken over.
ClaimIfFree(c) ==
    /\ At(c, "claiming")
    /\ owner = Nobody /\ Stepping!Acquire(c)
    /\ (stale' => Zombies)
    /\ Goto(c, "claimed")
    /\ UNCHANGED <<engineVars, stepVars, faults, consoleVars>>

\* Without Zombies a claim is not overdue by the time it lands.
Claim(c) ==
    /\ At(c, "claiming")
    /\ Stepping!Acquire(c)
    /\ (stale' => Zombies)
    /\ Goto(c, "claimed")
    /\ UNCHANGED <<engineVars, stepVars, faults, consoleVars>>

\* CONFLICT: somebody holds a fresh lease.
Conflict(c) ==
    /\ At(c, "claiming")
    /\ owner # Nobody /\ ~stale
    /\ call' = [call EXCEPT ![c] = Idle]
    /\ UNCHANGED <<engineVars, leaseVars, stepVars, faults, consoleVars>>

\* The row is read again under the lease; reconcile does not look at it.
Recheck(c) ==
    /\ At(c, "claimed")
    /\ IF execution # "RUNNING" /\ call[c].op # "reconcile"
       THEN GoHome(c)
       ELSE Goto(c, IF call[c].op \in {"resume", "reconcile"} THEN "finding" ELSE "planning")
    /\ UNCHANGED <<engineVars, leaseVars, stepVars, faults, consoleVars>>

\* Mutant: the return does not leave the critical section.
LeaveInside(c) ==
    /\ At(c, "leaving")
    /\ call' = [call EXCEPT ![c] = Idle]
    /\ UNCHANGED <<engineVars, leaseVars, stepVars, faults, consoleVars>>

Leave(c) ==
    /\ At(c, "leaving")
    /\ Stepping!Release(c)
    /\ call' = [call EXCEPT ![c] = Idle]
    /\ UNCHANGED <<engineVars, stepVars, faults, consoleVars>>

-----------------------------------------------------------------------------
(* _resolve_pending_step                                                     *)

\* Mutant: an approval that was carried out counts as a success.
ResolutionAsSuccess(i) ==
    CASE approval[i] = "REJECTED" -> "BLOCKED"
      [] approval[i] = "EXPIRED" -> "FAIL"
      [] approval[i] = "EXECUTED" -> "RESUMED"

Resolution(i) ==
    CASE approval[i] = "REJECTED" -> "BLOCKED"
      [] approval[i] = "EXPIRED" -> "FAIL"
      [] approval[i] = "EXECUTED" -> IF request[i] = "EXECUTED" THEN "RESUMED" ELSE "FAIL"

Resolved(i) == approval[i] \in {"REJECTED", "EXPIRED", "EXECUTED"}

LatestWaiting == {i \in DOMAIN steps : Waits(i) /\ \A j \in DOMAIN steps : j > i => ~Waits(j)}

\* An approval that is open, or whose tool is still on its way, is a NOOP.
FindPending(c) ==
    /\ At(c, "finding")
    /\ \/ \E i \in LatestWaiting :
             /\ Resolved(i)
             /\ call' = [call EXCEPT ![c].at = "finalizing", ![c].row = i,
                                     ![c].result = Resolution(i)]
       \/ /\ \A i \in LatestWaiting : ~Resolved(i)
          /\ GoHome(c)
    /\ UNCHANGED <<engineVars, leaseVars, stepVars, faults, consoleVars>>

-----------------------------------------------------------------------------
(* _advance and the planner                                                  *)

Completed(tool) == \E i \in DOMAIN steps : steps[i].tool = tool /\ steps[i].status = "COMPLETED"

Attempted(tool) == \E i \in DOMAIN steps : steps[i].tool = tool

\* The shape of the three workflows: read first, then act once, then stop.
NextAction ==
    CASE ~Completed("read") -> "read"
      [] Completed("read") /\ Attempted("effect") -> "COMPLETE"
      [] OTHER -> "effect"

\* The step limit comes first, then the planner, which may also fail or
\* raise, or for a submission the tool the external agent asked for.
Plan(c) ==
    /\ At(c, "planning")
    /\ \E decision \in
          IF Len(steps) >= MAX_STEPS THEN {"FAIL"}
          ELSE IF call[c].op = "submit" THEN Tools
          ELSE {NextAction, "FAIL"} :
             call' = [call EXCEPT ![c].at = "numbering", ![c].decision = decision,
                                  ![c].retry = FALSE]
    /\ UNCHANGED <<engineVars, leaseVars, stepVars, faults, consoleVars>>

-----------------------------------------------------------------------------
(* _claim_step                                                               *)

ReadMaxSequence(c) ==
    /\ At(c, "numbering")
    /\ call' = [call EXCEPT ![c].at = "inserting", ![c].next = Len(steps) + 1]
    /\ UNCHANGED <<engineVars, leaseVars, stepVars, faults, consoleVars>>

\* UNIQUE(execution_id, sequence) refuses a number that is taken: CONFLICT, or
\* for the retry of a read the end of the attempt it was to replace.
InsertStep(c) ==
    /\ At(c, "inserting")
    /\ IF call[c].next \in DOMAIN steps
       THEN /\ IF call[c].retry THEN Result(c, "FAILED") ELSE GoHome(c)
            /\ UNCHANGED steps
       ELSE /\ Len(steps) < Rows
            /\ steps' = Append(steps, Row(call[c].decision, call[c].op))
            /\ IF call[c].decision \in Tools
               THEN call' = [call EXCEPT ![c].at = "calling", ![c].row = call[c].next,
                                         ![c].next = 0]
               ELSE call' = [call EXCEPT ![c].at = "finalizing", ![c].row = call[c].next,
                                         ![c].next = 0, ![c].result = call[c].decision]
    /\ UNCHANGED <<engineVars, leaseVars, made, ran, announced, faults, consoleVars>>

-----------------------------------------------------------------------------
(* ToolGateway.execute, as far as the runtime depends on it                  *)

\* NON_EXECUTABLE_STATUSES and WAITING_APPROVAL refuse.
Open == execution = "RUNNING"

\* Permission, policy and risk decide; an unknown tool or a bad argument fails.
CallGateway(c) ==
    /\ At(c, "calling")
    /\ IF ~Open
       THEN Result(c, "FAILED") /\ UNCHANGED made
       ELSE /\ made' = made \cup {call[c].row}
            /\ \/ \E refusal \in {"BLOCKED", "FAILED"} :
                     Result(c, refusal)
               \/ Goto(c, "running")
               \/ call[c].decision \in Parkable /\ Goto(c, "parking")
    /\ UNCHANGED <<engineVars, leaseVars, steps, ran, announced, faults, consoleVars>>

\* The tool succeeds, fails, or raises before it did anything.
RunDirectly(c) ==
    /\ At(c, "running")
    /\ \/ /\ ran' = ran \cup {call[c].row}
          /\ \E result \in {"EXECUTED", "FAILED"} : Result(c, result)
       \/ /\ Result(c, "FAILED")
          /\ UNCHANGED ran
    /\ UNCHANGED <<engineVars, leaseVars, steps, made, announced, faults, consoleVars>>

\* The approval is created with the execution's status, or not at all.
Park(c) ==
    /\ At(c, "parking")
    /\ \/ /\ Engine!CreateApproval(call[c].row)
          /\ Result(c, "REQUIRES_APPROVAL")
       \/ /\ ~Engine!Admit
          /\ Result(c, "FAILED")
          /\ UNCHANGED engineVars
    /\ UNCHANGED <<leaseVars, stepVars, faults, consoleVars>>

-----------------------------------------------------------------------------
(* _run_tool_call_step's handling of the result, and _finalize               *)

\* Mutant: a tool with side effects is retried as well.
RetriesAll(c) == call[c].result = "FAILED" /\ ~call[c].retry

Retries(c) == call[c].result = "FAILED" /\ ~call[c].retry /\ call[c].decision = "read"

\* _persist_step_only, and a second step for the same call.
Retry(c) ==
    /\ At(c, "finalizing")
    /\ Retries(c)
    /\ Close(call[c].row, "FAILED")
    /\ call' = [call EXCEPT ![c].at = "numbering", ![c].retry = TRUE]
    /\ UNCHANGED <<engineVars, leaseVars, made, ran, announced, faults, consoleVars>>

StepStatus(result) ==
    CASE result \in {"EXECUTED", "RESUMED", "COMPLETE"} -> "COMPLETED"
      [] result = "REQUIRES_APPROVAL" -> "WAITING_APPROVAL"
      [] result = "BLOCKED" -> "BLOCKED"
      [] result \in {"FAILED", "FAIL"} -> "FAILED"

Ends(result) == result \in {"COMPLETE", "BLOCKED", "FAILED", "FAIL"}

\* Mutant: the end of the execution is not compared with its status.
EndAnyway == TRUE

\* The WHERE clause of the terminal UPDATE.
Ending == execution = "RUNNING"

\* The step, the end of the execution and the audit event in one chunk.
Finalize(c) ==
    /\ At(c, "finalizing")
    /\ ~Retries(c)
    /\ LET result == call[c].result
       IN /\ Close(call[c].row, StepStatus(result))
          /\ CASE ~Ends(result) -> UNCHANGED <<engineVars, announced>>
               [] Ends(result) /\ Ending ->
                     /\ announced' = StepStatus(result)
                     /\ execution' = StepStatus(result)
                     /\ UNCHANGED <<approval, request, trail, overdue, pc, subject,
                                    approve, seen, outcome, runs, abandoned>>
               [] Ends(result) /\ ~Ending ->
                     announced' = "ALREADY_TERMINAL" /\ UNCHANGED engineVars
          /\ IF result = "RESUMED" /\ call[c].op = "resume"
             THEN call' = [call EXCEPT ![c] = [Idle EXCEPT !.at = "planning", !.op = "resume"]]
             ELSE GoHome(c)
    /\ UNCHANGED <<leaseVars, made, ran, faults, consoleVars>>

-----------------------------------------------------------------------------
(* Faults, the clock, the operators                                          *)

Fail == faults < MaxFaults /\ faults' = faults + 1

\* An exception: the `finally` clause still releases the lease.
Raise(c) ==
    /\ c \in inside /\ ~At(c, "leaving")
    /\ Fail
    /\ GoHome(c)
    /\ UNCHANGED <<engineVars, leaseVars, stepVars, consoleVars>>

Crash(c) ==
    /\ Fail
    /\ Stepping!Die(c)
    /\ call' = [call EXCEPT ![c] = Idle]
    /\ UNCHANGED <<engineVars, stepVars, consoleVars>>

\* LEASE_TTL passes.
Expire ==
    /\ Stepping!Overrun
    /\ owner \in inside => Zombies
    /\ UNCHANGED <<engineVars, stepVars, call, faults, consoleVars>>

Cancel == Engine!Cancel /\ UNCHANGED <<leaseVars, stepVars, call, faults, consoleVars>>

Overrun(i) == Engine!Overrun(i) /\ UNCHANGED <<leaseVars, stepVars, call, faults, consoleVars>>

Resolve(r) ==
    /\ Engine!ReadApproval(r) \/ Engine!Proceed(r)
    /\ UNCHANGED <<leaseVars, stepVars, call, faults, consoleVars>>

Abandon(r) == Fail /\ Engine!Abandon(r) /\ UNCHANGED <<leaseVars, stepVars, call, consoleVars>>

Advance(c) ==
    \/ Claim(c) \/ Conflict(c) \/ Recheck(c) \/ FindPending(c) \/ Plan(c)
    \/ ReadMaxSequence(c) \/ InsertStep(c) \/ CallGateway(c) \/ RunDirectly(c)
    \/ Park(c) \/ Retry(c) \/ Finalize(c) \/ Leave(c)

Next ==
    \/ Expire \/ Cancel
    \/ \E c \in Callers : Advance(c) \/ Raise(c) \/ Crash(c)
                          \/ \E op \in Ops : Enter(c, op)
    \/ \E c \in Console : Poll(c)
    \/ \E i \in Positions : Overrun(i)
    \/ \E r \in Resolvers : Resolve(r) \/ Abandon(r)

Spec == Init /\ [][Next]_vars

\* A call that has begun goes on, time passes, and the console keeps polling, and
\* calling while it sees the execution run.  Nobody has to answer an approval.
Fairness ==
    /\ \A c \in Callers : WF_vars(Advance(c))
    /\ \A r \in Resolvers : WF_vars(Engine!Proceed(r) /\ Resolve(r))
    /\ WF_vars(Expire)
    /\ \A c \in Console : WF_vars(\E op \in Ops : Enter(c, op)) /\ WF_vars(Poll(c))

FairSpec == Spec /\ Fairness

-----------------------------------------------------------------------------
(* Properties                                                                *)

Ran(i) == i \in ran \/ runs[i] > 0

\* Whatever calls race, retry, crash or are resumed, what the planner decided
\* to do once is done at most once.  Fails when a call can outlive its lease.
NoDoubleStep ==
    Cardinality({i \in DOMAIN steps :
                    steps[i].tool = "effect" /\ steps[i].planned /\ Ran(i)}) <= 1

\* A step's row tells what became of its call: a completed one ran its tool
\* exactly once, a blocked one never did, and one that waits was parked.
StepsTellTheTruth ==
    \A i \in DOMAIN steps :
        LET step == steps[i]
        IN step.tool \in Tools =>
              /\ step.status = "COMPLETED" => (i \in ran <=> runs[i] # 1) /\ runs[i] < 2
              /\ step.status = "BLOCKED" => ~Ran(i)
              /\ step.status = "WAITING_APPROVAL" => approval[i] # "NONE"
              /\ i \in ran => approval[i] = "NONE"

\* One tool of an execution is in flight at a time, whether the gateway runs it
\* or the engine does after an approval.
OneToolAtATime ==
    Cardinality({c \in Callers : At(c, "running")})
        + Cardinality({r \in Resolvers : pc[r] = "running"}) <= 1

\* An execution that nobody calls but one console, which has polled it since its last
\* call whenever it calls, does not end as COMPLETED when a human refused what it
\* wanted to do.  useAutoStep does not wait for that poll.
RefusalIsHeeded ==
    faults = 0 /\ ~hasty /\ execution = "COMPLETED" =>
        \A i \in DOMAIN steps :
            /\ steps[i].status \notin {"BLOCKED", "WAITING_APPROVAL"}
            /\ approval[i] \notin {"REJECTED", "EXPIRED"}

\* The crash of a call before its tool call changes nothing but the time the
\* work is done: the plan does not complete without it.
CompletedMeansCalled ==
    execution = "COMPLETED" => \E i \in made : steps[i].tool = "effect"

\* EXECUTION_STATUS_ALREADY_TERMINAL is put on record only of an execution
\* that is.
AlreadyTerminalIsTrue ==
    [][(announced' = "ALREADY_TERMINAL" /\ announced # announced') => execution \in Terminal]_vars

\* A running execution does not stay so: it ends, or it waits for a human.
Settles == <>[](execution # "RUNNING")

\* What the runtime and the gateway do to the engine's rows is what the engine
\* allows its surroundings, so every guarantee of the engine holds here.
ImplementsEngine == Engine!Spec

=============================================================================
