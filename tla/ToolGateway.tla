----------------------------- MODULE ToolGateway ----------------------------
(* ToolGateway.execute over the calls of one execution: every commit of its  *)
(* pipeline, the reads in between that later steps rely on, and the edits of *)
(* permissions and policies, the operators' answers, a cancel and crashes    *)
(* that other sessions bring about meanwhile.  What an approval does to a    *)
(* parked call is the approval engine's promise, ApprovalGate.               *)
EXTENDS Integers, Sequences

CONSTANTS
    Policies, Conditions, Absent, Text,
    Objective, DestructiveTools, OutgoingTools,
    Registered,     \* the tools of tool_registry
    Inputs,         \* agent, tool, arguments and sources a call may have
    Granted,        \* the permissions the execution starts with
    Leased,         \* the stepping lease keeps calls apart
    MaxCalls,       \* bound: calls of the gateway
    MaxEdits,       \* bound: edits of permissions and policies
    MaxFaults       \* bound: calls that die on the way

ASSUME GatewayAssumption ==
    /\ Inputs # {}
    /\ \A input \in Inputs :
          /\ input.valid \in BOOLEAN
          /\ input.tool = "refund_payment" /\ input.valid => input.amount \in Int
    /\ Granted \in [Registered -> {"ALLOW", "CONDITIONAL", "DENY"}]
    /\ \A p \in Policies : p.action \in {"ALLOW", "REQUIRE_APPROVAL", "BLOCK"}
    /\ Leased \in BOOLEAN
    /\ MaxCalls \in Nat /\ MaxEdits \in Nat /\ MaxFaults \in Nat

\* The table holds finitely many rows: of any of them one comes first.
ASSUME PriorityAssumption ==
    /\ \A p \in Policies : p.priority \in Int
    /\ \A S \in SUBSET Policies :
          S # {} => \E p \in S : \A q \in S : q.priority <= p.priority

VARIABLES
    execution,      \* executions.status, its four final values as ENDED
    permission,     \* agent_tool_permissions, DENY when there is no row
    enabled,        \* the policies that are enabled
    request,        \* tool_requests.status of each call, NONE without a row
    decided,        \* policy_decisions.decision of each call
    assessed,       \* risk_assessments.recommended_action of each call
    incidents,      \* the calls with a security incident
    trail,          \* the audit events of each call
    call,           \* where each call is and what it holds
    verdict, runs,  \* the approval gate's: its answer, the tools it ran
    order,          \* history: the calls whose tool ran, in that order
    edits, faults

rows == <<request, decided, assessed, incidents, trail>>
settings == <<permission, enabled>>
gate == <<verdict, runs>>
bounds == <<edits, faults>>
vars == <<execution, settings, rows, call, gate, order, bounds>>

Calls == 1 .. MaxCalls

Policy == INSTANCE PolicyEngine
Risk == INSTANCE RiskEngine
Gate == INSTANCE ApprovalGate WITH Requests <- Calls

Permissions == {"ALLOW", "CONDITIONAL", "DENY"}
RequestStatuses == {"NONE", "REQUESTED", "REQUIRES_APPROVAL", "DENIED", "EXECUTED", "FAILED"}
Results == {"EXECUTED", "REQUIRES_APPROVAL", "BLOCKED", "FAILED"}
Labels == {"idle", "announcing", "looking", "refusing", "opening", "evaluating", "deciding",
           "assessing", "weighing", "ending", "running", "recording", "dead"} \cup Results
Events == {"TOOL_REQUESTED", "PERMISSION_CHECKED", "ACTION_DENIED", "POLICY_EVALUATION_STARTED",
           "POLICY_MATCHED", "POLICY_ALLOWED", "POLICY_APPROVAL_REQUIRED", "POLICY_BLOCKED",
           "RISK_ASSESSED", "RISK_ESCALATED", "ACTION_BLOCKED_BY_RISK",
           "SECURITY_INCIDENT_CREATED", "APPROVAL_REQUESTED", "ACTION_ALLOWED",
           "TOOL_EXECUTED", "TOOL_FAILED"}

\* A call with nothing but its place and its arguments.
Local(label, input) ==
    [at |-> label, input |-> input, permission |-> "DENY", policy |-> "ALLOW",
     matched |-> FALSE, risk |-> "ALLOW", named |-> FALSE, outcome |-> FALSE]

Maybe(S) == S \cup {"NONE"}

TypeOK ==
    /\ execution \in {"RUNNING", "WAITING_APPROVAL", "ENDED"}
    /\ permission \in [Registered -> Permissions]
    /\ enabled \subseteq Policies
    /\ request \in [Calls -> RequestStatuses]
    /\ decided \in [Calls -> Maybe(Policy!Actions)]
    /\ assessed \in [Calls -> Maybe(Policy!Actions)]
    /\ incidents \subseteq Calls
    /\ trail \in [Calls -> Seq(Events)]
    /\ call \in [Calls -> [at : Labels, input : Inputs, permission : Permissions,
                           policy : Policy!Actions, matched : BOOLEAN,
                           risk : Policy!Actions, named : BOOLEAN, outcome : BOOLEAN]]
    /\ Gate!GateTypeOK
    /\ order \in Seq(Calls)
    /\ edits \in 0 .. MaxEdits
    /\ faults \in 0 .. MaxFaults

Init ==
    /\ execution = "RUNNING"
    /\ permission = Granted
    /\ enabled = Policies
    /\ request = [c \in Calls |-> "NONE"]
    /\ decided = [c \in Calls |-> "NONE"]
    /\ assessed = [c \in Calls |-> "NONE"]
    /\ incidents = {}
    /\ trail = [c \in Calls |-> <<>>]
    /\ call = [c \in Calls |-> Local("idle", CHOOSE input \in Inputs : TRUE)]
    /\ Gate!GateInit
    /\ order = <<>>
    /\ edits = 0
    /\ faults = 0

At(c, label) == call[c].at = label
Goto(c, label) == call' = [call EXCEPT ![c].at = label]
Return(c, result) == call' = [call EXCEPT ![c] = Local(result, @.input)]
Log(c, events) == trail' = [trail EXCEPT ![c] = @ \o events]
Set(f, c, value) == [f EXCEPT ![c] = value]
Elsewhere == UNCHANGED <<execution, settings, gate, order, bounds>>

Returned(c) == call[c].at \in Results
InFlight(c) == ~At(c, "idle") /\ ~At(c, "dead") /\ ~Returned(c)

-----------------------------------------------------------------------------
(* execute                                                                   *)

\* An execution that ended or waits is refused before anything is recorded.
Begin(c) ==
    /\ At(c, "idle")
    /\ \A b \in Calls : b < c => ~At(b, "idle")
    /\ Leased => \A b \in Calls : ~InFlight(b)
    /\ \E input \in Inputs :
          call' = [call EXCEPT ![c] =
                      Local(IF execution = "RUNNING" THEN "announcing" ELSE "FAILED", input)]
    /\ UNCHANGED rows /\ Elsewhere

Announce(c) ==
    /\ At(c, "announcing")
    /\ Log(c, <<"TOOL_REQUESTED">>)
    /\ Goto(c, "looking")
    /\ UNCHANGED <<request, decided, assessed, incidents>> /\ Elsewhere

\* The registry, the tool's schema and the permission, read once.
Look(c) ==
    /\ At(c, "looking")
    /\ IF call[c].input.tool \in Registered /\ call[c].input.valid
       THEN call' = [call EXCEPT ![c].at = "opening",
                                 ![c].permission = permission[call[c].input.tool]]
       ELSE Goto(c, "refusing")
    /\ UNCHANGED rows /\ Elsewhere

Refuse(c) ==
    /\ At(c, "refusing")
    /\ request' = Set(request, c, "FAILED")
    /\ Log(c, <<"TOOL_FAILED">>)
    /\ Return(c, "FAILED")
    /\ UNCHANGED <<decided, assessed, incidents>> /\ Elsewhere

Deny(c) ==
    /\ At(c, "opening")
    /\ call[c].permission = "DENY"
    /\ request' = Set(request, c, "DENIED")
    /\ Log(c, <<"PERMISSION_CHECKED", "ACTION_DENIED">>)
    /\ Return(c, "BLOCKED")
    /\ UNCHANGED <<decided, assessed, incidents>> /\ Elsewhere

\* Mutant: the request opens with the status of a step.
OpenPending(c) ==
    /\ At(c, "opening")
    /\ call[c].permission # "DENY"
    /\ request' = Set(request, c, "PENDING")
    /\ Log(c, <<"PERMISSION_CHECKED">>)
    /\ Goto(c, "assessing")
    /\ UNCHANGED <<decided, assessed, incidents>> /\ Elsewhere

\* The first chunk of _handle_conditional and of _handle_direct_allow, whose
\* policy decision is a constant.
Open(c) ==
    /\ At(c, "opening")
    /\ call[c].permission # "DENY"
    /\ request' = Set(request, c, "REQUESTED")
    /\ IF call[c].permission = "CONDITIONAL"
       THEN /\ Log(c, <<"PERMISSION_CHECKED", "POLICY_EVALUATION_STARTED">>)
            /\ Goto(c, "evaluating")
       ELSE /\ Log(c, <<"PERMISSION_CHECKED">>)
            /\ Goto(c, "assessing")
    /\ UNCHANGED <<decided, assessed, incidents>> /\ Elsewhere

\* A policy evaluation that raises is a BLOCK.
Evaluate(c) ==
    /\ At(c, "evaluating")
    /\ LET result == Policy!Evaluate(enabled, call[c].input)
       IN \/ call' = [call EXCEPT ![c].at = "deciding", ![c].policy = result.decision,
                                  ![c].matched = (result.policy = "MATCHED")]
          \/ call' = [call EXCEPT ![c].at = "deciding", ![c].policy = "BLOCK"]
    /\ UNCHANGED rows /\ Elsewhere

PolicyEvent(action) ==
    CASE action = "ALLOW" -> "POLICY_ALLOWED"
      [] action = "REQUIRE_APPROVAL" -> "POLICY_APPROVAL_REQUIRED"
      [] action = "BLOCK" -> "POLICY_BLOCKED"

Decide(c) ==
    /\ At(c, "deciding")
    /\ decided' = Set(decided, c, call[c].policy)
    /\ Log(c, (IF call[c].matched THEN <<"POLICY_MATCHED">> ELSE <<>>)
                 \o <<PolicyEvent(call[c].policy)>>)
    /\ IF call[c].policy = "BLOCK"
       THEN request' = Set(request, c, "DENIED") /\ Return(c, "BLOCKED")
       ELSE UNCHANGED request /\ Goto(c, "assessing")
    /\ UNCHANGED <<assessed, incidents>> /\ Elsewhere

\* The requests of the execution that a detector can see.
Earlier == {[tool |-> call[b].input.tool, status |-> request[b]] :
               b \in {a \in Calls : request[a] # "NONE"}}

\* A detector that raises loses its signal and forces a BLOCK; so does, with
\* no signal at all, a failure anywhere else in the assessment.
Assess(c) ==
    /\ At(c, "assessing")
    /\ LET input == call[c].input
           signals == {s \in Risk!Signals : Risk!Detects(s, input, Earlier)}
           financial == IF input.tool = "refund_payment"
                        THEN Risk!FinancialWeight(input.amount) ELSE 0
       IN \E failed \in BOOLEAN, found \in SUBSET signals :
             /\ failed \/ found = signals
             /\ call' = [call EXCEPT ![c].at = "weighing",
                                     ![c].risk = Risk!Assess(found, financial, failed).action,
                                     ![c].named = (found # {})]
    /\ UNCHANGED rows /\ Elsewhere

\* A direct ALLOW has its policy decision recorded here.
Weigh(c) ==
    /\ At(c, "weighing")
    /\ assessed' = Set(assessed, c, call[c].risk)
    /\ decided' = IF call[c].permission = "ALLOW" THEN Set(decided, c, "ALLOW") ELSE decided
    /\ Log(c, <<"RISK_ASSESSED">>)
    /\ Goto(c, "ending")
    /\ UNCHANGED <<request, incidents>> /\ Elsewhere

\* Mutant: the risk engine has the last word.
DecisionByRisk(c) == call[c].risk

Decision(c) == Risk!Combine(call[c].policy, call[c].risk)

Escalated(c) == IF Decision(c) = call[c].policy THEN <<>> ELSE <<"RISK_ESCALATED">>

\* Mutant: the blocked request stays open.
BlockWithoutRow(c) ==
    /\ At(c, "ending")
    /\ Decision(c) = "BLOCK"
    /\ Log(c, Escalated(c) \o <<"ACTION_BLOCKED_BY_RISK">>)
    /\ Return(c, "BLOCKED")
    /\ UNCHANGED <<request, incidents, decided, assessed>> /\ Elsewhere

\* _finalize_risk_block: an incident only if there is a signal to name it.
Block(c) ==
    /\ At(c, "ending")
    /\ Decision(c) = "BLOCK"
    /\ request' = Set(request, c, "DENIED")
    /\ IF call[c].named
       THEN /\ incidents' = incidents \cup {c}
            /\ Log(c, Escalated(c) \o <<"ACTION_BLOCKED_BY_RISK", "SECURITY_INCIDENT_CREATED">>)
       ELSE /\ UNCHANGED incidents
            /\ Log(c, Escalated(c) \o <<"ACTION_BLOCKED_BY_RISK">>)
    /\ Return(c, "BLOCKED")
    /\ UNCHANGED <<decided, assessed>> /\ Elsewhere

\* _create_approval_and_commit: the request stays REQUESTED when another
\* session has ended the execution or parked a call of its own.
Park(c) ==
    /\ At(c, "ending")
    /\ Decision(c) = "REQUIRE_APPROVAL"
    /\ IF execution = "RUNNING"
       THEN /\ Gate!Ask(c)
            /\ execution' = "WAITING_APPROVAL"
            /\ request' = Set(request, c, "REQUIRES_APPROVAL")
            /\ Log(c, Escalated(c) \o <<"APPROVAL_REQUESTED">>)
            /\ Return(c, "REQUIRES_APPROVAL")
       ELSE /\ Return(c, "FAILED")
            /\ UNCHANGED <<execution, request, trail, gate>>
    /\ UNCHANGED <<settings, decided, assessed, incidents, order, bounds>>

Allow(c) ==
    /\ At(c, "ending")
    /\ Decision(c) = "ALLOW"
    /\ Log(c, <<"ACTION_ALLOWED">>)
    /\ Goto(c, "running")
    /\ UNCHANGED <<request, decided, assessed, incidents>> /\ Elsewhere

\* The tool commits what it does on its own; it may also raise before that.
RunTool(c) ==
    /\ At(c, "running")
    /\ \/ order' = Append(order, c)
       \/ UNCHANGED order
    /\ \E success \in BOOLEAN :
          /\ success => order' # order
          /\ call' = [call EXCEPT ![c].at = "recording", ![c].outcome = success]
    /\ UNCHANGED <<execution, settings, rows, gate, bounds>>

RecordOutcome(c) ==
    /\ At(c, "recording")
    /\ LET status == IF call[c].outcome THEN "EXECUTED" ELSE "FAILED"
       IN /\ request' = Set(request, c, status)
          /\ Log(c, <<IF call[c].outcome THEN "TOOL_EXECUTED" ELSE "TOOL_FAILED">>)
          /\ Return(c, status)
    /\ UNCHANGED <<decided, assessed, incidents>> /\ Elsewhere

-----------------------------------------------------------------------------
(* Other sessions                                                            *)

\* The operator, or the clock.
Answer(c) == Gate!Answer(c) /\ UNCHANGED <<execution, settings, rows, call, order, bounds>>

\* The approval engine runs the tool of a granted call.
RunApproved(c) ==
    /\ Gate!RunTool(c)
    /\ order' = Append(order, c)
    /\ UNCHANGED <<execution, settings, rows, call, bounds>>

\* Its last chunk; an expiry leaves an execution alone that it saw ended.
Settle(c) ==
    /\ Gate!Settle(c)
    /\ \E status \in IF verdict[c] = "refused" THEN {"DENIED"}
                     ELSE {"FAILED"} \cup (IF runs[c] = 1 THEN {"EXECUTED"} ELSE {}) :
          request' = Set(request, c, status)
    /\ \/ execution' = "RUNNING"
       \/ execution = "ENDED" /\ verdict[c] = "refused" /\ UNCHANGED execution
    /\ UNCHANGED <<settings, decided, assessed, incidents, trail, call, order, bounds>>

\* A cancel, or the runtime's own end of the execution.
End ==
    /\ execution # "ENDED"
    /\ execution' = "ENDED"
    /\ UNCHANGED <<settings, rows, call, gate, order, bounds>>

Edit ==
    /\ edits < MaxEdits /\ edits' = edits + 1
    /\ \/ \E tool \in Registered, p \in Permissions :
             permission' = [permission EXCEPT ![tool] = p] /\ UNCHANGED enabled
       \/ \E p \in Policies :
             /\ enabled' = IF p \in enabled THEN enabled \ {p} ELSE enabled \cup {p}
             /\ UNCHANGED permission
    /\ UNCHANGED <<execution, rows, call, gate, order, faults>>

\* The process dies, or commit_chunk gives up.
Die(c) ==
    /\ InFlight(c)
    /\ faults < MaxFaults /\ faults' = faults + 1
    /\ Return(c, "dead")
    /\ UNCHANGED <<execution, settings, rows, gate, order, edits>>

Execute(c) ==
    \/ Begin(c) \/ Announce(c) \/ Look(c) \/ Refuse(c) \/ Deny(c) \/ Open(c)
    \/ Evaluate(c) \/ Decide(c) \/ Assess(c) \/ Weigh(c) \/ Block(c) \/ Park(c)
    \/ Allow(c) \/ RunTool(c) \/ RecordOutcome(c)

Next ==
    \/ \E c \in Calls : Execute(c) \/ Answer(c) \/ RunApproved(c) \/ Settle(c) \/ Die(c)
    \/ End \/ Edit

Spec == Init /\ [][Next]_vars

-----------------------------------------------------------------------------
(* Properties                                                                *)

Tool(c) == call[c].input.tool
Logged(c, event) == \E i \in DOMAIN trail[c] : trail[c][i] = event
Ran(c) == \E i \in DOMAIN order : order[i] = c

\* A tool runs only with a policy decision and a risk assessment on record, and
\* of the two the more severe is what was done: ALLOW for a call the gateway
\* ran itself, REQUIRE_APPROVAL for one that a human granted.  No edit, answer
\* or crash in between gets a tool past one of the two.
NothingRunsUnjudged ==
    \A c \in Calls : Ran(c) =>
        /\ {decided[c], assessed[c]} \subseteq Policy!Actions
        /\ Risk!Combine(decided[c], assessed[c]) =
              IF runs[c] = 0 THEN "ALLOW" ELSE "REQUIRE_APPROVAL"
        /\ Logged(c, IF runs[c] = 0 THEN "ACTION_ALLOWED" ELSE "APPROVAL_REQUESTED")

\* Once an execution's calls have read customer data, none of them sends an
\* e-mail any more, and none exports data unless a human grants it; the risk
\* engine has to see reads that died before they were recorded as executed.
NothingLeavesAfterARead ==
    \A i, j \in DOMAIN order :
        i < j /\ Tool(order[i]) \in Risk!CustomerDataReadTools =>
            /\ Tool(order[j]) # "send_external_email"
            /\ Tool(order[j]) = "export_customer_data" => runs[order[j]] = 1

Last(c) == trail[c][Len(trail[c])]

\* What the gateway answers is what the rows and the trail say: a blocked call
\* never ran and is on record as denied, with its reason as the last event; a
\* failed one never waits for approval.
AnswersAreOnRecord ==
    \A c \in Calls :
        /\ At(c, "EXECUTED") => Ran(c) /\ request[c] = "EXECUTED" /\ Last(c) = "TOOL_EXECUTED"
        /\ At(c, "BLOCKED") =>
              /\ ~Ran(c) /\ request[c] = "DENIED"
              /\ Last(c) \in {"ACTION_DENIED", "POLICY_BLOCKED", "ACTION_BLOCKED_BY_RISK",
                              "SECURITY_INCIDENT_CREATED"}
              /\ c \in incidents <=> Last(c) = "SECURITY_INCIDENT_CREATED"
        /\ At(c, "REQUIRES_APPROVAL") =>
              verdict[c] # "unasked" /\ Last(c) = "APPROVAL_REQUESTED"
        /\ At(c, "FAILED") =>
              /\ verdict[c] = "unasked" /\ request[c] \in {"NONE", "REQUESTED", "FAILED"}
              /\ request[c] = "REQUESTED" => ~Ran(c)

\* The decision of the policies that are enabled, for one call, is what the
\* precedence rules promise: a policy that is enabled, in scope and matches
\* has that action; no policy in error is as specific, none that matches is
\* more specific, and none as specific has a higher priority or the same
\* priority and another action.
NamedPermit(policies, input) ==
    LET decision == Policy!Evaluate(policies, input).decision
        value == Policy!Holds(input)
        rank(i) == Policy!Rank(policies, Policy!Scopes[i], input)
        matched(i) == {p \in rank(i) : value[p.conditions] = "true"}
    IN decision # "BLOCK" =>
          \E i \in DOMAIN Policy!Scopes :
              /\ \A j \in 1 .. i : \A p \in rank(j) : value[p.conditions] # "error"
              /\ \A j \in 1 .. i - 1 : matched(j) = {}
              /\ \E p \in matched(i) :
                    /\ p.action = decision
                    /\ \A q \in matched(i) :
                          q.priority >= p.priority =>
                              q.priority = p.priority /\ q.action = decision

\* However the policies are edited, every call that is not blocked has a
\* policy to name.
EveryPermitIsNamed ==
    [][enabled' # enabled => \A input \in Inputs : NamedPermit(enabled', input)]_enabled

\* Enabling or disabling a policy that does not match a call has no effect on
\* what is decided about the call.
IdlePoliciesDoNotMatter ==
    [][\A p \in Policies : (p \in enabled) # (p \in enabled') =>
          \A input \in Inputs :
              p.tool # input.tool \/ Policy!Holds(input)[p.conditions] = "false" =>
                  Policy!Evaluate(enabled, input).decision
                      = Policy!Evaluate(enabled', input).decision]_enabled

=============================================================================
