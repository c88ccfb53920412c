------------------------------- MODULE Service -------------------------------
(* Requests to the API from their bearer token to the effect of a tool, while *)
(* workers start, the seed runs and administrators edit the tables (Accounts) and *)
(* the tools of other requests run (ToolEffects).                            *)
(*                                                                           *)
(* One execution: create starts it, and a step, whatever it was that asked   *)
(* for it, runs the tool its planner decided on, under the key made of the   *)
(* execution's id.  The lease is left out: the steps that overlap are those  *)
(* of holders that outlived it.  A submission is an external agent's call,   *)
(* on another execution, under a fresh key.                                  *)
EXTENDS Accounts, Sequences

CONSTANTS
    Requests,       \* threads that serve requests
    Payments, Environments, Keys, NoKey, MaxDeployments,
    PlannedKey,     \* "runtime-{execution.id}-..."
    Traffic,        \* who may call what: operators and endpoints
    Planned,        \* what an objective makes the planner decide on
    Submitted       \* what external agents may ask for

Endpoints == {"create", "step", "read", "submit", "poll"}

VARIABLES
    refunds, refunded, deployments, job, answers, rivals,
    request,    \* where each request is, whose and which it is; history: and
                \* whether it was locked out when it came
    execution,  \* the execution's status, NONE before it exists
    plan,       \* what its planner decides on
    used        \* the keys external agents have made

effectVars == <<refunds, refunded, deployments, job, answers, rivals>>
deskVars == <<request, execution, plan, used>>
accountRest == <<operator, token, boot, writer, promoters, seeder, seeded, outdated>>
serviceVars == <<accountVars, effectVars, deskVars>>

Effects == INSTANCE ToolEffects WITH Calls <- Requests

ASSUME ServiceAssumption ==
    /\ NoKey \notin Keys
    /\ PlannedKey \in Keys
    /\ MaxDeployments \in Nat
    /\ Traffic \subseteq Usernames \X Endpoints
    /\ Planned \subseteq Effects!Jobs
    /\ Submitted \subseteq Effects!Jobs

NoRequest == [at |-> "idle"]
NoPlan == <<>>

TypeOK ==
    /\ AccountsTypeOK
    /\ Effects!EffectsTypeOK
    /\ request \in [Requests -> {NoRequest} \cup
          [at : {"token", "operator", "starting", "tool", "reading"},
           user : Usernames, kind : Endpoints, barred : BOOLEAN]]
    /\ execution \in {"NONE", "CREATED", "RUNNING"}
    /\ plan \in Planned \cup {NoPlan}
    /\ used \subseteq Keys \ {PlannedKey}
    /\ \A r \in Requests : Effects!Working(r) => request[r].at = "tool"

ServiceInit ==
    /\ AccountsInit
    /\ Effects!EffectsInit
    /\ request = [r \in Requests |-> NoRequest]
    /\ execution = "NONE"
    /\ plan = NoPlan
    /\ used = {}

In(r, stage) == request[r].at = stage
GoOn(r, stage) == request' = [request EXCEPT ![r].at = stage]
Answered(r) == request' = [request EXCEPT ![r] = NoRequest]

-----------------------------------------------------------------------------
(* get_current_operator, require_permission, require_scope                   *)

Right(kind) ==
    CASE kind \in {"create", "step"} -> "execute"
      [] kind = "read" -> "read"
      [] kind = "submit" -> "actions:submit"
      [] kind = "poll" -> "actions:read"

\* The bootstrap operator is active again as soon as a worker starts and finds no
\* administrator.
Deactivated(u) == u # Bootstrap /\ Exists(u) /\ ~operator[u].active

\* Locked out by hand.
LockedOut(u) == token[u] = "revoked" \/ Deactivated(u)

\* A worker serves when its start-up has ended.
Arrive(r, u, kind) ==
    /\ In(r, "idle")
    /\ \E w \in Workers : boot[w] = "up"
    /\ request' = [request EXCEPT ![r] =
          [at |-> "token", user |-> u, kind |-> kind, barred |-> LockedOut(u)]]
    /\ UNCHANGED <<accountVars, effectVars, execution, plan, used>>

ReadToken(r) ==
    /\ In(r, "token")
    /\ IF TokenAccepted(request[r].user) THEN GoOn(r, "operator") ELSE Answered(r)
    /\ UNCHANGED <<accountVars, effectVars, execution, plan, used>>

\* The operator's row is not looked at again, so that the endpoint's first
\* statement is in the same step.
Admitted(r, kind) ==
    /\ In(r, "operator") /\ request[r].kind = kind
    /\ OperatorAccepted(request[r].user)
    /\ Permitted(request[r].user, Right(kind))

\* 401 or 403; and 400, 404, a NOOP, or a verdict that runs nothing.
Decline(r) ==
    /\ In(r, "operator")
    /\ Answered(r)
    /\ UNCHANGED <<accountVars, effectVars, execution, plan, used>>

-----------------------------------------------------------------------------
(* The endpoints                                                             *)

\* start_execution's first commit; its agent is one of the seed's.
Create(r) ==
    /\ Admitted(r, "create")
    /\ seeded
    /\ execution = "NONE"
    /\ execution' = "CREATED"
    /\ plan' \in Planned
    /\ GoOn(r, "starting")
    /\ UNCHANGED <<accountVars, effectVars, used>>

\* Its chunk: the guarded UPDATE and the event.
Begin(r) ==
    /\ In(r, "starting")
    /\ execution' = IF execution = "CREATED" THEN "RUNNING" ELSE execution
    /\ Answered(r)
    /\ UNCHANGED <<accountVars, effectVars, plan, used>>

\* The execution has to be RUNNING.  What is parked and approved carries the same arguments.
RunPlanned(r) ==
    /\ Admitted(r, "step")
    /\ execution = "RUNNING"
    /\ Effects!Start(r, [plan EXCEPT !.key = PlannedKey])
    /\ GoOn(r, "tool")
    /\ UNCHANGED <<accountVars, execution, plan, used>>

\* The adapters make a key of a fresh uuid for every refund.
Fresh == Keys \ (used \cup {PlannedKey})

\* The adapters' tool calls, on another execution.
SubmitAction(r, j) ==
    /\ Admitted(r, "submit")
    /\ \E k \in Fresh :
          /\ Effects!Start(r, [j EXCEPT !.key = k])
          /\ used' = used \cup {k}
    /\ GoOn(r, "tool")
    /\ UNCHANGED <<accountVars, execution, plan>>

\* The GET endpoints of executions and of integrations.
Read(r) ==
    /\ \E kind \in {"read", "poll"} : Admitted(r, kind)
    /\ GoOn(r, "reading")
    /\ UNCHANGED <<accountVars, effectVars, execution, plan, used>>

Show(r) ==
    /\ In(r, "reading")
    /\ Answered(r)
    /\ UNCHANGED <<accountVars, effectVars, execution, plan, used>>

ToolStep(r) ==
    /\ Effects!Run(r)
    /\ request' = IF Effects!Working(r)' THEN request
                  ELSE [request EXCEPT ![r] = NoRequest]
    /\ UNCHANGED <<accountVars, execution, plan, used>>

\* The thread dies with its process; what it had not committed is gone.
Perish(r) ==
    /\ ~In(r, "idle")
    /\ Event
    /\ Effects!Die(r)
    /\ Answered(r)
    /\ UNCHANGED <<accountRest, execution, plan, used>>

Serve(r) ==
    \/ ReadToken(r) \/ Create(r) \/ Begin(r) \/ RunPlanned(r)
    \/ Read(r) \/ Show(r) \/ Decline(r) \/ ToolStep(r) \/ Perish(r)
    \/ \E j \in Submitted : SubmitAction(r, j)
    \/ \E call \in Traffic : Arrive(r, call[1], call[2])

Administer ==
    \/ \E w \in Workers : BootWorker(w) \/ StartUp(w) \/ StopWorker(w)
    \/ BeginChapter \/ CommitChapter \/ Killed \/ Rerun
    \/ \E u \in Usernames : Deactivate(u) \/ Revoke(u)

\* A token that is deleted may be issued again, and then lets its bearer in.
Pardon(u) ==
    /\ DropToken(u)
    /\ request' = [r \in Requests |->
          IF ~In(r, "idle") /\ request[r].user = u
          THEN [request[r] EXCEPT !.barred = Deactivated(u)] ELSE request[r]]
    /\ UNCHANGED <<effectVars, execution, plan, used>>

ServiceNext ==
    \/ Administer /\ UNCHANGED <<effectVars, deskVars>>
    \/ \E u \in Usernames : Pardon(u)
    \/ \E r \in Requests : Serve(r)

ServiceSpec == ServiceInit /\ [][ServiceNext]_serviceVars

-----------------------------------------------------------------------------
(* Properties                                                                *)

\* A request whose token was revoked, or whose operator was deactivated, before it
\* arrived is never let in, unless the token's row is deleted meanwhile, although
\* token and operator are read in separate statements and start-ups and seeds write
\* to both tables.  An integration, which require_permission takes for any VIEWER, is
\* let in to read and to submit and never to start or step an execution; and whoever
\* is none is not let in by scope.
OnlyTheEntitledEnter ==
    [][\A r \in Requests :
          request[r].at = "operator" /\ request'[r].at \in {"starting", "tool", "reading"}
            => /\ ~request[r].barred
               /\ request[r].user \in Machines => request[r].kind \notin {"create", "step"}
               /\ request[r].user \notin Machines => request[r].kind \notin {"submit", "poll"}
       ]_serviceVars

\* What the execution decided on is done once, whichever of its calls overlap,
\* die, are approved late or are repeated (agent_runtime.py, "safety then
\* depends on that tool being idempotent").
PlannedOnce ==
    /\ \A i, j \in DOMAIN refunds :
          refunds[i].key = PlannedKey /\ refunds[j].key = PlannedKey => i = j
    /\ \A i, j \in DOMAIN deployments :
          deployments[i].key = PlannedKey /\ deployments[j].key = PlannedKey => i = j

\* Whoever calls with a key is told of one and the same row (_replay).
AnswersAgree == Effects!AnswersAgree

\* A second refund of a payment needs two calls that overlap (_run).
DoubleRefundNeedsARace == Effects!DoubleRefundNeedsARace

RefundsKeepTheirKeys == Effects!RefundKeys!KeySpec
DeploymentsKeepTheirKeys == Effects!DeploymentKeys!KeySpec

\* Both tables implement OncePerKey: what is done under a key is done once
\* (_deploy, "concurrent same operation executes once").
EffectsKeepTheirKeys == RefundsKeepTheirKeys /\ DeploymentsKeepTheirKeys

=============================================================================
