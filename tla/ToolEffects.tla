----------------------------- MODULE ToolEffects -----------------------------
(* The tools that change something: refund_payment and the two deployments,  *)
(* statement by statement, with calls that run at once and may share keys.   *)
(*                                                                           *)
(* A row is what the table's constraints see of it.  An insert and what is   *)
(* changed with it commit together; an insert of a key another transaction   *)
(* has inserted waits for it and then fails, so it is one step.              *)
EXTENDS Naturals, Sequences

CONSTANTS
    Calls,          \* threads that may run a tool
    Payments,
    Environments,
    Keys,           \* idempotency keys
    NoKey,          \* a deployment's idempotency_key = None
    MaxDeployments  \* bound: rows in deployments

VARIABLES
    refunds,        \* the rows of refunds, in the order of their commits
    refunded,       \* the payments whose status is REFUNDED
    deployments,    \* the rows of deployments, in the order of their commits
    job,            \* what each thread is doing, and for whom
    answers,        \* history: answers given, with the row they tell of
    rivals          \* history: payments two calls had found open at once

effectVars == <<refunds, refunded, deployments, job, answers, rivals>>

\* A refund's amount is at most the payment's, or it is not.
RefundJobs == [tool : {"refund_payment"}, key : Keys, target : Payments, fits : BOOLEAN]
DeployJobs == [tool : {"deploy"}, key : Keys \cup {NoKey}, target : Environments, fits : {TRUE}]
Jobs == RefundJobs \cup DeployJobs

Done == [at |-> "idle"]
Stages == {"finding", "checking", "committing", "reloading"}

Working(c) == job[c].at # "idle"
At(c, stage, tool) == job[c].at = stage /\ job[c].of.tool = tool
Go(c, stage) == job' = [job EXCEPT ![c].at = stage]
Stop(c) == job' = [job EXCEPT ![c] = Done]

RowsWith(table, key) == {i \in DOMAIN table : key # NoKey /\ table[i].key = key}

EffectsTypeOK ==
    /\ refunds \in Seq([key : Keys, target : Payments])
    /\ deployments \in Seq([key : Keys \cup {NoKey}, target : Environments])
    /\ job \in [Calls -> {Done} \cup [at : Stages, of : Jobs]]
    /\ answers \subseteq [tool : {"refund_payment", "deploy"}, key : Keys, row : Nat]
    /\ rivals \subseteq Payments
    \* a payment and the row of its refund change together
    /\ refunded = {refunds[i].target : i \in DOMAIN refunds}

EffectsInit ==
    /\ refunds = <<>>
    /\ refunded = {}
    /\ deployments = <<>>
    /\ job = [c \in Calls |-> Done]
    /\ answers = {}
    /\ rivals = {}

-----------------------------------------------------------------------------
(* One call                                                                  *)

\* BaseTool.execute has validated the arguments.
Start(c, j) ==
    /\ ~Working(c)
    /\ job' = [job EXCEPT ![c] = [at |-> "finding", of |-> j]]
    /\ UNCHANGED <<refunds, refunded, deployments, answers, rivals>>

\* An answer that replays or reports one row ends the call.
Report(c, row) ==
    /\ answers' = answers \cup
          {[tool |-> job[c].of.tool, key |-> k, row |-> row] : k \in {job[c].of.key} \cap Keys}
    /\ Stop(c)

Find(c, tool, table, next) ==
    /\ At(c, "finding", tool)
    /\ LET found == RowsWith(table, job[c].of.key)
       IN IF found = {}
          THEN Go(c, next) /\ UNCHANGED answers
          ELSE \E row \in found : Report(c, row)
    /\ UNCHANGED <<refunds, refunded, deployments, rivals>>

FindRefund(c) == Find(c, "refund_payment", refunds, "checking")
FindDeployment(c) == Find(c, "deploy", deployments, "committing")

\* The calls that have found a payment open under another key.
Others(j) ==
    {d \in Calls : /\ At(d, "committing", "refund_payment")
                   /\ job[d].of.target = j.target
                   /\ job[d].of.key # j.key}

\* Mutant: a payment is refunded again under another key.
OpenToAll(j) == j.fits

\* The payment is not REFUNDED and the amount does not exceed it.
Refundable(j) == j.target \notin refunded /\ j.fits

\* ALREADY_REFUNDED and INVALID_AMOUNT end the call.
CheckPayment(c) ==
    /\ At(c, "checking", "refund_payment")
    /\ IF Refundable(job[c].of)
       THEN /\ Go(c, "committing")
            /\ rivals' = rivals \cup {job[d].of.target : d \in Others(job[c].of)}
       ELSE Stop(c) /\ UNCHANGED rivals
    /\ UNCHANGED <<refunds, refunded, deployments, answers>>

\* Mutant: the unique constraint on idempotency_key is missing.
NeverTaken(table, key) == FALSE

\* The unique constraint on idempotency_key.
Taken(table, key) == RowsWith(table, key) # {}

Collide(c, tool, table) ==
    /\ At(c, "committing", tool)
    /\ Taken(table, job[c].of.key)
    /\ Go(c, "reloading")
    /\ UNCHANGED <<refunds, refunded, deployments, answers, rivals>>

CommitRefund(c) ==
    /\ At(c, "committing", "refund_payment")
    /\ ~Taken(refunds, job[c].of.key)
    /\ refunds' = Append(refunds, [key |-> job[c].of.key, target |-> job[c].of.target])
    /\ refunded' = refunded \cup {job[c].of.target}
    /\ Report(c, Len(refunds'))
    /\ UNCHANGED <<deployments, rivals>>

CommitDeployment(c) ==
    /\ At(c, "committing", "deploy")
    /\ Len(deployments) < MaxDeployments
    /\ ~Taken(deployments, job[c].of.key)
    /\ deployments' = Append(deployments, [key |-> job[c].of.key, target |-> job[c].of.target])
    /\ Report(c, Len(deployments'))
    /\ UNCHANGED <<refunds, refunded, rivals>>

\* After the rollback the row that won is replayed.
Reload(c, tool, table) ==
    /\ At(c, "reloading", tool)
    /\ \E row \in RowsWith(table, job[c].of.key) : Report(c, row)
    /\ UNCHANGED <<refunds, refunded, deployments, rivals>>

Run(c) ==
    \/ FindRefund(c) \/ CheckPayment(c) \/ CommitRefund(c)
    \/ FindDeployment(c) \/ CommitDeployment(c)
    \/ Collide(c, "refund_payment", refunds) \/ Collide(c, "deploy", deployments)
    \/ Reload(c, "refund_payment", refunds) \/ Reload(c, "deploy", deployments)

\* The process dies and the open transaction is rolled back.
Die(c) ==
    /\ Stop(c)
    /\ UNCHANGED <<refunds, refunded, deployments, answers, rivals>>

-----------------------------------------------------------------------------
(* Properties                                                                *)

\* Whoever calls with a key is told of one and the same row.
AnswersAgree ==
    \A a, b \in answers : a.tool = b.tool /\ a.key = b.key => a.row = b.row

\* A payment is refunded twice only by calls with keys of their own that both
\* found it open before either had committed: no lock is held on the payment.
DoubleRefundNeedsARace ==
    \A i, j \in DOMAIN refunds :
        i # j /\ refunds[i].target = refunds[j].target => refunds[i].target \in rivals

\* Rows that a key has, up to two.
Times(table, key) ==
    LET rows == RowsWith(table, key)
    IN IF rows = {} THEN 0 ELSE IF \E i \in rows : rows = {i} THEN 1 ELSE 2

\* Each table does under a key what it does once.
RefundKeys == INSTANCE OncePerKey WITH done <- [k \in Keys |-> Times(refunds, k)]
DeploymentKeys == INSTANCE OncePerKey WITH done <- [k \in Keys |-> Times(deployments, k)]

=============================================================================
