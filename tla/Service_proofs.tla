--------------------------- MODULE Service_proofs ----------------------------
(* What the tools promise to whoever calls them, whatever happens to the     *)
(* accounts meanwhile; and what the accounts promise to whoever runs the     *)
(* service: an administrator, and that nobody enters who was locked out.     *)
(* For any number of requests, payments, keys, workers, operators and edits. *)
EXTENDS Service, SequenceTheorems, TLAPS

-----------------------------------------------------------------------------
(* The steps of the service, as the tools see them                           *)

\* An execution that exists has a plan.
PlanIsKnown ==
    /\ execution \in {"NONE", "CREATED", "RUNNING"}
    /\ execution # "NONE" => plan \in Planned

\* A call starts, runs or dies.
CallSteps(c) ==
    \/ \E j \in Effects!Jobs : Effects!Start(c, j)
    \/ Effects!Run(c)
    \/ Effects!Die(c)

\* A job under another key is a job.
LEMMA OtherKey ==
  ASSUME NEW j \in Effects!Jobs, NEW k \in Keys
  PROVE  [j EXCEPT !.key = k] \in Effects!Jobs
  BY DEF Effects!Jobs, Effects!RefundJobs, Effects!DeployJobs

\* A plan is one the planner may decide on.
LEMMA PlanInductive ==
  /\ ServiceInit => PlanIsKnown
  /\ PlanIsKnown /\ [ServiceNext]_serviceVars => PlanIsKnown'
<1>1. ServiceInit => PlanIsKnown
  BY DEF ServiceInit, PlanIsKnown
<1>2. ASSUME PlanIsKnown, [ServiceNext]_serviceVars
      PROVE  PlanIsKnown'
  <2>1. CASE UNCHANGED serviceVars
    BY <1>2, <2>1 DEF PlanIsKnown, serviceVars, deskVars
  <2>2. CASE Administer /\ UNCHANGED <<effectVars, deskVars>>
    BY <1>2, <2>2 DEF PlanIsKnown, deskVars
  <2>3. CASE \E u \in Usernames : Pardon(u)
    BY <1>2, <2>3 DEF PlanIsKnown, Pardon
  <2>4. CASE \E r \in Requests : Serve(r)
    <3>1. PICK r \in Requests : Serve(r)
      BY <2>4
    <3>2. CASE Create(r)
      BY <1>2, <3>2 DEF Create, PlanIsKnown
    <3>3. CASE Begin(r)
      BY <1>2, <3>3 DEF Begin, PlanIsKnown
    <3>4. CASE UNCHANGED <<execution, plan>>
      BY <1>2, <3>4 DEF PlanIsKnown
    <3>5. QED
      BY <3>1, <3>2, <3>3, <3>4 DEF Serve, ReadToken, RunPlanned, Read, Show, Decline, ToolStep, Perish,
            SubmitAction, Arrive
  <2>5. QED
    BY <1>2, <2>1, <2>2, <2>3, <2>4 DEF ServiceNext
<1>3. QED
  BY <1>1, <1>2

\* Whatever a request does is a step of its call of a tool or leaves the tools' tables
\* alone.
LEMMA StepsAreCalls ==
  ASSUME PlanIsKnown, [ServiceNext]_serviceVars
  PROVE  UNCHANGED effectVars \/ \E c \in Requests : CallSteps(c)
<1>1. CASE UNCHANGED serviceVars
  BY <1>1 DEF serviceVars
<1>2. CASE Administer /\ UNCHANGED <<effectVars, deskVars>>
  BY <1>2
<1>3. ASSUME NEW r \in Requests, Serve(r)
      PROVE  UNCHANGED effectVars \/ CallSteps(r)
  <2>1. CASE RunPlanned(r)
    <3>1. plan \in Effects!Jobs
      BY <2>1, ServiceAssumption DEF RunPlanned, PlanIsKnown
    <3>2. [plan EXCEPT !.key = PlannedKey] \in Effects!Jobs
      BY <3>1, OtherKey, ServiceAssumption
    <3>3. QED
      BY <2>1, <3>2 DEF RunPlanned, CallSteps
  <2>2. ASSUME NEW j \in Submitted, SubmitAction(r, j)
        PROVE  CallSteps(r)
    <3>1. j \in Effects!Jobs
      BY ServiceAssumption
    <3>2. PICK k \in Keys : Effects!Start(r, [j EXCEPT !.key = k])
      BY <2>2 DEF SubmitAction, Fresh
    <3>3. [j EXCEPT !.key = k] \in Effects!Jobs
      BY <3>1, OtherKey
    <3>4. QED
      BY <3>2, <3>3 DEF CallSteps
  <2>3. CASE ToolStep(r) \/ Perish(r)
    BY <2>3 DEF ToolStep, Perish, CallSteps
  <2>4. CASE UNCHANGED effectVars
    BY <2>4
  <2>5. QED
    BY <1>3, <2>1, <2>2, <2>3, <2>4 DEF Serve, ReadToken, Create, Begin, Read, Show, Decline, Arrive
<1>4. CASE \E u \in Usernames : Pardon(u)
  BY <1>4 DEF Pardon
<1>5. QED
  BY <1>1, <1>2, <1>3, <1>4 DEF ServiceNext

-----------------------------------------------------------------------------
(* The inductive invariant: types; a key has one row; an answer tells of a   *)
(* row of its key; and of the calls about to refund a payment, two with keys *)
(* of their own are rivals, and so is one that comes too late, unless the    *)
(* row of its own key is there.                                              *)

Table(tool) == IF tool = "refund_payment" THEN refunds ELSE deployments
Tools == {"refund_payment", "deploy"}
Refunds == [key : Keys, target : Payments]
Deployments == [key : Keys \cup {NoKey}, target : Environments]
Refunding(c) == Effects!At(c, "committing", "refund_payment")

Typed ==
    /\ refunds \in Seq(Refunds)
    /\ deployments \in Seq(Deployments)
    /\ job \in [Requests -> {Effects!Done} \cup [at : Effects!Stages, of : Effects!Jobs]]

OneRow(table) ==
    \A i, j \in DOMAIN table :
        table[i].key = table[j].key /\ table[i].key # NoKey => i = j

Told == \A a \in answers :
    a.tool \in Tools /\ a.row \in Effects!RowsWith(Table(a.tool), a.key)

Targets == refunded = {refunds[i].target : i \in DOMAIN refunds}

RivalsMeet ==
    \A c, d \in Requests :
        Refunding(c) /\ Refunding(d) /\ job[c].of.target = job[d].of.target
            /\ job[c].of.key # job[d].of.key
        => job[c].of.target \in rivals

LateIsARival ==
    \A c \in Requests :
        Refunding(c) /\ job[c].of.target \in refunded
        => job[c].of.target \in rivals \/ Effects!RowsWith(refunds, job[c].of.key) # {}

RowsInv ==
    /\ Typed /\ OneRow(refunds) /\ OneRow(deployments) /\ Told
    /\ Targets /\ RivalsMeet /\ LateIsARival /\ Effects!DoubleRefundNeedsARace

\* What appending a row does to a table.
LEMMA Appended ==
  ASSUME NEW S, NEW s \in Seq(S), NEW e \in S
  PROVE  /\ Append(s, e) \in Seq(S)
         /\ Len(s) \in Nat /\ Len(Append(s, e)) = Len(s) + 1
         /\ DOMAIN s = 1 .. Len(s)
         /\ DOMAIN Append(s, e) = 1 .. Len(s) + 1
         /\ \A i \in DOMAIN s : Append(s, e)[i] = s[i]
         /\ Append(s, e)[Len(s) + 1] = e
  OBVIOUS

\* A key that is not taken gets its first row.
LEMMA StillOneRow ==
  ASSUME NEW S, NEW table \in Seq(S), NEW e \in S, OneRow(table),
         ~Effects!Taken(table, e.key)
  PROVE  /\ OneRow(Append(table, e))
         /\ \A k : k # e.key => Effects!RowsWith(Append(table, e), k) = Effects!RowsWith(table, k)
         /\ e.key # NoKey => Effects!RowsWith(Append(table, e), e.key) = {Len(table) + 1}
<1> DEFINE new == Append(table, e)
<1>1. /\ Len(table) \in Nat /\ DOMAIN table = 1 .. Len(table)
      /\ DOMAIN new = 1 .. Len(table) + 1
      /\ \A i \in DOMAIN table : new[i] = table[i]
      /\ new[Len(table) + 1] = e
  BY Appended
<1> HIDE DEF new
<1>2. \A i \in DOMAIN table : e.key # NoKey => table[i].key # e.key
  BY DEF Effects!Taken, Effects!RowsWith
<1>3. DOMAIN new = DOMAIN table \cup {Len(table) + 1} /\ Len(table) + 1 \notin DOMAIN table
  BY <1>1
<1>4. OneRow(new)
  BY <1>1, <1>2, <1>3 DEF OneRow
<1>5. ASSUME NEW k, k # e.key
      PROVE  Effects!RowsWith(new, k) = Effects!RowsWith(table, k)
  BY <1>1, <1>3, <1>5 DEF Effects!RowsWith
<1>6. ASSUME e.key # NoKey
      PROVE  Effects!RowsWith(new, e.key) = {Len(table) + 1}
  BY <1>1, <1>2, <1>3, <1>6 DEF Effects!RowsWith
<1>7. QED
  BY <1>4, <1>5, <1>6 DEF new

-----------------------------------------------------------------------------
(* Every step preserves it                                                   *)

JobStates == {Effects!Done} \cup [at : Effects!Stages, of : Effects!Jobs]

\* What a thread that is at some stage carries.
LEMMA Carried ==
  ASSUME Typed, NEW c \in Requests, Effects!Working(c)
  PROVE  /\ job[c] \in [at : Effects!Stages, of : Effects!Jobs]
         /\ job[c].of.tool \in Tools
         /\ job[c].of.tool = "refund_payment" =>
               job[c].of.key \in Keys /\ job[c].of.target \in Payments
         /\ job[c].of.tool = "deploy" =>
               job[c].of.key \in Keys \cup {NoKey} /\ job[c].of.target \in Environments
<1>1. job[c] \in [at : Effects!Stages, of : Effects!Jobs]
  BY DEF Typed, Effects!Working, Effects!Done
<1>2. job[c].of \in Effects!Jobs
  BY <1>1
<1>3. QED
  BY <1>1, <1>2 DEF Effects!Jobs, Effects!RefundJobs, Effects!DeployJobs, Tools

\* An answer about a row of the call's key is a true one.
LEMMA ReportIsTold ==
  ASSUME Typed, Told, NEW c \in Requests, Effects!Working(c), NEW row,
         refunds' = refunds, deployments' = deployments, Effects!Report(c, row),
         row \in Effects!RowsWith(Table(job[c].of.tool), job[c].of.key)
  PROVE  Told'
<1>1. job[c].of.tool \in Tools
  BY Carried
<1>2. ASSUME NEW a \in answers'
      PROVE  a.tool \in Tools /\ a.row \in Effects!RowsWith(Table(a.tool), a.key)
  <2>1. CASE a \in answers
    BY <2>1 DEF Told
  <2>2. CASE a = [tool |-> job[c].of.tool, key |-> job[c].of.key, row |-> row]
    BY <1>1, <2>2
  <2>3. QED
    BY <1>2, <2>1, <2>2 DEF Effects!Report
<1>3. QED
  BY <1>2 DEF Told, Table, Effects!RowsWith

\* A step that writes no row and leads nobody to a refund.
LEMMA QuietStep ==
  ASSUME RowsInv, NEW c \in Requests, NEW state \in JobStates,
         job' = [job EXCEPT ![c] = state],
         ~(state.at = "committing" /\ state.of.tool = "refund_payment"),
         UNCHANGED <<refunds, refunded, deployments, rivals>>, Told'
  PROVE  RowsInv'
<1>1. Typed' /\ Targets' /\ OneRow(refunds)' /\ OneRow(deployments)'
  BY DEF RowsInv, Typed, Targets, OneRow, JobStates
<1>2. \A d \in Requests : Refunding(d)' => Refunding(d) /\ job'[d] = job[d]
  BY DEF RowsInv, Typed, Refunding, Effects!At
<1>3. RivalsMeet' /\ LateIsARival'
  BY <1>2 DEF RowsInv, RivalsMeet, LateIsARival, Effects!RowsWith
<1>4. Effects!DoubleRefundNeedsARace'
  BY DEF RowsInv, Effects!DoubleRefundNeedsARace
<1>5. QED
  BY <1>1, <1>3, <1>4 DEF RowsInv

\* A thread that goes on to a stage is in a state.
LEMMA GoIsAState ==
  ASSUME Typed, NEW c \in Requests, Effects!Working(c), NEW stage \in Effects!Stages,
         Effects!Go(c, stage)
  PROVE  /\ job' = [job EXCEPT ![c] = [at |-> stage, of |-> job[c].of]]
         /\ [at |-> stage, of |-> job[c].of] \in JobStates
<1>1. job[c] \in [at : Effects!Stages, of : Effects!Jobs]
  BY Carried
<1>2. [job[c] EXCEPT !.at = stage] = [at |-> stage, of |-> job[c].of]
  BY <1>1
<1>3. QED
  BY <1>1, <1>2 DEF Effects!Go, JobStates

\* A call that begins.
LEMMA StartPreserves ==
  ASSUME RowsInv, NEW c \in Requests, NEW j \in Effects!Jobs, Effects!Start(c, j)
  PROVE  RowsInv'
<1>1. [at |-> "finding", of |-> j] \in JobStates
  BY DEF JobStates, Effects!Stages
<1>2. Told'
  BY DEF RowsInv, Told, Table, Effects!Start, Effects!RowsWith
<1>3. QED
  BY <1>1, <1>2, QuietStep DEF Effects!Start

\* A call that stops, with an answer or without.
LEMMA StopPreserves ==
  ASSUME RowsInv, NEW c \in Requests, Effects!Stop(c),
         UNCHANGED <<refunds, refunded, deployments, rivals>>, Told'
  PROVE  RowsInv'
<1>1. Effects!Done \in JobStates /\ Effects!Done.at # "committing"
  BY DEF JobStates, Effects!Done
<1>2. QED
  BY <1>1, QuietStep DEF Effects!Stop

\* A call whose process dies.
LEMMA DiePreserves ==
  ASSUME RowsInv, NEW c \in Requests, Effects!Die(c)
  PROVE  RowsInv'
<1>1. Told'
  BY DEF RowsInv, Told, Table, Effects!Die, Effects!RowsWith
<1>2. QED
  BY <1>1, StopPreserves DEF Effects!Die

\* A look for the row of the key, which is replayed if it is there.
LEMMA FindPreserves ==
  ASSUME RowsInv, NEW c \in Requests, Effects!FindRefund(c) \/ Effects!FindDeployment(c)
  PROVE  RowsInv'
<1>1. PICK tool \in Tools, next \in {"checking", "committing"} :
         /\ Effects!Find(c, tool, Table(tool), next)
         /\ tool = "refund_payment" => next = "checking"
  BY DEF Effects!FindRefund, Effects!FindDeployment, Tools, Table
<1>2. Typed /\ Told /\ Effects!Working(c) /\ job[c].of.tool = tool
  BY <1>1 DEF RowsInv, Effects!Find, Effects!At, Effects!Working
<1>3. CASE Effects!Go(c, next) /\ UNCHANGED answers
  <2>1. next \in Effects!Stages
    BY DEF Effects!Stages
  <2>2. /\ job' = [job EXCEPT ![c] = [at |-> next, of |-> job[c].of]]
        /\ [at |-> next, of |-> job[c].of] \in JobStates
    BY <1>2, <1>3, <2>1, GoIsAState
  <2>3. Told'
    BY <1>1, <1>2, <1>3 DEF Told, Table, Effects!Find, Effects!RowsWith
  <2>4. ~(next = "committing" /\ job[c].of.tool = "refund_payment")
    BY <1>1, <1>2
  <2> DEFINE state == [at |-> next, of |-> job[c].of]
  <2>5. state \in JobStates /\ job' = [job EXCEPT ![c] = state]
        /\ ~(state.at = "committing" /\ state.of.tool = "refund_payment")
    BY <2>2, <2>4
  <2> HIDE DEF state
  <2>6. QED
    BY <1>1, <2>3, <2>5, QuietStep DEF Effects!Find
<1>4. CASE \E row \in Effects!RowsWith(Table(tool), job[c].of.key) : Effects!Report(c, row)
  <2>1. PICK row \in Effects!RowsWith(Table(tool), job[c].of.key) : Effects!Report(c, row)
    BY <1>4
  <2>2. Told'
    BY <1>1, <1>2, <2>1, ReportIsTold DEF Effects!Find
  <2>3. QED
    BY <1>1, <2>1, <2>2, StopPreserves DEF Effects!Find, Effects!Report
<1>5. QED
  BY <1>1, <1>2, <1>3, <1>4 DEF Effects!Find

\* An insert that fails on the unique constraint.
LEMMA CollidePreserves ==
  ASSUME RowsInv, NEW c \in Requests, NEW tool \in Tools,
         Effects!Collide(c, tool, Table(tool))
  PROVE  RowsInv'
<1>1. Typed /\ Told /\ Effects!Working(c)
  BY DEF RowsInv, Effects!Collide, Effects!At, Effects!Working
<1>2. "reloading" \in Effects!Stages
  BY DEF Effects!Stages
<1> DEFINE state == [at |-> "reloading", of |-> job[c].of]
<1>3. state \in JobStates /\ job' = [job EXCEPT ![c] = state]
  BY <1>1, <1>2, GoIsAState DEF Effects!Collide
<1>4. Told'
  BY <1>1 DEF Told, Table, Effects!Collide, Effects!RowsWith
<1>5. state.at # "committing"
  OBVIOUS
<1> HIDE DEF state
<1>6. QED
  BY <1>3, <1>4, <1>5, QuietStep DEF Effects!Collide

\* The winner's row is replayed.
LEMMA ReloadPreserves ==
  ASSUME RowsInv, NEW c \in Requests, NEW tool \in Tools,
         Effects!Reload(c, tool, Table(tool))
  PROVE  RowsInv'
<1>1. Typed /\ Told /\ Effects!Working(c) /\ job[c].of.tool = tool
  BY DEF RowsInv, Effects!Reload, Effects!At, Effects!Working
<1>2. PICK row \in Effects!RowsWith(Table(tool), job[c].of.key) : Effects!Report(c, row)
  BY DEF Effects!Reload
<1>3. Told'
  BY <1>1, <1>2, ReportIsTold DEF Effects!Reload
<1>4. QED
  BY <1>2, <1>3, StopPreserves DEF Effects!Reload, Effects!Report

\* A payment is found open: whoever else has found it so is a rival.
LEMMA CheckPreserves ==
  ASSUME RowsInv, NEW c \in Requests, Effects!CheckPayment(c)
  PROVE  RowsInv'
<1>1. /\ Typed /\ Told /\ Effects!Working(c)
      /\ job[c].at = "checking" /\ job[c].of.tool = "refund_payment"
  BY DEF RowsInv, Effects!CheckPayment, Effects!At, Effects!Working
<1>2. Told'
  BY <1>1 DEF Told, Table, Effects!CheckPayment, Effects!RowsWith
<1>3. CASE Effects!Refundable(job[c].of)
  <2>1. /\ Effects!Go(c, "committing")
        /\ rivals' = rivals \cup {job[d].of.target : d \in Effects!Others(job[c].of)}
        /\ UNCHANGED <<refunds, refunded, deployments, answers>>
        /\ job[c].of.target \notin refunded
    BY <1>3 DEF Effects!CheckPayment, Effects!Refundable
  <2> DEFINE state == [at |-> "committing", of |-> job[c].of]
  <2>2. state \in JobStates /\ job' = [job EXCEPT ![c] = state]
    <3>1. "committing" \in Effects!Stages
      BY DEF Effects!Stages
    <3>2. QED
      BY <1>1, <2>1, <3>1, GoIsAState
  <2>3. job' \in [Requests -> JobStates] /\ job'[c] = state
        /\ \A d \in Requests \ {c} : job'[d] = job[d]
    BY <1>1, <2>2 DEF Typed, JobStates
  <2>4. Typed' /\ Targets' /\ OneRow(refunds)' /\ OneRow(deployments)'
    BY <2>1, <2>3 DEF RowsInv, Typed, Targets, OneRow, JobStates
  <2>5. job'[c].of = job[c].of
    BY <2>3
  <2>6. \A d \in Requests : Refunding(d)' => d = c \/ (Refunding(d) /\ job'[d] = job[d])
    BY <2>3 DEF Refunding, Effects!At
  <2>7. \A d \in Requests : Refunding(d) /\ job[d].of.target = job[c].of.target
           /\ job[d].of.key # job[c].of.key => job[c].of.target \in rivals'
    BY <2>1 DEF Effects!Others, Refunding
  <2>8. rivals \subseteq rivals'
    BY <2>1
  <2>9. RivalsMeet'
    <3> SUFFICES ASSUME NEW d \in Requests, NEW e \in Requests,
                        Refunding(d)', Refunding(e)',
                        job'[d].of.target = job'[e].of.target,
                        job'[d].of.key # job'[e].of.key
                 PROVE  job'[d].of.target \in rivals'
      BY DEF RivalsMeet
    <3>1. CASE d = c /\ e # c
      BY <2>5, <2>6, <2>7, <3>1
    <3>2. CASE d # c /\ e = c
      BY <2>5, <2>6, <2>7, <3>2
    <3>3. CASE d # c /\ e # c
      BY <2>6, <2>8, <3>3 DEF RowsInv, RivalsMeet
    <3>4. QED
      BY <3>1, <3>2, <3>3
  <2>10. LateIsARival'
    BY <2>1, <2>5, <2>6, <2>8 DEF RowsInv, LateIsARival, Effects!RowsWith
  <2>11. Effects!DoubleRefundNeedsARace'
    BY <2>1, <2>8 DEF RowsInv, Effects!DoubleRefundNeedsARace
  <2>12. QED
    BY <1>2, <2>4, <2>9, <2>10, <2>11 DEF RowsInv
<1>4. CASE ~Effects!Refundable(job[c].of)
  BY <1>2, <1>4, StopPreserves DEF Effects!CheckPayment
<1>5. QED
  BY <1>3, <1>4

\* The thread of a commit has an answer and stops.
LEMMA AfterReport ==
  ASSUME Typed, NEW c \in Requests, NEW row, Effects!Report(c, row)
  PROVE  /\ job' \in [Requests -> JobStates]
         /\ \A d \in Requests : Refunding(d)' => d # c /\ Refunding(d) /\ job'[d] = job[d]
         /\ answers' = answers \cup
               {[tool |-> job[c].of.tool, key |-> k, row |-> row] : k \in {job[c].of.key} \cap Keys}
  BY DEF Typed, JobStates, Effects!Report, Effects!Stop, Effects!Done, Refunding, Effects!At

\* A refund is the first row of its key, and if it is not the first of its payment,
\* the payment has rivals.
LEMMA CommitRefundPreserves ==
  ASSUME RowsInv, NEW c \in Requests, Effects!CommitRefund(c)
  PROVE  RowsInv'
<1> DEFINE key == job[c].of.key
           target == job[c].of.target
           e == [key |-> key, target |-> target]
<1>1. /\ Typed /\ OneRow(refunds) /\ Told /\ Refunding(c) /\ Effects!Working(c)
      /\ job[c].of.tool = "refund_payment" /\ ~Effects!Taken(refunds, key)
      /\ refunds' = Append(refunds, e) /\ refunded' = refunded \cup {target}
      /\ Effects!Report(c, Len(refunds')) /\ UNCHANGED <<deployments, rivals>>
  BY DEF RowsInv, Effects!CommitRefund, Refunding, Effects!At, Effects!Working
<1>2. refunds \in Seq(Refunds) /\ key \in Keys /\ target \in Payments /\ e \in Refunds
  BY <1>1, Carried DEF Typed, Refunds
<1>3. /\ refunds' \in Seq(Refunds) /\ Len(refunds) \in Nat /\ Len(refunds') = Len(refunds) + 1
      /\ DOMAIN refunds = 1 .. Len(refunds) /\ DOMAIN refunds' = 1 .. Len(refunds) + 1
      /\ \A i \in DOMAIN refunds : refunds'[i] = refunds[i]
      /\ refunds'[Len(refunds) + 1] = e
  BY <1>1, <1>2, Appended
<1>4. key # NoKey
  BY <1>2, ServiceAssumption
<1>5. e.key = key /\ e.target = target
  OBVIOUS
<1> HIDE DEF e, key, target
<1>6. /\ OneRow(refunds')
      /\ \A k : k # key => Effects!RowsWith(refunds', k) = Effects!RowsWith(refunds, k)
      /\ Effects!RowsWith(refunds', key) = {Len(refunds')}
      /\ Effects!RowsWith(refunds, key) = {}
  <2>1. ~Effects!Taken(refunds, e.key)
    BY <1>1, <1>5
  <2>2. /\ OneRow(Append(refunds, e))
        /\ \A k : k # e.key =>
              Effects!RowsWith(Append(refunds, e), k) = Effects!RowsWith(refunds, k)
        /\ e.key # NoKey => Effects!RowsWith(Append(refunds, e), e.key) = {Len(refunds) + 1}
    BY <1>1, <1>2, <2>1, StillOneRow
  <2>3. refunds' = Append(refunds, e) /\ Effects!RowsWith(refunds, key) = {}
    BY <1>1 DEF Effects!Taken
  <2>4. QED
    BY <1>3, <1>4, <1>5, <2>2, <2>3
<1>7. DOMAIN refunds' = DOMAIN refunds \cup {Len(refunds) + 1}
  BY <1>3
<1>8. /\ job' \in [Requests -> JobStates]
      /\ \A d \in Requests : Refunding(d)' => d # c /\ Refunding(d) /\ job'[d] = job[d]
      /\ \A a \in answers' : a \in answers \/
            (a.tool = "refund_payment" /\ a.key = key /\ a.row = Len(refunds'))
  BY <1>1, AfterReport DEF key
<1>9. Typed' /\ OneRow(refunds)' /\ OneRow(deployments)'
  BY <1>1, <1>3, <1>6, <1>8 DEF RowsInv, Typed, OneRow, JobStates
<1>10. Told'
  <2> SUFFICES ASSUME NEW a \in answers'
               PROVE  a.tool \in Tools /\ a.row \in Effects!RowsWith(Table(a.tool)', a.key)
    BY DEF Told, Table, Effects!RowsWith
  <2>1. CASE a \in answers
    <3>1. a.tool \in Tools /\ a.row \in Effects!RowsWith(Table(a.tool), a.key)
      BY <1>1, <2>1 DEF Told
    <3>2. CASE a.tool = "refund_payment"
      BY <1>6, <3>1, <3>2 DEF Table
    <3>3. CASE a.tool # "refund_payment"
      BY <1>1, <3>1, <3>3 DEF Table
    <3>4. QED
      BY <3>2, <3>3
  <2>2. CASE a.tool = "refund_payment" /\ a.key = key /\ a.row = Len(refunds')
    BY <1>6, <2>2 DEF Table, Tools
  <2>3. QED
    BY <1>8, <2>1, <2>2
<1>11. Targets'
  BY <1>1, <1>3, <1>5, <1>7 DEF RowsInv, Targets
<1>12. RivalsMeet'
  BY <1>1, <1>8 DEF RowsInv, RivalsMeet
<1>13. LateIsARival'
  <2> SUFFICES ASSUME NEW d \in Requests, Refunding(d)', job'[d].of.target \in refunded'
               PROVE  job'[d].of.target \in rivals
                      \/ Effects!RowsWith(refunds', job'[d].of.key) # {}
    BY <1>1 DEF LateIsARival, Effects!RowsWith
  <2>1. d # c /\ Refunding(d) /\ job'[d] = job[d]
    BY <1>8
  <2>2. CASE job[d].of.key = key
    BY <1>6, <2>1, <2>2
  <2>3. CASE job[d].of.key # key /\ job[d].of.target = target
    BY <1>1, <2>1, <2>3 DEF RowsInv, RivalsMeet, key, target
  <2>4. CASE job[d].of.key # key /\ job[d].of.target # target
    BY <1>1, <1>6, <2>1, <2>4 DEF RowsInv, LateIsARival
  <2>5. QED
    BY <2>2, <2>3, <2>4
<1>14. Effects!DoubleRefundNeedsARace'
  <2>1. target \in refunded => target \in rivals
    BY <1>1, <1>6 DEF RowsInv, LateIsARival, key, target
  <2>2. \A i \in DOMAIN refunds : refunds[i].target \in refunded
    BY DEF RowsInv, Targets
  <2>3. QED
    BY <1>1, <1>3, <1>5, <1>7, <2>1, <2>2 DEF RowsInv, Effects!DoubleRefundNeedsARace
<1>15. QED
  BY <1>9, <1>10, <1>11, <1>12, <1>13, <1>14 DEF RowsInv

\* A deployment is the first row of its key, if it has one.
LEMMA CommitDeploymentPreserves ==
  ASSUME RowsInv, NEW c \in Requests, Effects!CommitDeployment(c)
  PROVE  RowsInv'
<1> DEFINE key == job[c].of.key
           e == [key |-> key, target |-> job[c].of.target]
<1>1. /\ Typed /\ OneRow(deployments) /\ Told /\ Effects!Working(c)
      /\ job[c].of.tool = "deploy" /\ ~Effects!Taken(deployments, key)
      /\ deployments' = Append(deployments, e)
      /\ Effects!Report(c, Len(deployments')) /\ UNCHANGED <<refunds, refunded, rivals>>
  BY DEF RowsInv, Effects!CommitDeployment, Effects!At, Effects!Working
<1>2. deployments \in Seq(Deployments) /\ key \in Keys \cup {NoKey} /\ e \in Deployments
  BY <1>1, Carried DEF Typed, Deployments
<1>3. deployments' \in Seq(Deployments) /\ Len(deployments') = Len(deployments) + 1
  BY <1>1, <1>2, Appended
<1>4. e.key = key
  OBVIOUS
<1> HIDE DEF e, key
<1>5. /\ OneRow(deployments')
      /\ \A k : k # key => Effects!RowsWith(deployments', k) = Effects!RowsWith(deployments, k)
      /\ key # NoKey => Effects!RowsWith(deployments', key) = {Len(deployments')}
      /\ Effects!RowsWith(deployments, key) = {}
  <2>1. ~Effects!Taken(deployments, e.key)
    BY <1>1, <1>4
  <2>2. /\ OneRow(Append(deployments, e))
        /\ \A k : k # e.key =>
              Effects!RowsWith(Append(deployments, e), k) = Effects!RowsWith(deployments, k)
        /\ e.key # NoKey =>
              Effects!RowsWith(Append(deployments, e), e.key) = {Len(deployments) + 1}
    BY <1>1, <1>2, <2>1, StillOneRow
  <2>3. deployments' = Append(deployments, e) /\ Effects!RowsWith(deployments, key) = {}
    BY <1>1 DEF Effects!Taken
  <2>4. QED
    BY <1>3, <1>4, <2>2, <2>3
<1>6. /\ job' \in [Requests -> JobStates]
      /\ \A d \in Requests : Refunding(d)' => d # c /\ Refunding(d) /\ job'[d] = job[d]
      /\ \A a \in answers' : a \in answers \/
            (a.tool = "deploy" /\ a.key = key /\ key \in Keys /\ a.row = Len(deployments'))
  BY <1>1, AfterReport DEF key
<1>7. Typed' /\ Targets' /\ OneRow(refunds)' /\ OneRow(deployments)'
  BY <1>1, <1>3, <1>5, <1>6 DEF RowsInv, Typed, Targets, OneRow, JobStates
<1>8. Told'
  <2> SUFFICES ASSUME NEW a \in answers'
               PROVE  a.tool \in Tools /\ a.row \in Effects!RowsWith(Table(a.tool)', a.key)
    BY DEF Told, Table, Effects!RowsWith
  <2>1. CASE a \in answers
    <3>1. a.tool \in Tools /\ a.row \in Effects!RowsWith(Table(a.tool), a.key)
      BY <1>1, <2>1 DEF Told
    <3>2. CASE a.tool = "refund_payment"
      BY <1>1, <3>1, <3>2 DEF Table
    <3>3. CASE a.tool # "refund_payment"
      BY <1>5, <3>1, <3>3 DEF Table
    <3>4. QED
      BY <3>2, <3>3
  <2>2. CASE a.tool = "deploy" /\ a.key = key /\ key \in Keys /\ a.row = Len(deployments')
    BY <1>5, <2>2, ServiceAssumption DEF Table, Tools
  <2>3. QED
    BY <1>6, <2>1, <2>2
<1>9. RivalsMeet' /\ LateIsARival'
  BY <1>1, <1>6 DEF RowsInv, RivalsMeet, LateIsARival, Effects!RowsWith
<1>10. Effects!DoubleRefundNeedsARace'
  BY <1>1 DEF RowsInv, Effects!DoubleRefundNeedsARace
<1>11. QED
  BY <1>7, <1>8, <1>9, <1>10 DEF RowsInv

-----------------------------------------------------------------------------
(* The theorems                                                              *)

\* Every statement of a tool.
LEMMA RunPreserves ==
  ASSUME RowsInv, NEW c \in Requests, Effects!Run(c)
  PROVE  RowsInv'
<1>1. refunds = Table("refund_payment") /\ deployments = Table("deploy")
  BY DEF Table
<1>2. CASE Effects!FindRefund(c) \/ Effects!FindDeployment(c)
  BY <1>2, FindPreserves
<1>3. CASE Effects!CheckPayment(c)
  BY <1>3, CheckPreserves
<1>4. CASE Effects!CommitRefund(c)
  BY <1>4, CommitRefundPreserves
<1>5. CASE Effects!CommitDeployment(c)
  BY <1>5, CommitDeploymentPreserves
<1>6. CASE Effects!Collide(c, "refund_payment", refunds) \/ Effects!Collide(c, "deploy", deployments)
  BY <1>1, <1>6, CollidePreserves DEF Tools
<1>7. CASE Effects!Reload(c, "refund_payment", refunds) \/ Effects!Reload(c, "deploy", deployments)
  BY <1>1, <1>7, ReloadPreserves DEF Tools
<1>8. QED
  BY <1>2, <1>3, <1>4, <1>5, <1>6, <1>7 DEF Effects!Run

\* The invariant holds of empty tables.
LEMMA RowsInitially == ServiceInit => RowsInv
<1> SUFFICES ASSUME ServiceInit PROVE RowsInv
  OBVIOUS
<1>1. /\ refunds = <<>> /\ deployments = <<>> /\ refunded = {} /\ answers = {} /\ rivals = {}
      /\ job = [c \in Requests |-> Effects!Done]
  BY DEF ServiceInit, Effects!EffectsInit
<1>2. DOMAIN refunds = {} /\ DOMAIN deployments = {}
  BY <1>1
<1>3. \A c \in Requests : ~Refunding(c)
  BY <1>1 DEF Refunding, Effects!At, Effects!Done
<1>4. Typed
  BY <1>1 DEF Typed
<1>5. QED
  BY <1>1, <1>2, <1>3, <1>4 DEF RowsInv, OneRow, Told, Targets, RivalsMeet, LateIsARival,
        Effects!DoubleRefundNeedsARace

\* Every step of the service preserves the invariant.
LEMMA RowsStep ==
  ASSUME PlanIsKnown, RowsInv, [ServiceNext]_serviceVars
  PROVE  RowsInv'
<1>1. CASE UNCHANGED effectVars
  BY <1>1 DEF effectVars, RowsInv, Typed, OneRow, Told, Table, Targets, RivalsMeet, LateIsARival,
        Refunding, Effects!At, Effects!RowsWith, Effects!DoubleRefundNeedsARace
<1>2. ASSUME NEW c \in Requests, CallSteps(c)
      PROVE  RowsInv'
  BY <1>2, StartPreserves, RunPreserves, DiePreserves DEF CallSteps
<1>3. QED
  BY <1>1, <1>2, StepsAreCalls

\* At all times a key has one row, an answer tells of a row of its key, and calls
\* about to refund one payment are rivals (refund_payment, _deploy).
THEOREM RowsAreKept == ServiceSpec => [](PlanIsKnown /\ RowsInv)
<1>1. ServiceInit => PlanIsKnown /\ RowsInv
  BY PlanInductive, RowsInitially
<1>2. PlanIsKnown /\ RowsInv /\ [ServiceNext]_serviceVars => PlanIsKnown' /\ RowsInv'
  BY PlanInductive, RowsStep
<1>3. QED
  BY <1>1, <1>2, PTL DEF ServiceSpec

\* What an execution decided on is done once, for any number of overlapping
\* calls, in any order and with any of them dying.
THEOREM PlannedIsDoneOnce == ServiceSpec => []PlannedOnce
<1>1. RowsInv => PlannedOnce
  BY ServiceAssumption DEF RowsInv, OneRow, PlannedOnce
<1>2. QED
  BY <1>1, RowsAreKept, PTL

\* Whoever calls a tool with a key is told of the same row.
THEOREM OneAnswerPerKey == ServiceSpec => []AnswersAgree
<1>1. RowsInv => AnswersAgree
  BY DEF RowsInv, OneRow, Told, Table, Effects!RowsWith, AnswersAgree, Effects!AnswersAgree
<1>2. QED
  BY <1>1, RowsAreKept, PTL

\* A payment is refunded twice only after two calls found it open at once.
THEOREM DoubleRefundIsARace == ServiceSpec => []DoubleRefundNeedsARace
<1>1. RowsInv => DoubleRefundNeedsARace
  BY DEF RowsInv, DoubleRefundNeedsARace
<1>2. QED
  BY <1>1, RowsAreKept, PTL

-----------------------------------------------------------------------------
(* Each table implements OncePerKey                                          *)

\* A new row takes its key, which had none.
LEMMA RowTakesKey ==
  ASSUME NEW S, NEW table \in Seq(S), NEW e \in S, OneRow(table), e.key # NoKey,
         ~Effects!Taken(table, e.key)
  PROVE  /\ Effects!Times(table, e.key) = 0
         /\ Effects!Times(Append(table, e), e.key) = 1
         /\ \A k : k # e.key => Effects!Times(Append(table, e), k) = Effects!Times(table, k)
<1>1. /\ \A k : k # e.key =>
            Effects!RowsWith(Append(table, e), k) = Effects!RowsWith(table, k)
      /\ Effects!RowsWith(Append(table, e), e.key) = {Len(table) + 1}
  BY StillOneRow
<1>2. Effects!RowsWith(table, e.key) = {}
  BY DEF Effects!Taken
<1>3. Len(table) + 1 \in DOMAIN Append(table, e)
  BY Appended
<1>4. Effects!Times(table, e.key) = 0 /\ Effects!Times(Append(table, e), e.key) = 1
  BY <1>1, <1>2, <1>3 DEF Effects!Times
<1>5. ASSUME NEW k, k # e.key
      PROVE  Effects!Times(Append(table, e), k) = Effects!Times(table, k)
  <2>1. Effects!RowsWith(Append(table, e), k) = Effects!RowsWith(table, k)
    BY <1>1, <1>5
  <2>2. \A i : Effects!RowsWith(table, k) = {i} => i \in DOMAIN table
    BY DEF Effects!RowsWith
  <2>3. DOMAIN table \subseteq DOMAIN Append(table, e)
    BY Appended
  <2>4. QED
    BY <2>1, <2>2, <2>3 DEF Effects!Times
<1>6. QED
  BY <1>4, <1>5

RefundTimes == [k \in Keys |-> Effects!Times(refunds, k)]
DeploymentTimes == [k \in Keys |-> Effects!Times(deployments, k)]

\* What a step does to the refunds is a step of OncePerKey.
LEMMA RefundTimesStep ==
  ASSUME PlanIsKnown, RowsInv, [ServiceNext]_serviceVars
  PROVE  UNCHANGED RefundTimes \/ \E k \in Keys :
            RefundTimes[k] = 0 /\ RefundTimes' = [RefundTimes EXCEPT ![k] = 1]
<1>1. CASE refunds' = refunds
  BY <1>1 DEF RefundTimes, Effects!Times, Effects!RowsWith
<1>2. ASSUME NEW c \in Requests, Effects!CommitRefund(c)
      PROVE  \E k \in Keys :
                RefundTimes[k] = 0 /\ RefundTimes' = [RefundTimes EXCEPT ![k] = 1]
  <2> DEFINE e == [key |-> job[c].of.key, target |-> job[c].of.target]
  <2>1. /\ refunds' = Append(refunds, e) /\ ~Effects!Taken(refunds, e.key)
        /\ Effects!Working(c) /\ job[c].of.tool = "refund_payment"
    BY <1>2 DEF Effects!CommitRefund, Effects!At, Effects!Working
  <2>2. refunds \in Seq(Refunds) /\ OneRow(refunds) /\ e \in Refunds /\ e.key \in Keys
    BY <2>1, Carried DEF RowsInv, Typed, Refunds
  <2> HIDE DEF e
  <2>3. /\ Effects!Times(refunds, e.key) = 0
        /\ Effects!Times(Append(refunds, e), e.key) = 1
        /\ \A k : k # e.key => Effects!Times(Append(refunds, e), k) = Effects!Times(refunds, k)
    BY <2>1, <2>2, RowTakesKey, ServiceAssumption
  <2>4. RefundTimes' = [k \in Keys |-> Effects!Times(Append(refunds, e), k)]
    BY <2>1 DEF RefundTimes, Effects!Times, Effects!RowsWith
  <2>5. RefundTimes[e.key] = 0 /\ RefundTimes' = [RefundTimes EXCEPT ![e.key] = 1]
    BY <2>2, <2>3, <2>4 DEF RefundTimes
  <2>6. QED
    BY <2>2, <2>5
<1>3. refunds' = refunds \/ \E c \in Requests : Effects!CommitRefund(c)
  BY StepsAreCalls DEF effectVars, CallSteps, Effects!Start, Effects!Die, Effects!Run,
        Effects!FindRefund, Effects!FindDeployment, Effects!Find, Effects!CheckPayment,
        Effects!CommitDeployment, Effects!Collide, Effects!Reload
<1>4. QED
  BY <1>1, <1>2, <1>3

\* What a step does to the deployments is one as well.
LEMMA DeploymentTimesStep ==
  ASSUME PlanIsKnown, RowsInv, [ServiceNext]_serviceVars
  PROVE  UNCHANGED DeploymentTimes \/ \E k \in Keys :
            DeploymentTimes[k] = 0 /\ DeploymentTimes' = [DeploymentTimes EXCEPT ![k] = 1]
<1>1. CASE deployments' = deployments
  BY <1>1 DEF DeploymentTimes, Effects!Times, Effects!RowsWith
<1>2. ASSUME NEW c \in Requests, Effects!CommitDeployment(c)
      PROVE  UNCHANGED DeploymentTimes \/ \E k \in Keys :
                DeploymentTimes[k] = 0 /\ DeploymentTimes' = [DeploymentTimes EXCEPT ![k] = 1]
  <2> DEFINE e == [key |-> job[c].of.key, target |-> job[c].of.target]
  <2>1. /\ deployments' = Append(deployments, e) /\ ~Effects!Taken(deployments, e.key)
        /\ Effects!Working(c) /\ job[c].of.tool = "deploy"
    BY <1>2 DEF Effects!CommitDeployment, Effects!At, Effects!Working
  <2>2. /\ deployments \in Seq(Deployments) /\ OneRow(deployments)
        /\ e \in Deployments /\ e.key \in Keys \cup {NoKey}
    BY <2>1, Carried DEF RowsInv, Typed, Deployments
  <2> HIDE DEF e
  <2>3. DeploymentTimes' = [k \in Keys |-> Effects!Times(Append(deployments, e), k)]
    BY <2>1 DEF DeploymentTimes, Effects!Times, Effects!RowsWith
  <2>4. CASE e.key # NoKey
    <3>1. /\ Effects!Times(deployments, e.key) = 0
          /\ Effects!Times(Append(deployments, e), e.key) = 1
          /\ \A k : k # e.key =>
                Effects!Times(Append(deployments, e), k) = Effects!Times(deployments, k)
      BY <2>1, <2>2, <2>4, RowTakesKey
    <3>2. e.key \in Keys
      BY <2>2, <2>4
    <3>3. DeploymentTimes[e.key] = 0
          /\ DeploymentTimes' = [DeploymentTimes EXCEPT ![e.key] = 1]
      BY <2>3, <3>1, <3>2 DEF DeploymentTimes
    <3>4. QED
      BY <3>2, <3>3
  <2>5. CASE e.key = NoKey
    <3>1. ASSUME NEW k \in Keys
          PROVE  Effects!Times(Append(deployments, e), k) = Effects!Times(deployments, k)
      <4>1. k # NoKey
        BY ServiceAssumption
      <4>2. Effects!RowsWith(Append(deployments, e), k) = Effects!RowsWith(deployments, k)
        BY <2>1, <2>2, <2>5, <4>1, StillOneRow
      <4>3. \A i : Effects!RowsWith(deployments, k) = {i} => i \in DOMAIN deployments
        BY DEF Effects!RowsWith
      <4>4. DOMAIN deployments \subseteq DOMAIN Append(deployments, e)
        BY <2>2, Appended
      <4>5. QED
        BY <4>2, <4>3, <4>4 DEF Effects!Times
    <3>2. QED
      BY <2>3, <3>1 DEF DeploymentTimes
  <2>6. QED
    BY <2>4, <2>5
<1>3. deployments' = deployments \/ \E c \in Requests : Effects!CommitDeployment(c)
  BY StepsAreCalls DEF effectVars, CallSteps, Effects!Start, Effects!Die, Effects!Run,
        Effects!FindRefund, Effects!FindDeployment, Effects!Find, Effects!CheckPayment,
        Effects!CommitRefund, Effects!Collide, Effects!Reload
<1>4. QED
  BY <1>1, <1>2, <1>3

\* To begin with nothing was done under any key.
LEMMA NoTimesInitially ==
  ASSUME ServiceInit
  PROVE  /\ RefundTimes = [k \in Keys |-> 0]
         /\ DeploymentTimes = [k \in Keys |-> 0]
<1>1. refunds = <<>> /\ deployments = <<>>
  BY DEF ServiceInit, Effects!EffectsInit
<1>2. \A k : Effects!RowsWith(refunds, k) = {} /\ Effects!RowsWith(deployments, k) = {}
  BY <1>1 DEF Effects!RowsWith
<1>3. QED
  BY <1>2 DEF RefundTimes, DeploymentTimes, Effects!Times

\* Under a key one refund is made: refunds implement OncePerKey.
THEOREM RefundsAreOncePerKey == ServiceSpec => RefundsKeepTheirKeys
<1>1. ServiceInit => Effects!RefundKeys!KeyInit
  BY NoTimesInitially DEF RefundTimes, Effects!RefundKeys!KeyInit
<1>2. PlanIsKnown /\ RowsInv /\ [ServiceNext]_serviceVars
        => [\E k \in Keys : Effects!RefundKeys!Take(k)]_RefundTimes
  BY RefundTimesStep DEF RefundTimes, Effects!RefundKeys!Take
<1>3. QED
  BY <1>1, <1>2, RowsAreKept, PTL
     DEF ServiceSpec, RefundsKeepTheirKeys, Effects!RefundKeys!KeySpec, RefundTimes

\* Under a key one deployment is made: deployments implement OncePerKey.
THEOREM DeploymentsAreOncePerKey == ServiceSpec => DeploymentsKeepTheirKeys
<1>1. ServiceInit => Effects!DeploymentKeys!KeyInit
  BY NoTimesInitially DEF DeploymentTimes, Effects!DeploymentKeys!KeyInit
<1>2. PlanIsKnown /\ RowsInv /\ [ServiceNext]_serviceVars
        => [\E k \in Keys : Effects!DeploymentKeys!Take(k)]_DeploymentTimes
  BY DeploymentTimesStep DEF DeploymentTimes, Effects!DeploymentKeys!Take
<1>3. QED
  BY <1>1, <1>2, RowsAreKept, PTL
     DEF ServiceSpec, DeploymentsKeepTheirKeys, Effects!DeploymentKeys!KeySpec, DeploymentTimes

\* What is done under a key is done once, in both tables.
THEOREM EffectsAreOncePerKey == ServiceSpec => EffectsKeepTheirKeys
  BY RefundsAreOncePerKey, DeploymentsAreOncePerKey DEF EffectsKeepTheirKeys

-----------------------------------------------------------------------------
(* The accounts.  Of a worker past its look at the bootstrap row, the        *)
(* invariant says that its commit makes an administrator or that one is      *)
(* there, unless it is outdated; a token that is issued beneath a worker     *)
(* is issued by another whose commit made an administrator or that found     *)
(* one; and no start-up goes on from before the last administrator was gone  *)
(* while one that began later is not outdated.                               *)

\* Whatever happens to the accounts is one of these, or leaves them alone.
AccountStep ==
    \/ \E w \in Workers : BootWorker(w) \/ StartUp(w) \/ StopWorker(w)
    \/ BeginChapter \/ CommitChapter \/ Killed \/ Rerun
    \/ \E u \in Usernames : Deactivate(u) \/ Revoke(u) \/ DropToken(u)
    \/ events' \in 0 .. MaxEvents /\ UNCHANGED accountRest

Overlap == \A v \in outdated, w \in Workers :
    Underway(v) /\ boot[w] # "down" => w \in outdated

RowIsThere == \A w \in Workers :
    boot[w] \in {"checking", "issuing"} => writer = w \/ Exists(Bootstrap)

SeedsItsOwn ==
    /\ Bootstrap \notin seeder.missing
    /\ seeder.at = "writing" => \A u \in seeder.missing \cap Usernames : token[u] = "none"

MachinesOnlyView == \A m \in Machines : operator[m].role \in {"none", "VIEWER"}

LeavesAdmin(w) ==
    /\ boot[w] = "inserting" => ~Exists(Bootstrap) \/ SomeAdmin
    /\ boot[w] \in {"checking", "issuing"} => HasToCommit(w) \/ SomeAdmin
    /\ boot[w] = "issuing" /\ token[Bootstrap] # "none" => SomeAdmin
    /\ boot[w] = "up" => SomeAdmin

AccountsInv ==
    /\ AccountsTypeOK /\ Overlap /\ RowIsThere /\ SeedsItsOwn /\ MachinesOnlyView
    /\ \A w \in Workers \ outdated : LeavesAdmin(w)

\* The types of the variables one by one.
LEMMA AccountTypes ==
  ASSUME AccountsTypeOK
  PROVE  /\ operator \in [Usernames -> {Missing} \cup [role : Roles, active : BOOLEAN]]
         /\ token \in [Usernames -> {"none", "live", "revoked"}]
         /\ boot \in [Workers -> {"down", "looking", "finding", "inserting",
                                  "checking", "issuing", "up"}]
         /\ outdated \subseteq Workers /\ Bootstrap \in Usernames
  BY DEF AccountsTypeOK, Usernames

\* Every step of the service is one of the accounts or leaves them alone.
LEMMA StepsOfAccounts ==
  ASSUME AccountsInv, [ServiceNext]_serviceVars
  PROVE  AccountStep
<1>1. events \in 0 .. MaxEvents /\ MaxEvents \in Nat
  BY AccountsAssumption DEF AccountsInv, AccountsTypeOK
<1>2. CASE UNCHANGED accountVars
  BY <1>1, <1>2 DEF AccountStep, accountVars, accountRest
<1>3. CASE Administer
  BY <1>3 DEF Administer, AccountStep
<1>4. CASE \E u \in Usernames : Pardon(u)
  BY <1>4 DEF Pardon, AccountStep
<1>5. ASSUME NEW r \in Requests, Perish(r)
      PROVE  AccountStep
  BY <1>1, <1>5 DEF Perish, Event, AccountStep
<1>6. ASSUME NEW r \in Requests, Serve(r)
      PROVE  AccountStep
  BY <1>2, <1>5, <1>6 DEF Serve, ReadToken, Create, Begin, RunPlanned, Read, Show, Decline, ToolStep,
        SubmitAction, Arrive
<1>7. QED
  BY <1>2, <1>3, <1>4, <1>6 DEF ServiceNext, serviceVars

\* An administrator who stays one.
LEMMA AdminStays ==
  ASSUME SomeAdmin, \A u \in Usernames : IsAdmin(u) => operator'[u] = operator[u]
  PROVE  SomeAdmin'
  BY DEF SomeAdmin, IsAdmin, Row, Usernames

\* A worker that goes on in its start-up without a write, and is as outdated as before.
LEMMA QuietStart ==
  ASSUME AccountsInv, NEW w \in Workers, NEW to,
         to \in {"finding", "inserting", "checking", "issuing", "up"},
         boot[w] \notin {"down", "up"}, boot' = [boot EXCEPT ![w] = to],
         UNCHANGED <<operator, token, writer, outdated, seeder, seeded>>, NoEvent,
         promoters' \subseteq Workers,
         \A v \in Workers \ {w} : v \in promoters' <=> v \in promoters,
         HasToCommit(w)' => to \in {"checking", "issuing"},
         to \in {"checking", "issuing"} => writer = w \/ Exists(Bootstrap),
         w \notin outdated => LeavesAdmin(w)'
  PROVE  AccountsInv'
<1>1. AccountsTypeOK'
  BY DEF AccountsInv, AccountsTypeOK, HasToCommit, NoEvent, Exists
<1>2. boot \in [Workers -> {"down", "looking", "finding", "inserting",
                            "checking", "issuing", "up"}]
  BY AccountTypes DEF AccountsInv
<1>3. boot'[w] = to /\ \A v \in Workers \ {w} : boot'[v] = boot[v]
  BY <1>2
<1>4. Overlap'
  BY <1>3, AccountTypes DEF AccountsInv, Overlap, Underway
<1>5. RowIsThere' /\ SeedsItsOwn' /\ MachinesOnlyView'
  BY <1>3 DEF AccountsInv, RowIsThere, SeedsItsOwn, MachinesOnlyView, Exists
<1>6. \A v \in Workers \ outdated' : LeavesAdmin(v)'
  BY <1>3 DEF AccountsInv, LeavesAdmin, HasToCommit, SomeAdmin, IsAdmin, Exists
<1>7. QED
  BY <1>1, <1>4, <1>5, <1>6 DEF AccountsInv

\* A worker's first look.
LEMMA BootWorkerPreserves ==
  ASSUME AccountsInv, NEW w \in Workers, BootWorker(w)
  PROVE  AccountsInv'
<1>1. /\ boot \in [Workers -> {"down", "looking", "finding", "inserting",
                               "checking", "issuing", "up"}]
      /\ outdated \subseteq Workers
      /\ boot[w] = "down" /\ boot' = [boot EXCEPT ![w] = "looking"]
      /\ UNCHANGED <<operator, token, writer, promoters, seeder, seeded, events>>
      /\ outdated' = IF \E v \in outdated : Underway(v) THEN outdated \cup {w} ELSE outdated \ {w}
  BY AccountTypes DEF AccountsInv, BootWorker, Booting, bootRest, NoEvent
<1>2. boot'[w] = "looking" /\ \A v \in Workers \ {w} : boot'[v] = boot[v]
  BY <1>1
<1>3. AccountsTypeOK'
  BY <1>1, <1>2 DEF AccountsInv, AccountsTypeOK, HasToCommit, Exists
<1>4. Overlap'
  BY <1>1, <1>2 DEF AccountsInv, Overlap, Underway
<1>5. RowIsThere' /\ SeedsItsOwn' /\ MachinesOnlyView'
  BY <1>1, <1>2 DEF AccountsInv, RowIsThere, SeedsItsOwn, MachinesOnlyView, Exists
<1>6. \A v \in Workers \ outdated' : LeavesAdmin(v)'
  BY <1>1, <1>2 DEF AccountsInv, LeavesAdmin, HasToCommit, SomeAdmin, IsAdmin, Exists
<1>7. QED
  BY <1>3, <1>4, <1>5, <1>6 DEF AccountsInv

\* The look for an administrator and the one for the bootstrap row.
LEMMA LooksPreserve ==
  ASSUME AccountsInv, NEW w \in Workers, LookForAdmin(w) \/ FindByName(w)
  PROVE  AccountsInv'
<1>1. /\ boot \in [Workers -> {"down", "looking", "finding", "inserting",
                               "checking", "issuing", "up"}]
      /\ ~HasToCommit(w) /\ boot[w] \in {"looking", "finding"}
      /\ promoters \subseteq Workers
      /\ UNCHANGED <<operator, token, writer, outdated, seeder, seeded>> /\ NoEvent
  BY AccountTypes DEF AccountsInv, AccountsTypeOK, LookForAdmin, FindByName, Booting, bootRest
<1>2. ASSUME NEW to \in {"finding", "inserting", "checking", "up"},
             boot' = [boot EXCEPT ![w] = to],
             promoters' = promoters \/ (promoters' = promoters \cup {w} /\ to = "checking"),
             to = "inserting" => ~Exists(Bootstrap),
             to = "checking" => Exists(Bootstrap) /\ (w \in promoters' \/ SomeAdmin),
             to = "up" => SomeAdmin
      PROVE  AccountsInv'
  <2>1. boot'[w] = to
    BY <1>1, <1>2
  <2>2. LeavesAdmin(w)'
    BY <1>1, <1>2, <2>1 DEF LeavesAdmin, HasToCommit, SomeAdmin, IsAdmin, Exists
  <2>3. /\ promoters' \subseteq Workers
        /\ \A v \in Workers \ {w} : v \in promoters' <=> v \in promoters
        /\ HasToCommit(w)' => to \in {"checking", "issuing"}
    BY <1>1, <1>2 DEF HasToCommit
  <2>4. QED
    BY <1>1, <1>2, <2>2, <2>3, QuietStart
<1>3. CASE LookForAdmin(w)
  <2>1. CASE SomeAdmin
    BY <1>2, <1>3, <2>1 DEF LookForAdmin, Booting
  <2>2. CASE ~SomeAdmin
    BY <1>2, <1>3, <2>2 DEF LookForAdmin, Booting
  <2>3. QED
    BY <2>1, <2>2
<1>4. CASE FindByName(w)
  <2>1. IsAdmin(Bootstrap) => SomeAdmin
    BY DEF SomeAdmin, Usernames
  <2>2. CASE ~Exists(Bootstrap)
    BY <1>2, <1>4, <2>2 DEF FindByName, Booting
  <2>3. CASE Exists(Bootstrap) /\ ~IsAdmin(Bootstrap)
    BY <1>2, <1>4, <2>3 DEF FindByName, Booting
  <2>4. CASE Exists(Bootstrap) /\ IsAdmin(Bootstrap)
    BY <1>2, <1>4, <2>1, <2>4 DEF FindByName, Booting
  <2>5. QED
    BY <2>2, <2>3, <2>4
<1>5. QED
  BY <1>3, <1>4

\* The row is inserted, or read where another worker has inserted it.
LEMMA FlushPreserves ==
  ASSUME AccountsInv, NEW w \in Workers, FlushOperator(w)
  PROVE  AccountsInv'
<1>1. /\ boot \in [Workers -> {"down", "looking", "finding", "inserting",
                               "checking", "issuing", "up"}]
      /\ writer = Nobody /\ boot[w] = "inserting"
      /\ boot' = [boot EXCEPT ![w] = "checking"]
      /\ UNCHANGED <<operator, token, promoters, outdated, seeder, seeded, events>>
      /\ \/ writer' = w
         \/ writer' = writer /\ Exists(Bootstrap)
      /\ Nobody \notin Workers
  BY AccountTypes, AccountsAssumption
     DEF AccountsInv, FlushOperator, Booting, bootRest, NoEvent
<1>2. boot'[w] = "checking" /\ \A v \in Workers \ {w} : boot'[v] = boot[v]
  BY <1>1
<1>3. AccountsTypeOK'
  BY <1>1, <1>2 DEF AccountsInv, AccountsTypeOK, HasToCommit, Exists
<1>4. Overlap'
  BY <1>1, <1>2 DEF AccountsInv, Overlap, Underway, AccountsTypeOK
<1>5. RowIsThere' /\ SeedsItsOwn' /\ MachinesOnlyView'
  BY <1>1, <1>2 DEF AccountsInv, RowIsThere, SeedsItsOwn, MachinesOnlyView, Exists
<1>6. \A v \in Workers \ outdated' : LeavesAdmin(v)'
  BY <1>1, <1>2 DEF AccountsInv, LeavesAdmin, HasToCommit, SomeAdmin, IsAdmin, Exists
<1>7. QED
  BY <1>3, <1>4, <1>5, <1>6 DEF AccountsInv

\* What a commit leaves: administrators stay, and whoever has written is one.
LEMMA AfterCommit ==
  ASSUME AccountsInv, NEW w \in Workers, Commit(w)
  PROVE  /\ operator' \in [Usernames -> {Missing} \cup [role : Roles, active : BOOLEAN]]
         /\ \A u \in Usernames : Exists(u) => Exists(u)'
         /\ \A u \in Usernames \ {Bootstrap} : operator'[u] = operator[u]
         /\ SomeAdmin => SomeAdmin'
         /\ HasToCommit(w) => IsAdmin(Bootstrap)' /\ SomeAdmin' /\ Exists(Bootstrap)'
         /\ ~HasToCommit(w) => operator' = operator
         /\ writer' = (IF writer = w THEN Nobody ELSE writer) /\ promoters' = promoters \ {w}
<1>1. /\ operator \in [Usernames -> {Missing} \cup [role : Roles, active : BOOLEAN]]
      /\ Bootstrap \in Usernames
  BY AccountTypes DEF AccountsInv
<1>2. Row("ADMIN") \in [role : Roles, active : BOOLEAN] /\ Row("ADMIN") # Missing
  BY DEF Row, Roles, Missing
<1>3. CASE HasToCommit(w)
  <2>1. operator' = [operator EXCEPT ![Bootstrap] = Row("ADMIN")]
    BY <1>3 DEF Commit
  <2>2. operator'[Bootstrap] = Row("ADMIN")
        /\ \A u \in Usernames \ {Bootstrap} : operator'[u] = operator[u]
    BY <1>1, <2>1
  <2>3. IsAdmin(Bootstrap)' /\ SomeAdmin' /\ Exists(Bootstrap)'
    BY <1>1, <1>2, <2>2 DEF IsAdmin, SomeAdmin, Exists, Usernames, Row, Missing
  <2>4. QED
    BY <1>1, <1>2, <1>3, <2>1, <2>2, <2>3 DEF Commit, Exists
<1>4. CASE ~HasToCommit(w)
  BY <1>1, <1>4 DEF Commit, Exists, SomeAdmin, IsAdmin, Usernames
<1>5. QED
  BY <1>3, <1>4

\* A worker that commits and is up, with its token or another's.
LEMMA CommitPreserves ==
  ASSUME AccountsInv, NEW w \in Workers, boot[w] \in {"checking", "issuing"},
         boot' = [boot EXCEPT ![w] = "up"], Commit(w),
         UNCHANGED <<outdated, seeder, seeded, events>>,
         \/ token' = token
         \/ token' = [token EXCEPT ![Bootstrap] = "live"] /\ token[Bootstrap] = "none"
  PROVE  AccountsInv'
<1>1. /\ boot \in [Workers -> {"down", "looking", "finding", "inserting",
                               "checking", "issuing", "up"}]
      /\ token \in [Usernames -> {"none", "live", "revoked"}]
      /\ outdated \subseteq Workers /\ Bootstrap \in Usernames /\ Nobody \notin Workers
  BY AccountTypes, AccountsAssumption DEF AccountsInv
<1>2. boot'[w] = "up" /\ \A v \in Workers \ {w} : boot'[v] = boot[v]
  BY <1>1
<1>3. \A u \in Usernames : token'[u] # token[u] => u = Bootstrap /\ token[u] = "none"
  BY <1>1
<1>4. Exists(Bootstrap)'
  BY <1>1, AfterCommit DEF AccountsInv, RowIsThere, HasToCommit
<1>5. /\ writer' \in Workers \cup {Nobody} /\ promoters' \subseteq Workers
      /\ \A v \in Workers : HasToCommit(v)' <=> HasToCommit(v) /\ v # w
      /\ \A v \in Workers : writer' = v <=> writer = v /\ v # w
  BY <1>1, AfterCommit DEF AccountsInv, AccountsTypeOK, HasToCommit
<1>6. AccountsTypeOK'
  <2>1. /\ operator' \in [Usernames -> {Missing} \cup [role : Roles, active : BOOLEAN]]
        /\ boot' \in [Workers -> {"down", "looking", "finding", "inserting",
                                  "checking", "issuing", "up"}]
        /\ token' \in [Usernames -> {"none", "live", "revoked"}]
    BY <1>1, AfterCommit
  <2>2. \A u \in Usernames : token'[u] # "none" => Exists(u)'
    BY <1>3, <1>4, AfterCommit DEF AccountsInv, AccountsTypeOK
  <2>3. \A v \in Workers : HasToCommit(v)' => boot'[v] \in {"checking", "issuing"}
    BY <1>2, <1>5 DEF AccountsInv, AccountsTypeOK
  <2>4. QED
    BY <1>5, <2>1, <2>2, <2>3 DEF AccountsInv, AccountsTypeOK
<1>7. Overlap'
  BY <1>1, <1>2 DEF AccountsInv, Overlap, Underway
<1>8. RowIsThere'
  BY <1>4 DEF RowIsThere
<1>9. SeedsItsOwn'
  BY <1>3 DEF AccountsInv, SeedsItsOwn
<1>10. MachinesOnlyView'
  <2>1. \A m \in Machines : operator'[m] = operator[m]
    BY AfterCommit, AccountsAssumption DEF Usernames
  <2>2. QED
    BY <2>1 DEF AccountsInv, MachinesOnlyView
<1>11. ASSUME NEW v \in Workers \ outdated'
       PROVE  LeavesAdmin(v)'
  <2>1. LeavesAdmin(v)
    BY <1>11 DEF AccountsInv
  <2>2. CASE v = w
    BY <1>2, <2>1, <2>2, AfterCommit DEF LeavesAdmin
  <2>3. CASE v # w /\ HasToCommit(w)
    BY <2>3, AfterCommit DEF LeavesAdmin
  <2>4. CASE v # w /\ ~HasToCommit(w)
    <3>1. /\ boot'[v] = boot[v] /\ operator' = operator
          /\ HasToCommit(v)' <=> HasToCommit(v)
          /\ SomeAdmin => SomeAdmin'
      BY <1>2, <1>5, <2>4, AfterCommit
    <3>2. boot[v] = "issuing" /\ token'[Bootstrap] # token[Bootstrap] => SomeAdmin
      <4> SUFFICES ASSUME boot[v] = "issuing" PROVE SomeAdmin
        OBVIOUS
      <4>1. w \notin outdated
        BY <1>11 DEF AccountsInv, Overlap, Underway
      <4>2. QED
        BY <2>4, <4>1 DEF AccountsInv, LeavesAdmin
    <3>3. QED
      BY <2>1, <3>1, <3>2 DEF LeavesAdmin, Exists
  <2>5. QED
    BY <2>2, <2>3, <2>4
<1>12. QED
  BY <1>6, <1>7, <1>8, <1>9, <1>10, <1>11 DEF AccountsInv

\* A worker that takes back what it has written, and is up or down.
LEMMA RollbackPreserves ==
  ASSUME AccountsInv, NEW w \in Workers, Rollback(w), NEW to \in {"down", "up"},
         boot' = [boot EXCEPT ![w] = to], boot[w] # "down", events' \in 0 .. MaxEvents,
         UNCHANGED <<token, outdated, seeder, seeded>>,
         w \in outdated \/ (to = "up" => SomeAdmin)
  PROVE  AccountsInv'
<1>1. /\ boot \in [Workers -> {"down", "looking", "finding", "inserting",
                               "checking", "issuing", "up"}]
      /\ outdated \subseteq Workers /\ Nobody \notin Workers
  BY AccountTypes, AccountsAssumption DEF AccountsInv
<1>2. boot'[w] = to /\ \A v \in Workers \ {w} : boot'[v] = boot[v]
  BY <1>1
<1>3. /\ operator' = operator /\ writer' \in {writer, Nobody} /\ writer' # w
      /\ writer # w => writer' = writer
      /\ promoters' = promoters \ {w}
  BY <1>1 DEF Rollback
<1>4. AccountsTypeOK'
  BY <1>1, <1>2, <1>3 DEF AccountsInv, AccountsTypeOK, HasToCommit, Exists
<1>5. Overlap'
  BY <1>1, <1>2 DEF AccountsInv, Overlap, Underway
<1>6. RowIsThere' /\ SeedsItsOwn' /\ MachinesOnlyView'
  BY <1>1, <1>2, <1>3 DEF AccountsInv, RowIsThere, SeedsItsOwn, MachinesOnlyView, Exists
<1>7. \A v \in Workers \ outdated' : LeavesAdmin(v)'
  BY <1>1, <1>2, <1>3 DEF AccountsInv, LeavesAdmin, HasToCommit, SomeAdmin, IsAdmin, Exists
<1>8. QED
  BY <1>4, <1>5, <1>6, <1>7 DEF AccountsInv

\* The look for the token, the commit and the rollback.
LEMMA TokenStepsPreserve ==
  ASSUME AccountsInv, NEW w \in Workers, CheckToken(w) \/ IssueToken(w) \/ StopWorker(w)
  PROVE  AccountsInv'
<1>1. CASE CheckToken(w)
  <2>1. CASE token[Bootstrap] = "none"
    <3>1. /\ boot[w] = "checking" /\ boot' = [boot EXCEPT ![w] = "issuing"]
          /\ UNCHANGED <<operator, token, writer, promoters, outdated, seeder, seeded>>
          /\ NoEvent /\ promoters \subseteq Workers
      BY <1>1, <2>1 DEF CheckToken, Booting, bootRest, AccountsInv, AccountsTypeOK
    <3>2. boot'[w] = "issuing"
      BY <3>1, AccountTypes DEF AccountsInv
    <3>3. w \notin outdated => LeavesAdmin(w)'
      BY <2>1, <3>1, <3>2 DEF AccountsInv, LeavesAdmin, HasToCommit, SomeAdmin, IsAdmin
    <3>4. writer = w \/ Exists(Bootstrap)
      BY <3>1 DEF AccountsInv, RowIsThere
    <3>5. QED
      BY <3>1, <3>3, <3>4, QuietStart
  <2>2. CASE token[Bootstrap] # "none"
    BY <1>1, <2>2, CommitPreserves DEF CheckToken, KeepToken, Booting, bootRest, NoEvent
  <2>3. QED
    BY <2>1, <2>2
<1>2. CASE IssueToken(w)
  <2>1. CASE token[Bootstrap] = "none"
    BY <1>2, <2>1, CommitPreserves DEF IssueToken, Booting, bootRest, NoEvent
  <2>2. CASE token[Bootstrap] # "none"
    <3>1. /\ Rollback(w) /\ boot[w] = "issuing" /\ boot' = [boot EXCEPT ![w] = "up"]
          /\ UNCHANGED <<token, outdated, seeder, seeded, events>>
      BY <1>2, <2>2 DEF IssueToken, Booting, bootRest, NoEvent
    <3>2. w \in outdated \/ SomeAdmin
      BY <2>2, <3>1 DEF AccountsInv, LeavesAdmin
    <3>3. events' \in 0 .. MaxEvents
      BY <3>1 DEF AccountsInv, AccountsTypeOK
    <3>4. QED
      BY <3>1, <3>2, <3>3, RollbackPreserves
  <2>3. QED
    BY <2>1, <2>2
<1>3. CASE StopWorker(w)
  <2>1. events' \in 0 .. MaxEvents
    BY <1>3, AccountsAssumption DEF StopWorker, Event, AccountsInv, AccountsTypeOK
  <2>2. QED
    BY <1>3, <2>1, RollbackPreserves DEF StopWorker, bootRest
<1>4. QED
  BY <1>1, <1>2, <1>3

\* A step of the seed or by hand that takes no administrator away.
LEMMA TablesPreserve ==
  ASSUME AccountsInv, UNCHANGED <<boot, writer, promoters, outdated>>, AccountsTypeOK',
         \A u \in Usernames : IsAdmin(u) => operator'[u] = operator[u],
         operator'[Bootstrap] = operator[Bootstrap],
         token'[Bootstrap] \in {token[Bootstrap], "none"}
             \/ token[Bootstrap] # "none",
         SeedsItsOwn', MachinesOnlyView'
  PROVE  AccountsInv'
<1>1. SomeAdmin => SomeAdmin'
  BY AdminStays
<1>2. Overlap' /\ RowIsThere'
  BY DEF AccountsInv, Overlap, Underway, RowIsThere, Exists
<1>3. \A v \in Workers \ outdated' : LeavesAdmin(v)'
  BY <1>1 DEF AccountsInv, LeavesAdmin, HasToCommit, Exists
<1>4. QED
  BY <1>2, <1>3 DEF AccountsInv

\* What a chapter holds is neither the bootstrap operator's nor unknown.
LEMMA ChaptersAreKnown ==
  ASSUME NEW n \in 1 .. 3
  PROVE  /\ Chapters[n] \subseteq Usernames \cup {Rules}
         /\ Bootstrap \notin Chapters[n]
<1>1. Bootstrap \notin Humans \cup Machines /\ Rules # Bootstrap
  BY AccountsAssumption
<1>2. Chapters[1] = {Rules} /\ Chapters[2] = Humans /\ Chapters[3] = Machines
  BY DEF Chapters
<1>3. n = 1 \/ n = 2 \/ n = 3
  OBVIOUS
<1>4. QED
  BY <1>1, <1>2, <1>3 DEF Usernames

\* The seed's look at what is missing.
LEMMA BeginChapterPreserves ==
  ASSUME AccountsInv, BeginChapter
  PROVE  AccountsInv'
<1>1. seeder.chapter \in 0 .. 3 /\ seeder.chapter < 3
  BY DEF AccountsInv, AccountsTypeOK, BeginChapter
<1> DEFINE n == seeder.chapter + 1
<1>2. n \in 1 .. 3
  BY <1>1
<1> DEFINE gone == {x \in Chapters[n] : ~Present(x)}
<1>3. /\ seeder' = [chapter |-> n, at |-> "writing", missing |-> gone]
      /\ UNCHANGED <<operator, token, seeded, boot, writer, promoters, outdated, events>>
  BY DEF BeginChapter, seedRest, NoEvent
<1>4. gone \subseteq Usernames \cup {Rules} /\ Bootstrap \notin gone
  BY <1>2, ChaptersAreKnown
<1>5. \A u \in gone \cap Usernames : token[u] = "none"
  <2>1. Rules \notin Usernames
    BY AccountsAssumption DEF Usernames
  <2>2. QED
    BY <2>1 DEF Present
<1> HIDE DEF n, gone
<1>6. AccountsTypeOK'
  <2>1. seeder' \in [chapter : 0 .. 3, at : {"idle", "writing", "failed"},
                     missing : SUBSET (Usernames \cup {Rules})]
    BY <1>2, <1>3, <1>4
  <2>2. QED
    BY <1>3, <2>1 DEF AccountsInv, AccountsTypeOK, HasToCommit, Exists
<1>7. SeedsItsOwn' /\ MachinesOnlyView'
  BY <1>3, <1>4, <1>5 DEF AccountsInv, SeedsItsOwn, MachinesOnlyView
<1>8. QED
  BY <1>3, <1>6, <1>7, TablesPreserve

\* The seed's commit adds operators and tokens and changes none.
LEMMA CommitChapterPreserves ==
  ASSUME AccountsInv, CommitChapter
  PROVE  AccountsInv'
<1>1. /\ operator' = [u \in Usernames |->
            IF u \in seeder.missing /\ ~Exists(u) THEN Row(SeededRole[u]) ELSE operator[u]]
      /\ token' = [u \in Usernames |-> IF u \in Issue THEN "live" ELSE token[u]]
      /\ UNCHANGED <<boot, writer, promoters, outdated, events>>
      /\ seeder.at = "writing" /\ seeded' = TRUE
      /\ seeder' = [seeder EXCEPT !.at = "idle", !.missing = {}]
  BY DEF CommitChapter, seedRest, NoEvent
<1>2. /\ seeder \in [chapter : 0 .. 3, at : {"idle", "writing", "failed"},
                     missing : SUBSET (Usernames \cup {Rules})]
      /\ operator \in [Usernames -> {Missing} \cup [role : Roles, active : BOOLEAN]]
      /\ token \in [Usernames -> {"none", "live", "revoked"}]
      /\ Bootstrap \in Usernames /\ Bootstrap \notin seeder.missing
  BY AccountTypes DEF AccountsInv, AccountsTypeOK, SeedsItsOwn
<1>3. /\ seeder' \in [chapter : 0 .. 3, at : {"idle", "writing", "failed"},
                      missing : SUBSET (Usernames \cup {Rules})]
      /\ seeder'.at = "idle" /\ seeder'.missing = {}
  BY <1>1, <1>2
<1>4. ASSUME NEW u \in Usernames, u \in seeder.missing
      PROVE  /\ Row(SeededRole[u]) \in [role : Roles, active : BOOLEAN]
             /\ Row(SeededRole[u]) # Missing
             /\ u \in Machines => Row(SeededRole[u]).role = "VIEWER"
  <2>1. u \in Humans \cup Machines
    BY <1>2, <1>4 DEF Usernames
  <2>2. SeededRole[u] \in Roles /\ (u \in Machines => SeededRole[u] = "VIEWER")
    BY <2>1, AccountsAssumption DEF Roles
  <2>3. QED
    BY <2>2 DEF Row, Missing, Roles
<1>5. ASSUME NEW u \in Usernames
      PROVE  /\ operator'[u] \in {Missing} \cup [role : Roles, active : BOOLEAN]
             /\ Exists(u) => operator'[u] = operator[u]
             /\ u \in seeder.missing => operator'[u] # Missing
             /\ operator'[u] # operator[u] => u \in seeder.missing
                                              /\ operator'[u] = Row(SeededRole[u])
             /\ token'[u] \in {"none", "live", "revoked"}
             /\ token'[u] # token[u] => u \in seeder.missing
  <2>1. u \in Issue => u \in seeder.missing
    BY DEF Issue
  <2>2. operator'[u] = IF u \in seeder.missing /\ ~Exists(u) THEN Row(SeededRole[u])
                       ELSE operator[u]
    BY <1>1
  <2>3. token'[u] = IF u \in Issue THEN "live" ELSE token[u]
    BY <1>1
  <2>4. QED
    BY <1>2, <1>4, <2>1, <2>2, <2>3 DEF Exists
<1>6. AccountsTypeOK'
  <2>1. operator' \in [Usernames -> {Missing} \cup [role : Roles, active : BOOLEAN]]
    BY <1>1, <1>5
  <2>2. token' \in [Usernames -> {"none", "live", "revoked"}]
    BY <1>1, <1>5
  <2>3. \A u \in Usernames : token'[u] # "none" => Exists(u)'
    BY <1>5 DEF AccountsInv, AccountsTypeOK, Exists
  <2>4. QED
    BY <1>1, <1>3, <2>1, <2>2, <2>3 DEF AccountsInv, AccountsTypeOK, HasToCommit
<1>7. \A u \in Usernames : IsAdmin(u) => operator'[u] = operator[u]
  <2>1. Row("ADMIN") # Missing
    BY DEF Row, Missing
  <2>2. \A u \in Usernames : IsAdmin(u) => Exists(u)
    BY <2>1 DEF IsAdmin, Exists
  <2>3. QED
    BY <1>5, <2>2
<1>8. operator'[Bootstrap] = operator[Bootstrap] /\ token'[Bootstrap] = token[Bootstrap]
  BY <1>2, <1>5
<1>9. SeedsItsOwn'
  BY <1>3 DEF SeedsItsOwn
<1>10. MachinesOnlyView'
  <2>1. Machines \subseteq Usernames
    BY DEF Usernames
  <2>2. QED
    BY <1>4, <1>5, <2>1 DEF AccountsInv, MachinesOnlyView
<1>11. QED
  BY <1>1, <1>6, <1>7, <1>8, <1>9, <1>10, TablesPreserve

\* The seed stops, and is run again.
LEMMA RerunsPreserve ==
  ASSUME AccountsInv, Killed \/ Rerun
  PROVE  AccountsInv'
<1>1. /\ UNCHANGED <<operator, token, seeded, boot, writer, promoters, outdated>>
      /\ events' \in 0 .. MaxEvents
  BY AccountsAssumption DEF AccountsInv, AccountsTypeOK, Killed, Rerun, seedRest, Event, NoEvent
<1>2. /\ seeder' \in [chapter : 0 .. 3, at : {"idle", "writing", "failed"},
                      missing : SUBSET (Usernames \cup {Rules})]
      /\ seeder'.at # "writing" /\ seeder'.missing = {}
  <2>1. CASE Killed
    <3>1. /\ seeder \in [chapter : 0 .. 3, at : {"idle", "writing", "failed"},
                         missing : SUBSET (Usernames \cup {Rules})]
          /\ seeder' = [seeder EXCEPT !.at = "failed", !.missing = {}]
      BY <2>1 DEF AccountsInv, AccountsTypeOK, Killed
    <3>2. seeder' = [chapter |-> seeder.chapter, at |-> "failed", missing |-> {}]
      BY <3>1
    <3>3. QED
      BY <3>1, <3>2
  <2>2. CASE Rerun
    BY <2>2 DEF Rerun, NotBegun
  <2>3. QED
    BY <2>1, <2>2
<1>3. AccountsTypeOK'
  BY <1>1, <1>2 DEF AccountsInv, AccountsTypeOK, HasToCommit, Exists
<1>4. SeedsItsOwn' /\ MachinesOnlyView'
  BY <1>1, <1>2 DEF AccountsInv, SeedsItsOwn, MachinesOnlyView
<1>5. QED
  BY <1>1, <1>3, <1>4, TablesPreserve

\* An operator deactivated by hand: every worker is outdated or an administrator is left.
LEMMA DeactivatePreserves ==
  ASSUME AccountsInv, NEW u \in Usernames, Deactivate(u)
  PROVE  AccountsInv'
<1>1. /\ operator \in [Usernames -> {Missing} \cup [role : Roles, active : BOOLEAN]]
      /\ operator[u].active /\ operator' = [operator EXCEPT ![u].active = FALSE]
      /\ UNCHANGED <<token, boot, writer, promoters, seeder, seeded>>
      /\ events' \in 0 .. MaxEvents
      /\ outdated' = IF \E v \in Usernames \ {u} : IsAdmin(v) THEN outdated
                     ELSE {w \in Workers : boot[w] # "down"}
  BY AccountTypes, AccountsAssumption
     DEF AccountsInv, AccountsTypeOK, Deactivate, byHandRest, Event
<1>2. /\ operator'[u] \in [role : Roles, active : BOOLEAN]
      /\ operator'[u].role = operator[u].role /\ operator'[u] # Missing
      /\ \A v \in Usernames \ {u} : operator'[v] = operator[v]
  <2>1. operator[u] # Missing
    BY <1>1 DEF Missing
  <2>2. operator[u] \in [role : Roles, active : BOOLEAN]
    BY <1>1, <2>1
  <2>3. operator'[u] = [operator[u] EXCEPT !.active = FALSE]
        /\ \A v \in Usernames \ {u} : operator'[v] = operator[v]
    BY <1>1
  <2>4. operator'[u] = [role |-> operator[u].role, active |-> FALSE]
    BY <2>2, <2>3
  <2>5. operator[u].role \in Roles
    BY <2>2
  <2>6. operator'[u].role # "none"
    BY <2>4, <2>5 DEF Roles
  <2>7. operator'[u] # Missing
    BY <2>6 DEF Missing
  <2>8. operator'[u] \in [role : Roles, active : BOOLEAN]
    BY <2>4, <2>5
  <2>9. operator'[u].role = operator[u].role
    BY <2>4
  <2>10. QED
    BY <2>3, <2>7, <2>8, <2>9
<1>3. operator' \in [Usernames -> {Missing} \cup [role : Roles, active : BOOLEAN]]
  BY <1>1, <1>2
<1>4. \A v \in Usernames : Exists(v)' <=> Exists(v)
  <2>1. Exists(u)
    BY <1>1 DEF Exists, Missing
  <2>2. QED
    BY <1>2, <2>1 DEF Exists
<1>5. AccountsTypeOK'
  BY <1>1, <1>3, <1>4 DEF AccountsInv, AccountsTypeOK, HasToCommit
<1>6. RowIsThere' /\ SeedsItsOwn'
  BY <1>1, <1>4, AccountTypes DEF AccountsInv, RowIsThere, SeedsItsOwn
<1>7. MachinesOnlyView'
  BY <1>2 DEF AccountsInv, MachinesOnlyView, Usernames
<1>8. CASE \E v \in Usernames \ {u} : IsAdmin(v)
  <2>1. SomeAdmin'
    BY <1>2, <1>8 DEF SomeAdmin, IsAdmin
  <2>2. Overlap' /\ \A w \in Workers \ outdated' : LeavesAdmin(w)'
    BY <1>1, <1>8, <2>1 DEF AccountsInv, Overlap, Underway, LeavesAdmin, HasToCommit
  <2>3. QED
    BY <1>5, <1>6, <1>7, <2>2 DEF AccountsInv
<1>9. CASE ~\E v \in Usernames \ {u} : IsAdmin(v)
  <2>1. outdated' = {w \in Workers : boot'[w] # "down"}
    BY <1>1, <1>9
  <2>2. Overlap' /\ \A w \in Workers \ outdated' : LeavesAdmin(w)'
    BY <2>1 DEF Overlap, LeavesAdmin
  <2>3. QED
    BY <1>5, <1>6, <1>7, <2>2 DEF AccountsInv
<1>10. QED
  BY <1>8, <1>9

\* A token revoked or deleted by hand.
LEMMA TokensByHandPreserve ==
  ASSUME AccountsInv, NEW u \in Usernames, Revoke(u) \/ DropToken(u)
  PROVE  AccountsInv'
<1>1. /\ token \in [Usernames -> {"none", "live", "revoked"}]
      /\ UNCHANGED <<operator, boot, writer, promoters, outdated, seeder, seeded>>
      /\ token[u] # "none" /\ events' \in 0 .. MaxEvents
      /\ \/ token' = [token EXCEPT ![u] = "none"]
         \/ token' = [token EXCEPT ![u] = "revoked"]
  BY AccountTypes, AccountsAssumption
     DEF AccountsInv, AccountsTypeOK, Revoke, DropToken, byHandRest, Event
<1>2. /\ token' \in [Usernames -> {"none", "live", "revoked"}]
      /\ \A v \in Usernames : token[v] = "none" => token'[v] = "none"
  BY <1>1
<1>3. AccountsTypeOK'
  BY <1>1, <1>2 DEF AccountsInv, AccountsTypeOK, HasToCommit, Exists
<1>4. SeedsItsOwn' /\ MachinesOnlyView'
  BY <1>1, <1>2 DEF AccountsInv, SeedsItsOwn, MachinesOnlyView
<1>5. token'[Bootstrap] = token[Bootstrap] \/ token[Bootstrap] # "none"
  BY <1>2, AccountTypes DEF AccountsInv
<1>6. QED
  BY <1>1, <1>3, <1>4, <1>5, TablesPreserve

\* Every step preserves the invariant of the accounts.
LEMMA AccountsStep ==
  ASSUME AccountsInv, AccountStep
  PROVE  AccountsInv'
<1>1. CASE events' \in 0 .. MaxEvents /\ UNCHANGED accountRest
  BY <1>1 DEF accountRest, AccountsInv, AccountsTypeOK, Overlap, Underway, RowIsThere, SeedsItsOwn,
        MachinesOnlyView, LeavesAdmin, HasToCommit, SomeAdmin, IsAdmin, Exists
<1>2. ASSUME NEW w \in Workers, BootWorker(w) \/ StartUp(w) \/ StopWorker(w)
      PROVE  AccountsInv'
  BY <1>2, BootWorkerPreserves, LooksPreserve, FlushPreserves, TokenStepsPreserve DEF StartUp
<1>3. CASE BeginChapter \/ CommitChapter \/ Killed \/ Rerun
  BY <1>3, BeginChapterPreserves, CommitChapterPreserves, RerunsPreserve
<1>4. ASSUME NEW u \in Usernames, Deactivate(u) \/ Revoke(u) \/ DropToken(u)
      PROVE  AccountsInv'
  BY <1>4, DeactivatePreserves, TokensByHandPreserve
<1>5. QED
  BY <1>1, <1>2, <1>3, <1>4 DEF AccountStep

\* It holds of tables with no operator but perhaps one deactivated, and of workers that are
\* down.
LEMMA AccountsInitially == ServiceInit => AccountsInv
<1> SUFFICES ASSUME ServiceInit PROVE AccountsInv
  OBVIOUS
<1>1. AccountsInit
  BY DEF ServiceInit
<1>2. \A u \in Usernames : token[u] = "none" /\ (u # Bootstrap => operator[u] = Missing)
  BY <1>1 DEF AccountsInit
<1>3. AccountsTypeOK
  <2>1. /\ operator \in [Usernames -> {Missing} \cup [role : Roles, active : BOOLEAN]]
        /\ token \in [Usernames -> {"none"}] /\ boot \in [Workers -> {"down"}]
    <3>1. PICK left \in {Missing, [role |-> "ADMIN", active |-> FALSE]} :
             operator = [u \in Usernames |-> IF u = Bootstrap THEN left ELSE Missing]
      BY <1>1 DEF AccountsInit
    <3>2. left \in {Missing} \cup [role : Roles, active : BOOLEAN]
      <4>1. "ADMIN" \in Roles
        BY DEF Roles
      <4>2. [role |-> "ADMIN", active |-> FALSE] \in [role : Roles, active : BOOLEAN]
        BY <4>1
      <4>3. QED
        BY <4>2, Zenon
    <3>3. operator \in [Usernames -> {Missing} \cup [role : Roles, active : BOOLEAN]]
      BY <3>1, <3>2
    <3>4. QED
      BY <1>1, <3>3 DEF AccountsInit
  <2>2. seeder \in [chapter : 0 .. 3, at : {"idle", "writing", "failed"},
                    missing : SUBSET (Usernames \cup {Rules})]
    BY <1>1 DEF AccountsInit, NotBegun
  <2>3. /\ writer = Nobody /\ promoters = {} /\ events \in 0 .. MaxEvents /\ outdated = {}
        /\ Nobody \notin Workers
    BY <1>1, AccountsAssumption DEF AccountsInit
  <2>4. seeded \in BOOLEAN
    BY <1>1, Zenon DEF AccountsInit
  <2>5. QED
    BY <1>2, <2>1, <2>2, <2>3, <2>4 DEF AccountsTypeOK, HasToCommit
<1>4. Overlap /\ RowIsThere /\ SeedsItsOwn
  BY <1>1 DEF AccountsInit, Overlap, Underway, RowIsThere, SeedsItsOwn, NotBegun
<1>5. MachinesOnlyView
  BY <1>2, AccountsAssumption DEF MachinesOnlyView, Usernames, Missing
<1>6. \A w \in Workers : LeavesAdmin(w)
  BY <1>1 DEF AccountsInit, LeavesAdmin
<1>7. QED
  BY <1>3, <1>4, <1>5, <1>6 DEF AccountsInv

\* Whatever the start-ups, seeds and edits by hand do, in any number and order, the tables
\* of accounts are as the invariant has them.
THEOREM AccountsAreKept == ServiceSpec => []AccountsInv
  BY AccountsInitially, AccountsStep, StepsOfAccounts, PTL DEF ServiceSpec

\* A worker that has ended its start-up leaves the service with an administrator, for any
\* number of workers, start-ups, stops and edits by hand (ensure_bootstrap_admin).
THEOREM AdminIsThere == ServiceSpec => []ServingMeansAdmin
<1>1. AccountsInv => ServingMeansAdmin
  BY DEF AccountsInv, LeavesAdmin, ServingMeansAdmin
<1>2. QED
  BY <1>1, AccountsAreKept, PTL

-----------------------------------------------------------------------------
(* The types, the requests among them                                        *)

Answers == [tool : Tools, key : Keys, row : Nat]
RequestStages == {"token", "operator", "starting", "tool", "reading"}
RequestRecords == [at : RequestStages, user : Usernames, kind : Endpoints, barred : BOOLEAN]

\* What EffectsTypeOK has beyond Typed and Targets.
HistoryTyped == answers \subseteq Answers /\ rivals \subseteq Payments

RequestsTyped ==
    /\ request \in [Requests -> {NoRequest} \cup RequestRecords]
    /\ \A r \in Requests : Effects!Working(r) => request[r].at = "tool"

\* An answer about a row is an answer.
LEMMA ReportIsAnAnswer ==
  ASSUME Typed, HistoryTyped, NEW c \in Requests, Effects!Working(c), NEW row \in Nat,
         Effects!Report(c, row), rivals' = rivals
  PROVE  HistoryTyped'
<1>1. job[c].of.tool \in Tools
  BY Carried
<1>2. \A k \in {job[c].of.key} \cap Keys :
         [tool |-> job[c].of.tool, key |-> k, row |-> row] \in Answers
  BY <1>1 DEF Answers
<1>3. QED
  BY <1>2 DEF Effects!Report, HistoryTyped

\* The rows of a table are numbered.
LEMMA RowsAreNumbers ==
  ASSUME Typed, NEW tool \in Tools, NEW key
  PROVE  Effects!RowsWith(Table(tool), key) \subseteq Nat
<1>1. /\ DOMAIN refunds = 1 .. Len(refunds) /\ Len(refunds) \in Nat
      /\ DOMAIN deployments = 1 .. Len(deployments) /\ Len(deployments) \in Nat
  BY DEF Typed
<1>2. QED
  BY <1>1 DEF Effects!RowsWith, Table, Tools

\* A step of a call keeps the types of the histories and touches no other call's job.
LEMMA CallsKeepTypes ==
  ASSUME RowsInv, HistoryTyped, NEW c \in Requests, CallSteps(c)
  PROVE  HistoryTyped'
<1>1. Typed
  BY DEF RowsInv
<1>2. ASSUME NEW tool \in Tools, NEW row \in Effects!RowsWith(Table(tool), job[c].of.key),
             Effects!Working(c), Effects!Report(c, row), rivals' = rivals
      PROVE  HistoryTyped'
  BY <1>1, <1>2, RowsAreNumbers, ReportIsAnAnswer
<1>3. CASE UNCHANGED <<answers, rivals>>
  BY <1>3 DEF HistoryTyped
<1>4. CASE Effects!FindRefund(c) \/ Effects!FindDeployment(c)
  <2>1. PICK tool \in Tools, next \in {"checking", "committing"} :
           Effects!Find(c, tool, Table(tool), next)
    BY <1>4 DEF Effects!FindRefund, Effects!FindDeployment, Tools, Table
  <2>2. Effects!Working(c)
    BY <2>1 DEF Effects!Find, Effects!At, Effects!Working
  <2>3. QED
    BY <1>2, <1>3, <2>1, <2>2 DEF Effects!Find
<1>5. ASSUME NEW tool \in Tools, Effects!Reload(c, tool, Table(tool))
      PROVE  HistoryTyped'
  <2>1. Effects!Working(c)
    BY <1>5 DEF Effects!Reload, Effects!At, Effects!Working
  <2>2. QED
    BY <1>2, <1>5, <2>1 DEF Effects!Reload
<1>6. CASE Effects!CheckPayment(c)
  <2>1. \A d \in Effects!Others(job[c].of) : job[d].of.target \in Payments
    <3> TAKE d \in Effects!Others(job[c].of)
    <3>1. d \in Requests /\ Effects!Working(d) /\ job[d].of.tool = "refund_payment"
      BY DEF Effects!Others, Effects!At, Effects!Working
    <3>2. QED
      BY <1>1, <3>1, Carried
  <2>2. QED
    BY <1>6, <2>1 DEF Effects!CheckPayment, HistoryTyped
<1>7. CASE Effects!CommitRefund(c)
  <2>1. /\ Effects!Working(c) /\ job[c].of.tool = "refund_payment"
        /\ refunds' = Append(refunds, [key |-> job[c].of.key, target |-> job[c].of.target])
        /\ Effects!Report(c, Len(refunds')) /\ rivals' = rivals
    BY <1>7 DEF Effects!CommitRefund, Effects!At, Effects!Working
  <2>2. [key |-> job[c].of.key, target |-> job[c].of.target] \in Refunds
    BY <1>1, <2>1, Carried DEF Refunds
  <2>3. Len(refunds') \in Nat
    BY <1>1, <2>1, <2>2, Appended DEF Typed
  <2>4. QED
    BY <1>1, <2>1, <2>3, ReportIsAnAnswer
<1>8. CASE Effects!CommitDeployment(c)
  <2>1. /\ Effects!Working(c) /\ job[c].of.tool = "deploy"
        /\ deployments' = Append(deployments, [key |-> job[c].of.key, target |-> job[c].of.target])
        /\ Effects!Report(c, Len(deployments')) /\ rivals' = rivals
    BY <1>8 DEF Effects!CommitDeployment, Effects!At, Effects!Working
  <2>2. [key |-> job[c].of.key, target |-> job[c].of.target] \in Deployments
    BY <1>1, <2>1, Carried DEF Deployments
  <2>3. Len(deployments') \in Nat
    BY <1>1, <2>1, <2>2, Appended DEF Typed
  <2>4. QED
    BY <1>1, <2>1, <2>3, ReportIsAnAnswer
<1>9. QED
  BY <1>3, <1>4, <1>5, <1>6, <1>7, <1>8
     DEF CallSteps, Effects!Start, Effects!Die, Effects!Run, Effects!Collide, Table, Tools

\* A call's step is of its own job.
LEMMA OthersWorkOn ==
  ASSUME Typed, NEW c \in Requests, CallSteps(c)
  PROVE  \A d \in Requests \ {c} : Effects!Working(d)' <=> Effects!Working(d)
<1>1. \E state : job' = [job EXCEPT ![c] = state]
  <2>1. (\E stage : Effects!Go(c, stage)) => \E state : job' = [job EXCEPT ![c] = state]
    BY DEF Effects!Go
  <2>2. CASE \E stage : Effects!Go(c, stage)
    BY <2>1, <2>2
  <2>3. CASE Effects!Stop(c)
    BY <2>3 DEF Effects!Stop
  <2>4. CASE \E j \in Effects!Jobs : Effects!Start(c, j)
    BY <2>4 DEF Effects!Start
  <2>5. QED
    BY <2>2, <2>3, <2>4 DEF CallSteps, Effects!Die, Effects!Run, Effects!FindRefund,
          Effects!FindDeployment, Effects!Find, Effects!CheckPayment, Effects!CommitRefund,
          Effects!CommitDeployment, Effects!Collide, Effects!Reload, Effects!Report
<1>2. QED
  BY <1>1 DEF Typed, Effects!Working

\* What a request does with its own record.
LEMMA RequestMoves ==
  ASSUME RequestsTyped, NEW r \in Requests, NEW new \in {NoRequest} \cup RequestRecords,
         request' = [request EXCEPT ![r] = new],
         \A d \in Requests \ {r} : Effects!Working(d)' => Effects!Working(d),
         Effects!Working(r)' => new.at = "tool"
  PROVE  RequestsTyped'
<1>1. /\ request' \in [Requests -> {NoRequest} \cup RequestRecords] /\ request'[r] = new
      /\ \A d \in Requests \ {r} : request'[d] = request[d]
  BY DEF RequestsTyped
<1>2. QED
  BY <1>1 DEF RequestsTyped

\* A request that goes on to a stage.
LEMMA RequestGoesOn ==
  ASSUME RequestsTyped, NEW r \in Requests, request[r].at # "idle",
         NEW stage \in RequestStages, GoOn(r, stage)
  PROVE  /\ request[r] \in RequestRecords
         /\ [request[r] EXCEPT !.at = stage] \in RequestRecords
         /\ [request[r] EXCEPT !.at = stage].at = stage
         /\ request' = [request EXCEPT ![r] = [request[r] EXCEPT !.at = stage]]
<1>1. request[r] \in RequestRecords
  BY DEF RequestsTyped, NoRequest
<1>2. [request[r] EXCEPT !.at = stage] =
         [at |-> stage, user |-> request[r].user, kind |-> request[r].kind,
          barred |-> request[r].barred]
  BY <1>1 DEF RequestRecords
<1>3. QED
  BY <1>1, <1>2 DEF RequestRecords, GoOn

\* Whether an operator is deactivated or locked out is a question of yes or no.
LEMMA YesOrNo ==
  ASSUME NEW u
  PROVE  Deactivated(u) \in BOOLEAN /\ LockedOut(u) \in BOOLEAN
  BY Zenon DEF Deactivated, LockedOut

\* A deleted token changes whether requests are barred, and no more of them.
LEMMA PardonedRequests ==
  ASSUME RequestsTyped, NEW u \in Usernames, Pardon(u)
  PROVE  /\ request' \in [Requests -> {NoRequest} \cup RequestRecords]
         /\ \A r \in Requests :
               /\ request'[r].at = request[r].at
               /\ request[r].at # "idle" =>
                     /\ request'[r].user = request[r].user
                     /\ request'[r].barred = IF request[r].user = u THEN Deactivated(u)
                                             ELSE request[r].barred
<1> DEFINE new(d) == IF ~In(d, "idle") /\ request[d].user = u
                     THEN [request[d] EXCEPT !.barred = Deactivated(u)] ELSE request[d]
<1>1. request' = [d \in Requests |-> new(d)]
  BY DEF Pardon
<1>2. ASSUME NEW d \in Requests
      PROVE  /\ new(d) \in {NoRequest} \cup RequestRecords /\ new(d).at = request[d].at
             /\ request[d].at # "idle" =>
                   /\ new(d).user = request[d].user
                   /\ new(d).barred = IF request[d].user = u THEN Deactivated(u)
                                      ELSE request[d].barred
  <2>1. request[d] \in {NoRequest} \cup RequestRecords
    BY DEF RequestsTyped
  <2>2. CASE ~In(d, "idle") /\ request[d].user = u
    <3>1. request[d] \in RequestRecords
      BY <2>1, <2>2 DEF In, NoRequest
    <3>2. PICK b \in BOOLEAN : b = Deactivated(u)
      BY YesOrNo
    <3>3. new(d) = [request[d] EXCEPT !.barred = b]
      BY <2>2, <3>2
    <3>4. new(d) = [at |-> request[d].at, user |-> request[d].user, kind |-> request[d].kind,
                    barred |-> b]
      BY <3>1, <3>3 DEF RequestRecords
    <3> HIDE DEF new
    <3>5. /\ new(d) \in RequestRecords /\ new(d).at = request[d].at
          /\ new(d).user = request[d].user
      BY <3>1, <3>4 DEF RequestRecords
    <3>6. new(d).barred = b
      BY <3>4
    <3>7. QED
      BY <2>2, <3>2, <3>5, <3>6
  <2>3. CASE In(d, "idle")
    <3>1. new(d) = request[d] /\ request[d].at = "idle"
      BY <2>3 DEF In
    <3> HIDE DEF new
    <3>2. QED
      BY <2>1, <3>1
  <2>4. CASE request[d].user # u
    <3>1. new(d) = request[d]
      BY <2>4
    <3> HIDE DEF new
    <3>2. QED
      BY <2>1, <2>4, <3>1
  <2>5. QED
    BY <2>2, <2>3, <2>4
<1> HIDE DEF new
<1>3. /\ request' \in [Requests -> {NoRequest} \cup RequestRecords]
      /\ \A r \in Requests : request'[r] = new(r)
  BY <1>1, <1>2
<1>4. QED
  BY <1>2, <1>3

\* Every step of the service keeps requests where their tools are.
LEMMA RequestsStep ==
  ASSUME PlanIsKnown, RowsInv, RequestsTyped, [ServiceNext]_serviceVars
  PROVE  RequestsTyped'
<1>1. CASE UNCHANGED <<request, job>>
  BY <1>1 DEF RequestsTyped, Effects!Working
<1>2. ASSUME NEW u \in Usernames, Pardon(u)
      PROVE  RequestsTyped'
  <2>1. job' = job
    BY <1>2 DEF Pardon, effectVars
  <2>2. /\ request' \in [Requests -> {NoRequest} \cup RequestRecords]
        /\ \A r \in Requests : request'[r].at = request[r].at
    BY <1>2, PardonedRequests
  <2>3. QED
    BY <2>1, <2>2 DEF RequestsTyped, Effects!Working
<1>3. ASSUME NEW r \in Requests, Serve(r)
      PROVE  RequestsTyped'
  <2>1. NoRequest.at = "idle" /\ NoRequest \in {NoRequest} \cup RequestRecords
    BY DEF NoRequest
  <2>2. ASSUME NEW new \in {NoRequest} \cup RequestRecords, job' = job,
               request[r].at # "tool", request' = [request EXCEPT ![r] = new]
        PROVE  RequestsTyped'
    <3>1. \A d \in Requests : Effects!Working(d)' => Effects!Working(d)
      BY <2>2 DEF Effects!Working
    <3>2. ~Effects!Working(r)'
      BY <2>2, <3>1 DEF RequestsTyped
    <3>3. QED
      BY <2>2, <3>1, <3>2, RequestMoves
  <2>3. ASSUME NEW u \in Usernames, NEW kind \in Endpoints, Arrive(r, u, kind)
        PROVE  RequestsTyped'
    <3>1. PICK b \in BOOLEAN : b = LockedOut(u)
      BY YesOrNo
    <3> DEFINE new == [at |-> "token", user |-> u, kind |-> kind, barred |-> b]
    <3>2. request' = [request EXCEPT ![r] = new] /\ request[r].at = "idle" /\ job' = job
      BY <2>3, <3>1 DEF Arrive, In, effectVars
    <3>3. new \in RequestRecords
      BY DEF RequestRecords, RequestStages
    <3> HIDE DEF new
    <3>4. QED
      BY <2>2, <3>2, <3>3
  <2>4. ASSUME NEW stage \in RequestStages, GoOn(r, stage), job' = job,
               request[r].at \notin {"idle", "tool"}
        PROVE  RequestsTyped'
    BY <2>2, <2>4, RequestGoesOn
  <2>5. ASSUME Answered(r), job' = job, request[r].at # "tool"
        PROVE  RequestsTyped'
    BY <2>1, <2>2, <2>5 DEF Answered
  <2>6. ASSUME CallSteps(r), GoOn(r, "tool"), request[r].at = "operator"
        PROVE  RequestsTyped'
    <3>1. Typed /\ "tool" \in RequestStages
      BY DEF RowsInv, RequestStages
    <3>2. \A d \in Requests \ {r} : Effects!Working(d)' => Effects!Working(d)
      BY <2>6, <3>1, OthersWorkOn
    <3> DEFINE new == [request[r] EXCEPT !.at = "tool"]
    <3>3. new \in RequestRecords /\ new.at = "tool" /\ request' = [request EXCEPT ![r] = new]
      BY <2>6, <3>1, RequestGoesOn
    <3> HIDE DEF new
    <3>4. QED
      BY <3>2, <3>3, RequestMoves
  <2>7. ASSUME CallSteps(r), ~Effects!Working(r)', request' = [request EXCEPT ![r] = NoRequest]
        PROVE  RequestsTyped'
    <3>1. \A d \in Requests \ {r} : Effects!Working(d)' => Effects!Working(d)
      BY <2>7, OthersWorkOn DEF RowsInv
    <3>2. QED
      BY <2>1, <2>7, <3>1, RequestMoves
  <2>8. CASE \E call \in Traffic : Arrive(r, call[1], call[2])
    <3>1. PICK call \in Traffic : Arrive(r, call[1], call[2])
      BY <2>8
    <3>2. call[1] \in Usernames /\ call[2] \in Endpoints
      BY ServiceAssumption
    <3>3. QED
      BY <2>3, <3>1, <3>2
  <2>9. CASE ReadToken(r) \/ Create(r) \/ Begin(r) \/ Read(r) \/ Show(r) \/ Decline(r)
    <3>1. job' = job /\ request[r].at \notin {"idle", "tool"}
      BY <2>9 DEF ReadToken, Create, Begin, Read, Show, Decline, Admitted, In, effectVars
    <3>2. \/ Answered(r) \/ GoOn(r, "operator") \/ GoOn(r, "starting")
          \/ GoOn(r, "reading")
      BY <2>9 DEF ReadToken, Create, Begin, Read, Show, Decline
    <3>3. {"operator", "starting", "reading"} \subseteq RequestStages
      BY DEF RequestStages
    <3>4. QED
      BY <2>4, <2>5, <3>1, <3>2, <3>3
  <2>10. CASE RunPlanned(r)
    <3>1. [plan EXCEPT !.key = PlannedKey] \in Effects!Jobs
      BY <2>10, OtherKey, ServiceAssumption DEF RunPlanned, PlanIsKnown
    <3>2. CallSteps(r) /\ GoOn(r, "tool") /\ request[r].at = "operator"
      BY <2>10, <3>1 DEF RunPlanned, CallSteps, Admitted, In
    <3>3. QED
      BY <2>6, <3>2
  <2>11. CASE \E j \in Submitted : SubmitAction(r, j)
    <3>1. PICK j \in Submitted, k \in Keys :
             SubmitAction(r, j) /\ Effects!Start(r, [j EXCEPT !.key = k])
      BY <2>11 DEF SubmitAction, Fresh
    <3>2. [j EXCEPT !.key = k] \in Effects!Jobs
      BY OtherKey, ServiceAssumption
    <3>3. CallSteps(r) /\ GoOn(r, "tool") /\ request[r].at = "operator"
      BY <3>1, <3>2 DEF SubmitAction, CallSteps, Admitted, In
    <3>4. QED
      BY <2>6, <3>3
  <2>12. CASE ToolStep(r)
    <3>1. CallSteps(r)
      BY <2>12 DEF ToolStep, CallSteps
    <3>2. CASE ~Effects!Working(r)'
      BY <2>7, <2>12, <3>1, <3>2 DEF ToolStep
    <3>3. CASE Effects!Working(r)'
      <4>1. request' = request /\ request[r].at = "tool"
        <5>1. Effects!Working(r)
          BY <2>12 DEF ToolStep, Effects!Run, Effects!FindRefund, Effects!FindDeployment,
                Effects!Find, Effects!CheckPayment, Effects!CommitRefund, Effects!CommitDeployment,
                Effects!Collide, Effects!Reload, Effects!At, Effects!Working
        <5>2. QED
          BY <2>12, <3>3, <5>1 DEF ToolStep, RequestsTyped
      <4>2. \A d \in Requests \ {r} : Effects!Working(d)' => Effects!Working(d)
        BY <3>1, OthersWorkOn DEF RowsInv
      <4>3. QED
        BY <4>1, <4>2 DEF RequestsTyped
    <3>4. QED
      BY <3>2, <3>3
  <2>13. CASE Perish(r)
    <3>1. CallSteps(r) /\ request' = [request EXCEPT ![r] = NoRequest]
      BY <2>13 DEF Perish, CallSteps, Answered
    <3>2. ~Effects!Working(r)'
      BY <2>13 DEF Perish, Effects!Die, Effects!Stop, Effects!Done, Effects!Working, RowsInv, Typed
    <3>3. QED
      BY <2>7, <3>1, <3>2
  <2>14. QED
    BY <1>3, <2>8, <2>9, <2>10, <2>11, <2>12, <2>13 DEF Serve
<1>4. QED
  BY <1>1, <1>2, <1>3 DEF ServiceNext, serviceVars, effectVars, deskVars

\* The keys of the agents' calls are not the execution's.
LEMMA UsedStep ==
  ASSUME used \subseteq Keys \ {PlannedKey}, [ServiceNext]_serviceVars
  PROVE  used' \subseteq Keys \ {PlannedKey}
<1>1. \A r \in Requests, j \in Submitted :
         SubmitAction(r, j) => used' \subseteq Keys \ {PlannedKey}
  BY DEF SubmitAction, Fresh
<1>2. QED
  BY <1>1 DEF ServiceNext, serviceVars, deskVars, Pardon, Serve, ReadToken, Create, Begin,
        RunPlanned, Read, Show, Decline, ToolStep, Perish, Arrive

\* The histories keep their types, whatever the step.
LEMMA HistoryStep ==
  ASSUME PlanIsKnown, RowsInv, HistoryTyped, [ServiceNext]_serviceVars
  PROVE  HistoryTyped'
<1>1. CASE UNCHANGED effectVars
  BY <1>1 DEF effectVars, HistoryTyped
<1>2. QED
  BY <1>1, StepsAreCalls, CallsKeepTypes

\* There is no plan before there is an execution.
NoPlanYet == execution = "NONE" => plan = NoPlan

LEMMA NoPlanYetStep ==
  ASSUME NoPlanYet, PlanIsKnown, [ServiceNext]_serviceVars
  PROVE  NoPlanYet'
<1>1. \A r \in Requests :
         /\ Create(r) => execution' # "NONE"
         /\ Begin(r) => plan' = plan /\ (execution' = "NONE" => execution = "NONE")
  BY DEF Create, Begin
<1>2. QED
  BY <1>1 DEF NoPlanYet, ServiceNext, serviceVars, deskVars, Pardon, Serve, ReadToken,
        RunPlanned, Read, Show, Decline, ToolStep, Perish, Arrive, SubmitAction

TypesInv ==
    /\ HistoryTyped /\ RequestsTyped /\ NoPlanYet
    /\ used \subseteq Keys \ {PlannedKey}

\* The types of accounts, tools and requests, and that a tool runs for a request alone.
THEOREM TypeCorrect == ServiceSpec => []TypeOK
<1>1. ServiceInit => TypesInv
  <2> SUFFICES ASSUME ServiceInit PROVE TypesInv
    OBVIOUS
  <2>1. /\ answers = {} /\ rivals = {} /\ used = {} /\ plan = NoPlan
        /\ job = [c \in Requests |-> Effects!Done]
        /\ request = [r \in Requests |-> NoRequest]
    BY DEF ServiceInit, Effects!EffectsInit
  <2>2. \A c \in Requests : ~Effects!Working(c)
    BY <2>1 DEF Effects!Working, Effects!Done
  <2>3. QED
    BY <2>1, <2>2 DEF TypesInv, HistoryTyped, RequestsTyped, NoPlanYet
<1>2. PlanIsKnown /\ RowsInv /\ TypesInv /\ [ServiceNext]_serviceVars => TypesInv'
  BY HistoryStep, RequestsStep, NoPlanYetStep, UsedStep DEF TypesInv
<1>3. PlanIsKnown /\ RowsInv /\ AccountsInv /\ TypesInv => TypeOK
  <2> SUFFICES ASSUME PlanIsKnown, RowsInv, AccountsInv, TypesInv PROVE TypeOK
    OBVIOUS
  <2>1. AccountsTypeOK
    BY DEF AccountsInv
  <2>2. Effects!EffectsTypeOK
    BY DEF RowsInv, Typed, Targets, TypesInv, HistoryTyped, Effects!EffectsTypeOK, Refunds,
          Deployments, Answers, Tools
  <2>3. request \in [Requests -> {NoRequest} \cup RequestRecords]
        /\ \A r \in Requests : Effects!Working(r) => request[r].at = "tool"
    BY DEF TypesInv, RequestsTyped
  <2>4. execution \in {"NONE", "CREATED", "RUNNING"} /\ plan \in Planned \cup {NoPlan}
        /\ used \subseteq Keys \ {PlannedKey}
    BY DEF PlanIsKnown, TypesInv, NoPlanYet
  <2>5. QED
    BY <2>1, <2>2, <2>3, <2>4 DEF TypeOK, RequestRecords, RequestStages
<1>4. QED
  BY <1>1, <1>2, <1>3, RowsAreKept, AccountsAreKept, PTL DEF ServiceSpec

-----------------------------------------------------------------------------
(* Who gets in                                                               *)

\* A barred request has a token that is revoked still, or an operator who is deactivated;
\* past the look at its token, the latter.
Reasoned(r) ==
    /\ request[r].at = "token" /\ request[r].barred => LockedOut(request[r].user)
    /\ request[r].at = "operator" /\ request[r].barred => Deactivated(request[r].user)

BarredStays == \A r \in Requests : Reasoned(r)

\* The same of a request whose user is known, and of one that is not on its way in.
LEMMA HasReason ==
  ASSUME NEW r \in Requests, NEW u, request'[r].user = u,
         request'[r].at = "token" /\ request'[r].barred => LockedOut(u)',
         request'[r].at = "operator" /\ request'[r].barred => Deactivated(u)'
  PROVE  Reasoned(r)'
  BY DEF Reasoned, LockedOut, Deactivated, Exists

LEMMA NeedsNoReason ==
  ASSUME NEW r \in Requests, request'[r].at \notin {"token", "operator"}
  PROVE  Reasoned(r)'
  BY DEF Reasoned

\* An operator who is deactivated stays so.
LEMMA DeactivatedStays ==
  ASSUME AccountsInv, AccountStep, NEW u \in Usernames, Deactivated(u)
  PROVE  Deactivated(u)'
<1>1. /\ operator \in [Usernames -> {Missing} \cup [role : Roles, active : BOOLEAN]]
      /\ u # Bootstrap /\ Exists(u) /\ ~operator[u].active
  BY AccountTypes DEF AccountsInv, Deactivated
<1>2. CASE operator'[u] = operator[u]
  BY <1>1, <1>2 DEF Deactivated, Exists
<1>3. ASSUME NEW w \in Workers, Commit(w)
      PROVE  operator'[u] = operator[u]
  BY <1>1, <1>3, AfterCommit
<1>4. CASE CommitChapter
  <2>1. operator'[u] = operator[u]
    BY <1>1, <1>4 DEF CommitChapter
  <2>2. QED
    BY <1>2, <2>1
<1>5. ASSUME NEW v \in Usernames, Deactivate(v)
      PROVE  operator'[u] = operator[u]
  <2>1. operator[v].active /\ operator' = [operator EXCEPT ![v].active = FALSE]
    BY <1>5 DEF Deactivate
  <2>2. v # u
    BY <1>1, <2>1
  <2>3. QED
    BY <1>1, <2>1, <2>2
<1>6. QED
  BY <1>2, <1>3, <1>4, <1>5
     DEF AccountStep, BootWorker, StartUp, LookForAdmin, FindByName, FlushOperator,
         CheckToken, KeepToken, IssueToken, StopWorker, Rollback, BeginChapter,
         Killed, Rerun, Revoke, DropToken, byHandRest, accountRest

\* A token that is revoked stays so, unless it is deleted.
LEMMA RevokedStays ==
  ASSUME AccountsInv, Administer, NEW u \in Usernames, token[u] = "revoked"
  PROVE  token'[u] = "revoked"
<1>1. token \in [Usernames -> {"none", "live", "revoked"}]
  BY AccountTypes DEF AccountsInv
<1>2. CASE token' = token
  BY <1>2
<1>3. ASSUME NEW w \in Workers, IssueToken(w)
      PROVE  token'[u] = "revoked"
  BY <1>1, <1>3 DEF IssueToken
<1>4. CASE CommitChapter
  <2>1. u \notin Issue
    BY <1>4 DEF CommitChapter, AccountsInv, SeedsItsOwn, Issue
  <2>2. QED
    BY <1>4, <2>1 DEF CommitChapter
<1>5. ASSUME NEW v \in Usernames, Revoke(v)
      PROVE  token'[u] = "revoked"
  BY <1>1, <1>5 DEF Revoke
<1>6. QED
  BY <1>2, <1>3, <1>4, <1>5
     DEF Administer, BootWorker, StartUp, LookForAdmin, FindByName, FlushOperator,
         CheckToken, StopWorker, BeginChapter, Killed, Rerun, Deactivate

\* Every step keeps barred requests barred for a reason.
LEMMA BarredStep ==
  ASSUME AccountsInv, RequestsTyped, BarredStays, [ServiceNext]_serviceVars
  PROVE  BarredStays'
<1>1. AccountStep
  BY StepsOfAccounts
<1>2. /\ \A r \in Requests : request[r].at # "idle" => request[r] \in RequestRecords
      /\ request \in [Requests -> {NoRequest} \cup RequestRecords]
  BY DEF RequestsTyped, NoRequest
<1>3. \A u \in Usernames : Deactivated(u) => Deactivated(u)'
  BY <1>1, DeactivatedStays
<1>4. ASSUME \A u \in Usernames : token[u] = "revoked" => token'[u] = "revoked",
             NEW r \in Requests, request'[r] = request[r]
      PROVE  Reasoned(r)'
  <2>1. CASE request[r].at \in {"token", "operator"}
    <3>1. PICK u \in Usernames : request[r].user = u
      BY <1>2, <2>1 DEF RequestRecords
    <3>2. LockedOut(u) => LockedOut(u)'
      BY <1>3, <1>4 DEF LockedOut
    <3>3. /\ request[r].at = "token" /\ request[r].barred => LockedOut(u)
          /\ request[r].at = "operator" /\ request[r].barred => Deactivated(u)
      BY <3>1 DEF BarredStays, Reasoned
    <3>4. QED
      BY <1>3, <1>4, <3>1, <3>2, <3>3, HasReason
  <2>2. CASE request[r].at \notin {"token", "operator"}
    BY <1>4, <2>2, NeedsNoReason
  <2>3. QED
    BY <2>1, <2>2
<1>5. ASSUME NEW u \in Usernames, Pardon(u), NEW r \in Requests
      PROVE  Reasoned(r)'
  <2>1. CASE request[r].at \in {"token", "operator"}
    <3>1. PICK v \in Usernames : request[r].user = v
      BY <1>2, <2>1 DEF RequestRecords
    <3>2. /\ request'[r].at = request[r].at /\ request'[r].user = v
          /\ request'[r].barred = IF v = u THEN Deactivated(u) ELSE request[r].barred
      BY <1>5, <2>1, <3>1, PardonedRequests
    <3>3. CASE v = u
      <4>1. request'[r].barred => Deactivated(v)
        BY <3>2, <3>3
      <4>2. request'[r].barred => Deactivated(v)' /\ LockedOut(v)'
        BY <1>3, <4>1 DEF LockedOut
      <4>3. QED
        BY <3>2, <4>2, HasReason
    <3>4. CASE v # u
      <4>1. token'[v] = token[v]
        BY <1>5, <3>4, AccountTypes DEF Pardon, DropToken, AccountsInv
      <4>2. LockedOut(v) => LockedOut(v)'
        BY <1>3, <4>1 DEF LockedOut
      <4>3. request'[r].barred = request[r].barred
        BY <3>2, <3>4
      <4>4. /\ request[r].at = "token" /\ request[r].barred => LockedOut(v)
            /\ request[r].at = "operator" /\ request[r].barred => Deactivated(v)
        BY <3>1 DEF BarredStays, Reasoned
      <4>5. QED
        BY <1>3, <3>2, <4>2, <4>3, <4>4, HasReason
    <3>5. QED
      BY <3>3, <3>4
  <2>2. CASE request[r].at \notin {"token", "operator"}
    <3>1. request'[r].at = request[r].at
      BY <1>5, PardonedRequests
    <3>2. QED
      BY <2>2, <3>1, NeedsNoReason
  <2>3. QED
    BY <2>1, <2>2
<1>6. CASE \E u \in Usernames : Pardon(u)
  BY <1>5, <1>6 DEF BarredStays
<1>7. ASSUME NEW r \in Requests, Serve(r)
      PROVE  BarredStays'
  <2>1. \A d \in Requests \ {r} : request'[d] = request[d]
    BY <1>2, <1>7 DEF Serve, ReadToken, Create, Begin, RunPlanned, Read, Show, Decline, ToolStep, Perish,
          SubmitAction, Arrive, GoOn, Answered
  <2>2. UNCHANGED <<operator, token>>
    BY <1>7 DEF Serve, ReadToken, Create, Begin, RunPlanned, Read, Show, Decline, ToolStep, Perish,
          SubmitAction, Arrive, accountVars, accountRest
  <2>3. \A u : (LockedOut(u) <=> LockedOut(u)') /\ (Deactivated(u) <=> Deactivated(u)')
    BY <2>2 DEF LockedOut, Deactivated, Exists
  <2>4. Reasoned(r)'
    <3>1. CASE request'[r] = request[r]
      BY <1>4, <2>2, <3>1
    <3>2. CASE request'[r].at \notin {"token", "operator"}
      BY <3>2, NeedsNoReason
    <3>3. ASSUME NEW u, NEW kind, Arrive(r, u, kind)
          PROVE  request'[r].at = "token" /\ request'[r].user = u
                 /\ request'[r].barred = LockedOut(u)
      <4>1. PICK b \in BOOLEAN : b = LockedOut(u)
        BY YesOrNo
      <4>2. request' = [request EXCEPT ![r] =
                  [at |-> "token", user |-> u, kind |-> kind, barred |-> b]]
        BY <3>3, <4>1 DEF Arrive
      <4>3. request'[r] = [at |-> "token", user |-> u, kind |-> kind, barred |-> b]
        BY <1>2, <4>2
      <4>4. QED
        BY <4>1, <4>3
    <3>4. CASE ReadToken(r) /\ TokenAccepted(request[r].user)
      <4>1. /\ request'[r].at = "operator" /\ request'[r].user = request[r].user
            /\ request'[r].barred = request[r].barred
            /\ request[r].at = "token" /\ token[request[r].user] = "live"
        BY <1>2, <3>4 DEF ReadToken, GoOn, In, TokenAccepted, RequestRecords
      <4>2. PICK u : request[r].user = u
        OBVIOUS
      <4>3. request[r].barred => Deactivated(u)
        BY <4>1, <4>2 DEF BarredStays, Reasoned, LockedOut
      <4>4. QED
        BY <2>3, <4>1, <4>2, <4>3, HasReason
    <3>5. CASE Answered(r)
      <4>1. request'[r] = NoRequest
        BY <1>2, <3>5 DEF Answered
      <4>2. QED
        BY <4>1, NeedsNoReason DEF NoRequest
    <3>6. ASSUME NEW stage \in {"starting", "tool", "reading"}, GoOn(r, stage), request[r].at # "idle"
          PROVE  request'[r].at \notin {"token", "operator"}
      BY <1>2, <3>6 DEF GoOn, RequestRecords
    <3>7. CASE \E call \in Traffic : Arrive(r, call[1], call[2])
      <4>1. PICK u, kind : Arrive(r, u, kind)
        BY <3>7
      <4>2. QED
        BY <2>3, <3>3, <4>1, HasReason
    <3>8. CASE Create(r) \/ RunPlanned(r) \/ Read(r) \/ \E j \in Submitted : SubmitAction(r, j)
      <4>1. /\ request[r].at # "idle"
            /\ GoOn(r, "starting") \/ GoOn(r, "tool") \/ GoOn(r, "reading")
        BY <3>8 DEF Create, RunPlanned, Read, SubmitAction, Admitted, In
      <4>2. QED
        BY <3>2, <3>6, <4>1
    <3>9. CASE ToolStep(r)
      BY <3>1, <3>5, <3>9 DEF ToolStep, Answered
    <3>10. QED
      BY <1>7, <3>4, <3>5, <3>7, <3>8, <3>9 DEF Serve, ReadToken, Begin, Show, Decline, Perish
  <2>5. \A d \in Requests \ {r} : Reasoned(d)'
    BY <1>4, <2>1, <2>2
  <2>6. QED
    BY <2>4, <2>5 DEF BarredStays
<1>8. CASE Administer /\ UNCHANGED <<effectVars, deskVars>>
  <2>1. \A u \in Usernames : token[u] = "revoked" => token'[u] = "revoked"
    BY <1>8, RevokedStays
  <2>2. request' = request
    BY <1>8 DEF deskVars
  <2>3. QED
    BY <1>4, <2>1, <2>2 DEF BarredStays
<1>9. CASE UNCHANGED serviceVars
  BY <1>4, <1>9 DEF BarredStays, serviceVars, accountVars, deskVars
<1>10. QED
  BY <1>6, <1>7, <1>8, <1>9 DEF ServiceNext

\* A machine's role lets it read and no more.
LEMMA MachinesMayNotExecute ==
  ASSUME AccountsInv, NEW m \in Machines, Exists(m)
  PROVE  ~Permitted(m, "execute")
<1>1. m \in Usernames
  BY DEF Usernames
<1>2. operator[m] \in [role : Roles, active : BOOLEAN]
  BY <1>1, AccountTypes DEF AccountsInv, Exists
<1>3. operator[m].role \in Roles
  BY <1>2
<1>4. operator[m].role = "VIEWER"
  BY <1>3 DEF AccountsInv, MachinesOnlyView, Roles
<1>5. RolePermissions["VIEWER"] = {"read"}
  BY DEF RolePermissions
<1>6. QED
  BY <1>4, <1>5 DEF Permitted

\* A request that is let in is not barred, an integration's does not execute, and nobody
\* else's comes by a scope.
Entitled(r) ==
    /\ ~request[r].barred
    /\ request[r].user \in Machines => request[r].kind \notin {"create", "step"}
    /\ request[r].user \notin Machines => request[r].kind \notin {"submit", "poll"}

LEMMA EntersEntitled ==
  ASSUME AccountsInv, RequestsTyped, BarredStays, [ServiceNext]_serviceVars, NEW r \in Requests,
         request[r].at = "operator", request'[r].at \in {"starting", "tool", "reading"}
  PROVE  Entitled(r)
<1>1. request[r] \in RequestRecords /\ request \in [Requests -> {NoRequest} \cup RequestRecords]
  BY DEF RequestsTyped, NoRequest
<1>2. ASSUME NEW kind \in Endpoints, Admitted(r, kind)
      PROVE  Entitled(r)
  <2>1. ~request[r].barred
    BY <1>2 DEF BarredStays, Reasoned, Admitted, OperatorAccepted, Deactivated
  <2>2. ASSUME request[r].user \in Machines, kind \in {"create", "step"}
        PROVE  FALSE
    <3>1. Permitted(request[r].user, "execute") /\ Exists(request[r].user)
      BY <1>2, <2>2 DEF Admitted, Right, OperatorAccepted
    <3>2. QED
      BY <2>2, <3>1, MachinesMayNotExecute
  <2>3. ASSUME kind \in {"submit", "poll"}
        PROVE  request[r].user \in Machines
    BY <1>2, <2>3 DEF Admitted, Right, Permitted
  <2>4. request[r].kind = kind
    BY <1>2 DEF Admitted
  <2>5. QED
    BY <2>1, <2>2, <2>3, <2>4 DEF Entitled
<1>3. request'[r] # request[r]
  OBVIOUS
<1>4. PICK d \in Requests : Serve(d)
  <2>1. CASE \E u \in Usernames : Pardon(u)
    BY <2>1, PardonedRequests
  <2>2. QED
    BY <1>3, <2>1 DEF ServiceNext, serviceVars, deskVars
<1>5. d = r
  BY <1>1, <1>3, <1>4 DEF Serve, ReadToken, Create, Begin, RunPlanned, Read, Show, Decline, ToolStep, Perish,
        SubmitAction, Arrive, GoOn, Answered
<1>6. CASE Create(r) \/ RunPlanned(r) \/ Read(r) \/ \E j \in Submitted : SubmitAction(r, j)
  BY <1>2, <1>6 DEF Create, RunPlanned, Read, SubmitAction, Endpoints
<1>7. ~Answered(r)
  <2>1. Answered(r) => request'[r] = NoRequest
    BY <1>1 DEF Answered
  <2>2. QED
    BY <2>1 DEF NoRequest
<1>8. QED
  BY <1>3, <1>4, <1>5, <1>6, <1>7 DEF Serve, ReadToken, Begin, Show, Decline, ToolStep, Perish, Arrive,
        Answered, In

\* Whoever is locked out before a request arrives is not let in with it, whatever becomes
\* of the accounts between the look at the token and the look at the operator; an
\* integration is not let in to start or step an execution, and who is none not by a scope
\* (get_current_operator, require_permission, require_scope).
THEOREM EntitledEnter == ServiceSpec => OnlyTheEntitledEnter
<1>1. ServiceInit => RequestsTyped /\ BarredStays
  <2> SUFFICES ASSUME ServiceInit PROVE RequestsTyped /\ BarredStays
    OBVIOUS
  <2>1. /\ job = [c \in Requests |-> Effects!Done]
        /\ request = [r \in Requests |-> NoRequest]
    BY DEF ServiceInit, Effects!EffectsInit
  <2>2. \A c \in Requests : ~Effects!Working(c) /\ request[c].at = "idle"
    BY <2>1 DEF Effects!Working, Effects!Done, NoRequest
  <2>3. QED
    BY <2>1, <2>2 DEF RequestsTyped, BarredStays, Reasoned
<1>2. /\ PlanIsKnown /\ RowsInv /\ AccountsInv /\ RequestsTyped /\ BarredStays
      /\ [ServiceNext]_serviceVars
      => RequestsTyped' /\ BarredStays'
  BY RequestsStep, BarredStep
<1>3. AccountsInv /\ RequestsTyped /\ BarredStays /\ [ServiceNext]_serviceVars
      => [\A r \in Requests :
            request[r].at = "operator" /\ request'[r].at \in {"starting", "tool", "reading"}
            => /\ ~request[r].barred
               /\ request[r].user \in Machines => request[r].kind \notin {"create", "step"}
               /\ request[r].user \notin Machines => request[r].kind \notin {"submit", "poll"}
         ]_serviceVars
  BY EntersEntitled DEF Entitled
<1>4. QED
  BY <1>1, <1>2, <1>3, RowsAreKept, AccountsAreKept, PTL DEF ServiceSpec, OnlyTheEntitledEnter

=============================================================================
