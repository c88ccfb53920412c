------------------------ MODULE ToolGateway_proofs --------------------------
(* No tool runs without the gateway's two judgements, its answers are on     *)
(* record, and no data leaves once customer data was read, whatever the      *)
(* policies, permissions, calls, edits and crashes are; and what an edit of  *)
(* the policies may change.                                                  *)
EXTENDS ToolGateway, TLAPS

-----------------------------------------------------------------------------
(* The two engines                                                           *)

LEMMA PolicyDecides ==
  \A policies, input : Policy!Evaluate(policies, input).decision \in Policy!Actions
<1>1. \A action \in Policy!Actions : \A policy : Policy!Decided(action, policy).decision \in Policy!Actions
  BY DEF Policy!Decided
<1>2. \A matched : Policy!Resolve(matched).decision \in Policy!Actions
  <2> TAKE matched
  <2> DEFINE top == {p \in matched : \A q \in matched : q.priority <= p.priority}
             shared == {a \in Policy!Actions : \A p \in top : p.action = a}
  <2>1. CASE shared = {}
    BY <1>1, <2>1 DEF Policy!Resolve, Policy!Actions
  <2>2. CASE shared # {}
    <3>1. (CHOOSE a \in shared : TRUE) \in Policy!Actions
      BY <2>2
    <3> QED
      BY <1>1, <2>2, <3>1 DEF Policy!Resolve
  <2> QED
    BY <2>1, <2>2
<1>3. \A rank, input : Policy!Verdict(rank, input).decision \in Policy!Actions
  BY <1>1, <1>2 DEF Policy!Verdict, Policy!Actions
<1> QED
  BY <1>1, <1>3 DEF Policy!Evaluate, Policy!Actions

LEMMA RiskDecides ==
  ASSUME NEW signals, NEW financial \in Int, NEW failed \in BOOLEAN
  PROVE  Risk!Assess(signals, financial, failed).action \in Policy!Actions
<1>1. Risk!Sum(signals, financial) \in Int
  BY DEF Risk!Sum, Risk!Points
<1>2. Risk!Clamp(Risk!Sum(signals, financial)) \in Int
  BY <1>1 DEF Risk!Clamp
<1>3. \A score \in Int : Risk!ActionFor(score) \in Policy!Actions
  BY DEF Risk!ActionFor, Risk!Level, Policy!Actions
<1> QED
  BY <1>2, <1>3 DEF Risk!Assess, Policy!Actions

\* combine_decisions: an ALLOW takes two, and neither can undo the other.
LEMMA CombineFacts ==
  ASSUME NEW a \in Policy!Actions, NEW b \in Policy!Actions
  PROVE  /\ Risk!Combine(a, b) \in Policy!Actions
         /\ Risk!Combine(a, b) = "ALLOW" <=> a = "ALLOW" /\ b = "ALLOW"
         /\ Risk!Combine(a, b) = "BLOCK" <=> a = "BLOCK" \/ b = "BLOCK"
  BY DEF Risk!Combine, Risk!Severity, Policy!Actions

LEMMA FinancialIsInt ==
  \A amount \in Int : Risk!FinancialWeight(amount) \in Int
  BY DEF Risk!FinancialWeight

-----------------------------------------------------------------------------
(* Types                                                                     *)

CallRecords ==
    [at : Labels, input : Inputs, permission : Permissions, policy : Policy!Actions,
     matched : BOOLEAN, risk : Policy!Actions, named : BOOLEAN, outcome : BOOLEAN]

\* A refund's amount was validated before anything weighs it.
Validated(c) ==
    call[c].at \in {"opening", "evaluating", "deciding", "assessing", "weighing", "ending"} =>
        call[c].input.valid

TypeInv ==
    /\ TypeOK
    /\ \A c \in Calls : Validated(c)

LEMMA LocalType ==
  ASSUME NEW label \in Labels, NEW input \in Inputs
  PROVE  /\ Local(label, input) \in CallRecords
         /\ Local(label, input).at = label
         /\ Local(label, input).input = input
         /\ Local(label, input).policy = "ALLOW"
  BY DEF Local, CallRecords, Permissions, Policy!Actions

LEMMA TypesInit == Init => TypeInv
<1> SUFFICES ASSUME Init PROVE TypeInv
  OBVIOUS
<1>1. (CHOOSE input \in Inputs : TRUE) \in Inputs
  BY GatewayAssumption
<1>2. "idle" \in Labels
  BY DEF Labels
<1>3. \A c \in Calls : call[c] \in CallRecords /\ call[c].at = "idle"
  BY <1>1, <1>2, LocalType DEF Init
<1>4. call \in [Calls -> CallRecords]
  BY <1>3 DEF Init
<1>5. Gate!GateTypeOK
  BY DEF Init, Gate!GateInit, Gate!GateTypeOK, Gate!Verdicts
<1>6. TypeOK
  BY <1>4, <1>5, GatewayAssumption DEF Init, TypeOK, CallRecords, Permissions, RequestStatuses, Maybe
<1> QED
  BY <1>3, <1>6 DEF TypeInv, Validated

-----------------------------------------------------------------------------
(* What the actions are made of                                              *)

\* The other calls are where they were.
OthersStay(c) == \A b \in Calls : b # c => call'[b] = call[b]

LEMMA Logs ==
  ASSUME TypeOK, NEW c \in Calls, NEW events \in Seq(Events), Log(c, events)
  PROVE  /\ trail' \in [Calls -> Seq(Events)]
         /\ trail'[c] = trail[c] \o events
         /\ \A b \in Calls : b # c => trail'[b] = trail[b]
<1>1. trail[c] \o events \in Seq(Events)
  BY DEF TypeOK
<1> QED
  BY <1>1 DEF Log, TypeOK

LEMMA Goes ==
  ASSUME TypeOK, NEW c \in Calls, NEW label \in Labels, Goto(c, label)
  PROVE  /\ call' \in [Calls -> CallRecords]
         /\ call'[c].at = label
         /\ call'[c].input = call[c].input
         /\ call'[c].permission = call[c].permission
         /\ call'[c].policy = call[c].policy
         /\ call'[c].risk = call[c].risk
         /\ OthersStay(c)
<1>1. call \in [Calls -> CallRecords]
  BY DEF TypeOK, CallRecords
<1>2. [call[c] EXCEPT !.at = label] \in CallRecords
  BY <1>1 DEF CallRecords
<1>3. call'[c] = [call[c] EXCEPT !.at = label]
  BY <1>1 DEF Goto
<1>4. call' \in [Calls -> CallRecords] /\ OthersStay(c)
  BY <1>1, <1>2 DEF Goto, OthersStay
<1> QED
  BY <1>1, <1>3, <1>4 DEF CallRecords

LEMMA Returns ==
  ASSUME TypeOK, NEW c \in Calls, NEW label \in Labels, Return(c, label)
  PROVE  /\ call' \in [Calls -> CallRecords]
         /\ call'[c] = Local(label, call[c].input)
         /\ call'[c].at = label
         /\ OthersStay(c)
<1>1. call \in [Calls -> CallRecords] /\ call[c].input \in Inputs
  BY DEF TypeOK, CallRecords
<1>2. Local(label, call[c].input) \in CallRecords /\ Local(label, call[c].input).at = label
  BY <1>1, LocalType
<1> QED
  BY <1>1, <1>2 DEF Return, OthersStay

\* A step that keeps its own columns in their types keeps the invariant.
LEMMA StepTyped ==
  ASSUME TypeInv, NEW c \in Calls,
         execution' \in {"RUNNING", "WAITING_APPROVAL", "ENDED"},
         UNCHANGED <<permission, enabled>>,
         request' \in [Calls -> RequestStatuses],
         decided' \in [Calls -> Maybe(Policy!Actions)],
         assessed' \in [Calls -> Maybe(Policy!Actions)],
         incidents' \subseteq Calls,
         trail' \in [Calls -> Seq(Events)],
         call' \in [Calls -> CallRecords],
         OthersStay(c), Validated(c)',
         Gate!GateTypeOK',
         order' \in Seq(Calls),
         edits' \in 0 .. MaxEdits, faults' \in 0 .. MaxFaults
  PROVE  TypeInv'
<1>1. TypeOK'
  BY DEF TypeInv, TypeOK, CallRecords
<1>2. \A b \in Calls : Validated(b)'
  BY DEF TypeInv, Validated, OthersStay
<1> QED
  BY <1>1, <1>2 DEF TypeInv

LEMMA CallSteps ==
  ASSUME TypeInv, NEW c \in Calls, Execute(c)
  PROVE  TypeInv'
<1> USE DEF Elsewhere, settings, rows, gate, bounds, Set
<1>1. TypeOK /\ Validated(c) /\ call \in [Calls -> CallRecords] /\ call[c] \in CallRecords
  BY DEF TypeInv, TypeOK, CallRecords
<1>2. /\ execution \in {"RUNNING", "WAITING_APPROVAL", "ENDED"}
      /\ request \in [Calls -> RequestStatuses]
      /\ decided \in [Calls -> Maybe(Policy!Actions)]
      /\ assessed \in [Calls -> Maybe(Policy!Actions)]
      /\ incidents \subseteq Calls
      /\ trail \in [Calls -> Seq(Events)]
      /\ Gate!GateTypeOK
      /\ order \in Seq(Calls)
      /\ edits \in 0 .. MaxEdits /\ faults \in 0 .. MaxFaults
  BY <1>1 DEF TypeOK
<1>3. CASE Begin(c)
  <2> DEFINE label == IF execution = "RUNNING" THEN "announcing" ELSE "FAILED"
  <2>1. PICK input \in Inputs : call' = [call EXCEPT ![c] = Local(label, input)]
    BY <1>3 DEF Begin
  <2>2. label \in Labels
    BY DEF Labels, Results
  <2>3. Local(label, input) \in CallRecords /\ Local(label, input).at = label
    BY <2>2, LocalType
  <2>4. call' \in [Calls -> CallRecords] /\ OthersStay(c) /\ Validated(c)'
    BY <1>1, <2>1, <2>3 DEF OthersStay, Validated
  <2>5. Gate!GateTypeOK'
    BY <1>2, <1>3 DEF Begin, Gate!GateTypeOK
  <2> QED
    BY <1>2, <1>3, <2>4, <2>5, StepTyped DEF Begin
<1>4. CASE Announce(c)
  <2>1. <<"TOOL_REQUESTED">> \in Seq(Events) /\ "looking" \in Labels
    BY DEF Events, Labels
  <2>2. trail' \in [Calls -> Seq(Events)]
    BY <1>1, <1>4, <2>1, Logs DEF Announce
  <2>3. call' \in [Calls -> CallRecords] /\ OthersStay(c) /\ Validated(c)'
    BY <1>1, <1>4, <2>1, Goes DEF Announce, Validated
  <2>4. Gate!GateTypeOK'
    BY <1>2, <1>4 DEF Announce, Gate!GateTypeOK
  <2> QED
    BY <1>2, <1>4, <2>2, <2>3, <2>4, StepTyped DEF Announce
<1>5. CASE Look(c)
  <2>1. CASE call[c].input.tool \in Registered /\ call[c].input.valid
    <3> DEFINE held == [call[c] EXCEPT !.at = "opening", !.permission = permission[call[c].input.tool]]
    <3>1. permission[call[c].input.tool] \in Permissions
      BY <1>1, <2>1 DEF TypeOK
    <3>2. held \in CallRecords /\ held.at = "opening" /\ held.input = call[c].input
      BY <1>1, <3>1 DEF CallRecords, Labels
    <3>3. call' = [call EXCEPT ![c] = held]
      BY <1>1, <1>5, <2>1 DEF Look
    <3>4. call' \in [Calls -> CallRecords] /\ OthersStay(c) /\ Validated(c)'
      BY <1>1, <2>1, <3>2, <3>3 DEF OthersStay, Validated
    <3>5. Gate!GateTypeOK'
      BY <1>2, <1>5 DEF Look, Gate!GateTypeOK
    <3> QED
      BY <1>2, <1>5, <3>4, <3>5, StepTyped DEF Look
  <2>2. CASE ~(call[c].input.tool \in Registered /\ call[c].input.valid)
    <3>1. "refusing" \in Labels /\ Goto(c, "refusing")
      BY <1>5, <2>2 DEF Look, Labels
    <3>2. call' \in [Calls -> CallRecords] /\ OthersStay(c) /\ Validated(c)'
      BY <1>1, <3>1, Goes DEF Validated
    <3>3. Gate!GateTypeOK'
      BY <1>2, <1>5 DEF Look, Gate!GateTypeOK
    <3> QED
      BY <1>2, <1>5, <3>2, <3>3, StepTyped DEF Look
  <2> QED
    BY <2>1, <2>2
<1>6. CASE Refuse(c)
  <2>1. <<"TOOL_FAILED">> \in Seq(Events) /\ "FAILED" \in Labels
    BY DEF Events, Labels, Results
  <2>2. trail' \in [Calls -> Seq(Events)]
    BY <1>1, <1>6, <2>1, Logs DEF Refuse
  <2>3. call' \in [Calls -> CallRecords] /\ OthersStay(c) /\ Validated(c)'
    BY <1>1, <1>6, <2>1, Returns DEF Refuse, Validated
  <2>4. Gate!GateTypeOK'
    BY <1>2, <1>6 DEF Refuse, Gate!GateTypeOK
  <2>5. request' \in [Calls -> RequestStatuses]
    BY <1>1, <1>2, <1>6 DEF Refuse, RequestStatuses
  <2> QED
    BY <1>2, <1>6, <2>2, <2>3, <2>4, <2>5, StepTyped DEF Refuse
<1>7. CASE Deny(c)
  <2>1. <<"PERMISSION_CHECKED", "ACTION_DENIED">> \in Seq(Events) /\ "BLOCKED" \in Labels
    BY DEF Events, Labels, Results
  <2>2. trail' \in [Calls -> Seq(Events)]
    BY <1>1, <1>7, <2>1, Logs DEF Deny
  <2>3. call' \in [Calls -> CallRecords] /\ OthersStay(c) /\ Validated(c)'
    BY <1>1, <1>7, <2>1, Returns DEF Deny, Validated
  <2>4. Gate!GateTypeOK'
    BY <1>2, <1>7 DEF Deny, Gate!GateTypeOK
  <2>5. request' \in [Calls -> RequestStatuses]
    BY <1>1, <1>2, <1>7 DEF Deny, RequestStatuses
  <2> QED
    BY <1>2, <1>7, <2>2, <2>3, <2>4, <2>5, StepTyped DEF Deny
<1>8. CASE Open(c)
  <2>1. /\ <<"PERMISSION_CHECKED">> \in Seq(Events)
        /\ <<"PERMISSION_CHECKED", "POLICY_EVALUATION_STARTED">> \in Seq(Events)
        /\ "evaluating" \in Labels /\ "assessing" \in Labels
    BY DEF Events, Labels
  <2>2. trail' \in [Calls -> Seq(Events)]
    BY <1>1, <1>8, <2>1, Logs DEF Open
  <2>3. call' \in [Calls -> CallRecords] /\ OthersStay(c) /\ Validated(c)'
    BY <1>1, <1>8, <2>1, Goes DEF Open, Validated, At
  <2>4. Gate!GateTypeOK'
    BY <1>2, <1>8 DEF Open, Gate!GateTypeOK
  <2>5. request' \in [Calls -> RequestStatuses]
    BY <1>1, <1>2, <1>8 DEF Open, RequestStatuses
  <2> QED
    BY <1>2, <1>8, <2>2, <2>3, <2>4, <2>5, StepTyped DEF Open
<1>9. CASE Evaluate(c)
  <2>1. PICK action \in Policy!Actions, matched \in BOOLEAN :
           call' = [call EXCEPT ![c].at = "deciding", ![c].policy = action,
                                ![c].matched = matched]
    <3> DEFINE result == Policy!Evaluate(enabled, call[c].input)
    <3>1. result.decision \in Policy!Actions /\ "BLOCK" \in Policy!Actions
      BY PolicyDecides DEF Policy!Actions
    <3>2. CASE call' = [call EXCEPT ![c].at = "deciding", ![c].policy = result.decision,
                                    ![c].matched = (result.policy = "MATCHED")]
      BY <3>1, <3>2
    <3>3. CASE call' = [call EXCEPT ![c].at = "deciding", ![c].policy = "BLOCK"]
      <4>1. call' = [call EXCEPT ![c].at = "deciding", ![c].policy = "BLOCK",
                                 ![c].matched = call[c].matched]
        BY <1>1, <3>3 DEF CallRecords
      <4> QED
        BY <1>1, <3>1, <4>1 DEF CallRecords
    <3> QED
      BY <1>9, <3>2, <3>3 DEF Evaluate
  <2> DEFINE held == [call[c] EXCEPT !.at = "deciding", !.policy = action, !.matched = matched]
  <2>2. held \in CallRecords /\ held.at = "deciding" /\ held.input = call[c].input
    BY <1>1 DEF CallRecords, Labels
  <2>3. call' = [call EXCEPT ![c] = held]
    BY <1>1, <2>1
  <2>4. call' \in [Calls -> CallRecords] /\ OthersStay(c) /\ Validated(c)'
    BY <1>1, <1>9, <2>2, <2>3 DEF OthersStay, Validated, Evaluate, At
  <2>5. Gate!GateTypeOK'
    BY <1>2, <1>9 DEF Evaluate, Gate!GateTypeOK
  <2> QED
    BY <1>2, <1>9, <2>4, <2>5, StepTyped DEF Evaluate
<1>10. CASE Decide(c)
  <2> DEFINE events == (IF call[c].matched THEN <<"POLICY_MATCHED">> ELSE <<>>)
                          \o <<PolicyEvent(call[c].policy)>>
  <2>1. PolicyEvent(call[c].policy) \in Events /\ call[c].policy \in Policy!Actions
    BY <1>1 DEF PolicyEvent, CallRecords, Events, Policy!Actions
  <2>2. events \in Seq(Events) /\ "BLOCKED" \in Labels /\ "assessing" \in Labels
    <3>1. /\ <<>> \in Seq(Events) /\ <<"POLICY_MATCHED">> \in Seq(Events)
          /\ <<PolicyEvent(call[c].policy)>> \in Seq(Events)
      BY <2>1 DEF Events
    <3>2. (IF call[c].matched THEN <<"POLICY_MATCHED">> ELSE <<>>) \in Seq(Events)
      BY <3>1
    <3>3. events \in Seq(Events)
      BY <3>1, <3>2
    <3> QED
      BY <3>3 DEF Labels, Results
  <2>3. Log(c, events)
    BY <1>10 DEF Decide
  <2>4. trail' \in [Calls -> Seq(Events)]
    BY <1>1, <2>2, <2>3, Logs
  <2>5. call' \in [Calls -> CallRecords] /\ OthersStay(c) /\ Validated(c)'
    <3>1. CASE Return(c, "BLOCKED")
      BY <1>1, <2>2, <3>1, Returns DEF Validated
    <3>2. CASE Goto(c, "assessing")
      BY <1>1, <1>10, <2>2, <3>2, Goes DEF Validated, Decide, At
    <3> QED
      BY <1>10, <3>1, <3>2 DEF Decide
  <2>6. Gate!GateTypeOK'
    BY <1>2, <1>10 DEF Decide, Gate!GateTypeOK
  <2>7. request' \in [Calls -> RequestStatuses]
    BY <1>2, <1>10 DEF Decide, RequestStatuses
  <2>8. decided' \in [Calls -> Maybe(Policy!Actions)]
    BY <1>2, <1>10, <2>1 DEF Decide, Maybe
  <2> QED
    BY <1>2, <1>10, <2>4, <2>5, <2>6, <2>7, <2>8, StepTyped DEF Decide
<1>11. CASE Assess(c)
  <2>1. PICK action \in Policy!Actions, named \in BOOLEAN :
           call' = [call EXCEPT ![c].at = "weighing", ![c].risk = action, ![c].named = named]
    <3> DEFINE financial == IF call[c].input.tool = "refund_payment"
                            THEN Risk!FinancialWeight(call[c].input.amount) ELSE 0
    <3>1. call[c].input \in Inputs /\ call[c].input.valid
      BY <1>1, <1>11 DEF CallRecords, Validated, Assess, At
    <3>2. financial \in Int
      BY <3>1, FinancialIsInt, GatewayAssumption
    <3>3. PICK failed \in BOOLEAN, found \in SUBSET Risk!Signals :
             call' = [call EXCEPT ![c].at = "weighing",
                                  ![c].risk = Risk!Assess(found, financial, failed).action,
                                  ![c].named = (found # {})]
      BY <1>11 DEF Assess
    <3>4. Risk!Assess(found, financial, failed).action \in Policy!Actions
      BY <3>2, RiskDecides
    <3> QED
      BY <3>3, <3>4
  <2> DEFINE held == [call[c] EXCEPT !.at = "weighing", !.risk = action, !.named = named]
  <2>2. held \in CallRecords /\ held.at = "weighing" /\ held.input = call[c].input
    BY <1>1 DEF CallRecords, Labels
  <2>3. call' = [call EXCEPT ![c] = held]
    BY <1>1, <2>1
  <2>4. call' \in [Calls -> CallRecords] /\ OthersStay(c) /\ Validated(c)'
    BY <1>1, <1>11, <2>2, <2>3 DEF OthersStay, Validated, Assess, At
  <2>5. Gate!GateTypeOK'
    BY <1>2, <1>11 DEF Assess, Gate!GateTypeOK
  <2> QED
    BY <1>2, <1>11, <2>4, <2>5, StepTyped DEF Assess
<1>12. CASE Weigh(c)
  <2>1. <<"RISK_ASSESSED">> \in Seq(Events) /\ "ending" \in Labels
    BY DEF Events, Labels
  <2>2. trail' \in [Calls -> Seq(Events)]
    BY <1>1, <1>12, <2>1, Logs DEF Weigh
  <2>3. call' \in [Calls -> CallRecords] /\ OthersStay(c) /\ Validated(c)'
    BY <1>1, <1>12, <2>1, Goes DEF Weigh, Validated, At
  <2>4. Gate!GateTypeOK'
    BY <1>2, <1>12 DEF Weigh, Gate!GateTypeOK
  <2>5. call[c].risk \in Policy!Actions /\ "ALLOW" \in Policy!Actions
    BY <1>1 DEF CallRecords, Policy!Actions
  <2>6. /\ assessed' \in [Calls -> Maybe(Policy!Actions)]
        /\ decided' \in [Calls -> Maybe(Policy!Actions)]
    BY <1>2, <1>12, <2>5 DEF Weigh, Maybe
  <2> QED
    BY <1>2, <1>12, <2>2, <2>3, <2>4, <2>6, StepTyped DEF Weigh
<1>13. Escalated(c) \in Seq(Events)
  <2>1. <<>> \in Seq(Events) /\ <<"RISK_ESCALATED">> \in Seq(Events)
    BY DEF Events
  <2> QED
    BY <2>1 DEF Escalated
<1>14. CASE Block(c)
  <2> DEFINE events == IF call[c].named
                       THEN Escalated(c) \o <<"ACTION_BLOCKED_BY_RISK", "SECURITY_INCIDENT_CREATED">>
                       ELSE Escalated(c) \o <<"ACTION_BLOCKED_BY_RISK">>
  <2>1. events \in Seq(Events) /\ "BLOCKED" \in Labels
    <3>1. /\ <<"ACTION_BLOCKED_BY_RISK", "SECURITY_INCIDENT_CREATED">> \in Seq(Events)
          /\ <<"ACTION_BLOCKED_BY_RISK">> \in Seq(Events)
      BY DEF Events
    <3> QED
      BY <1>13, <3>1 DEF Labels, Results
  <2>2. Log(c, events)
    BY <1>14 DEF Block
  <2>3. trail' \in [Calls -> Seq(Events)]
    BY <1>1, <2>1, <2>2, Logs
  <2>4. call' \in [Calls -> CallRecords] /\ OthersStay(c) /\ Validated(c)'
    BY <1>1, <1>14, <2>1, Returns DEF Block, Validated
  <2>5. Gate!GateTypeOK'
    BY <1>2, <1>14 DEF Block, Gate!GateTypeOK
  <2>6. request' \in [Calls -> RequestStatuses] /\ incidents' \subseteq Calls
    BY <1>2, <1>14 DEF Block, RequestStatuses
  <2> QED
    BY <1>2, <1>14, <2>3, <2>4, <2>5, <2>6, StepTyped DEF Block
<1>15. CASE Park(c)
  <2>1. CASE execution = "RUNNING"
    <3>1. Escalated(c) \o <<"APPROVAL_REQUESTED">> \in Seq(Events) /\ "REQUIRES_APPROVAL" \in Labels
      <4>1. <<"APPROVAL_REQUESTED">> \in Seq(Events)
        BY DEF Events
      <4> QED
        BY <1>13, <4>1 DEF Labels, Results
    <3>2. trail' \in [Calls -> Seq(Events)]
      BY <1>1, <1>15, <2>1, <3>1, Logs DEF Park
    <3>3. call' \in [Calls -> CallRecords] /\ OthersStay(c) /\ Validated(c)'
      BY <1>1, <1>15, <2>1, <3>1, Returns DEF Park, Validated
    <3>4. Gate!GateTypeOK'
      BY <1>2, <1>15, <2>1 DEF Park, Gate!GateTypeOK, Gate!Ask, Gate!Verdicts
    <3>5. request' \in [Calls -> RequestStatuses]
      BY <1>2, <1>15, <2>1 DEF Park, RequestStatuses
    <3> QED
      BY <1>2, <1>15, <2>1, <3>2, <3>3, <3>4, <3>5, StepTyped DEF Park
  <2>2. CASE execution # "RUNNING"
    <3>1. "FAILED" \in Labels
      BY DEF Labels, Results
    <3>2. call' \in [Calls -> CallRecords] /\ OthersStay(c) /\ Validated(c)'
      BY <1>1, <1>15, <2>2, <3>1, Returns DEF Park, Validated
    <3>3. Gate!GateTypeOK'
      BY <1>2, <1>15, <2>2 DEF Park, Gate!GateTypeOK
    <3> QED
      BY <1>2, <1>15, <2>2, <3>2, <3>3, StepTyped DEF Park
  <2> QED
    BY <2>1, <2>2
<1>16. CASE Allow(c)
  <2>1. <<"ACTION_ALLOWED">> \in Seq(Events) /\ "running" \in Labels
    BY DEF Events, Labels, Results
  <2>2. trail' \in [Calls -> Seq(Events)]
    BY <1>1, <1>16, <2>1, Logs DEF Allow
  <2>3. call' \in [Calls -> CallRecords] /\ OthersStay(c) /\ Validated(c)'
    BY <1>1, <1>16, <2>1, Goes DEF Allow, Validated
  <2>4. Gate!GateTypeOK'
    BY <1>2, <1>16 DEF Allow, Gate!GateTypeOK
  <2> QED
    BY <1>2, <1>16, <2>2, <2>3, <2>4, StepTyped DEF Allow
<1>17. CASE RunTool(c)
  <2>1. PICK success \in BOOLEAN :
           call' = [call EXCEPT ![c].at = "recording", ![c].outcome = success]
    BY <1>17 DEF RunTool
  <2> DEFINE held == [call[c] EXCEPT !.at = "recording", !.outcome = success]
  <2>2. held \in CallRecords /\ held.at = "recording"
    BY <1>1 DEF CallRecords, Labels
  <2>3. call' = [call EXCEPT ![c] = held]
    BY <1>1, <2>1
  <2>4. call' \in [Calls -> CallRecords] /\ OthersStay(c) /\ Validated(c)'
    BY <1>1, <2>2, <2>3 DEF OthersStay, Validated
  <2>5. Gate!GateTypeOK'
    BY <1>2, <1>17 DEF RunTool, Gate!GateTypeOK
  <2>6. order' \in Seq(Calls)
    <3>1. Append(order, c) \in Seq(Calls)
      BY <1>2
    <3> QED
      BY <1>2, <1>17, <3>1 DEF RunTool
  <2> QED
    BY <1>2, <1>17, <2>4, <2>5, <2>6, StepTyped DEF RunTool
<1>18. CASE RecordOutcome(c)
  <2> DEFINE answer == IF call[c].outcome THEN "EXECUTED" ELSE "FAILED"
             events == <<IF call[c].outcome THEN "TOOL_EXECUTED" ELSE "TOOL_FAILED">>
  <2>1. events \in Seq(Events) /\ answer \in Labels /\ answer \in RequestStatuses
    BY DEF Events, Labels, Results, RequestStatuses
  <2>2. Log(c, events) /\ Return(c, answer) /\ request' = [request EXCEPT ![c] = answer]
    BY <1>18 DEF RecordOutcome
  <2>3. trail' \in [Calls -> Seq(Events)]
    BY <1>1, <2>1, <2>2, Logs
  <2>4. call' \in [Calls -> CallRecords] /\ OthersStay(c) /\ Validated(c)'
    <3>1. call' \in [Calls -> CallRecords] /\ OthersStay(c) /\ call'[c].at = answer
      BY <1>1, <2>1, <2>2, Returns
    <3> QED
      BY <3>1 DEF Validated
  <2>5. Gate!GateTypeOK'
    BY <1>2, <1>18 DEF RecordOutcome, Gate!GateTypeOK
  <2>6. request' \in [Calls -> RequestStatuses]
    BY <1>2, <2>1, <2>2
  <2> QED
    BY <1>2, <1>18, <2>3, <2>4, <2>5, <2>6, StepTyped DEF RecordOutcome
<1> QED
  BY <1>3, <1>4, <1>5, <1>6, <1>7, <1>8, <1>9, <1>10, <1>11, <1>12, <1>14, <1>15, <1>16, <1>17, <1>18
  DEF Execute

LEMMA OtherSteps ==
  ASSUME TypeInv, [Next]_vars, \A c \in Calls : ~Execute(c)
  PROVE  TypeInv'
<1> USE DEF settings, rows, gate, bounds, Set
<1>1. TypeOK /\ (\A c \in Calls : Validated(c)) /\ call \in [Calls -> CallRecords]
  BY DEF TypeInv, TypeOK, CallRecords
<1>2. ASSUME NEW c \in Calls, Answer(c) PROVE TypeInv'
  <2>1. Gate!GateTypeOK'
    BY <1>1, <1>2 DEF TypeOK, Answer, Gate!Answer, Gate!GateTypeOK, Gate!Verdicts
  <2> QED
    BY <1>1, <1>2, <2>1 DEF TypeInv, TypeOK, Validated, Answer
<1>3. ASSUME NEW c \in Calls, RunApproved(c) PROVE TypeInv'
  <2>1. Gate!GateTypeOK' /\ order' \in Seq(Calls)
    BY <1>1, <1>3 DEF TypeOK, RunApproved, Gate!RunTool, Gate!GateTypeOK
  <2> QED
    BY <1>1, <1>3, <2>1 DEF TypeInv, TypeOK, Validated, RunApproved
<1>4. ASSUME NEW c \in Calls, Settle(c) PROVE TypeInv'
  <2>1. Gate!GateTypeOK'
    BY <1>1, <1>4 DEF TypeOK, Settle, Gate!Settle, Gate!GateTypeOK, Gate!Verdicts
  <2>2. request' \in [Calls -> RequestStatuses]
    BY <1>1, <1>4 DEF TypeOK, Settle, RequestStatuses
  <2> QED
    BY <1>1, <1>4, <2>1, <2>2 DEF TypeInv, TypeOK, Validated, Settle
<1>5. ASSUME NEW c \in Calls, Die(c) PROVE TypeInv'
  <2>1. "dead" \in Labels
    BY DEF Labels
  <2>2. call' \in [Calls -> CallRecords] /\ OthersStay(c) /\ Validated(c)'
    BY <1>1, <1>5, <2>1, Returns DEF Die, Validated
  <2>3. Gate!GateTypeOK'
    BY <1>1, <1>5 DEF TypeOK, Die, Gate!GateTypeOK
  <2>4. faults' \in 0 .. MaxFaults
    BY <1>1, <1>5, GatewayAssumption DEF TypeOK, Die
  <2> QED
    BY <1>1, <1>5, <2>2, <2>3, <2>4, StepTyped DEF TypeOK, Die
<1>6. CASE End
  <2>1. Gate!GateTypeOK'
    BY <1>1, <1>6 DEF TypeOK, End, Gate!GateTypeOK
  <2> QED
    BY <1>1, <1>6, <2>1 DEF TypeInv, TypeOK, Validated, End
<1>7. CASE Edit
  <2>1. Gate!GateTypeOK'
    BY <1>1, <1>7 DEF TypeOK, Edit, Gate!GateTypeOK
  <2>2. permission' \in [Registered -> Permissions] /\ enabled' \subseteq Policies
    BY <1>1, <1>7 DEF TypeOK, Edit
  <2>3. edits' \in 0 .. MaxEdits
    BY <1>1, <1>7, GatewayAssumption DEF TypeOK, Edit
  <2> QED
    BY <1>1, <1>7, <2>1, <2>2, <2>3 DEF TypeInv, TypeOK, Validated, Edit
<1>8. CASE UNCHANGED vars
  <2>1. Gate!GateTypeOK'
    BY <1>1, <1>8 DEF TypeOK, vars, Gate!GateTypeOK
  <2> QED
    BY <1>1, <1>8, <2>1 DEF TypeInv, TypeOK, Validated, vars
<1> QED
  BY <1>2, <1>3, <1>4, <1>5, <1>6, <1>7, <1>8 DEF Next

LEMMA TypesNext == TypeInv /\ [Next]_vars => TypeInv'
  BY CallSteps, OtherSteps

\* Every row, and what every call holds, stays in its type.
THEOREM TypeCorrect == Spec => []TypeOK
<1>1. TypeInv => TypeOK
  BY DEF TypeInv
<1> QED
  BY TypesInit, TypesNext, <1>1, PTL DEF Spec

-----------------------------------------------------------------------------
(* The inductive invariant of NothingRunsUnjudged.  Up to "ending" nothing   *)
(* ran and nobody was asked; on the way there the two judgements that the    *)
(* call holds become the two on record; and from there on they do not change.*)

Before == {"idle", "announcing", "looking", "refusing", "opening", "evaluating", "deciding",
           "assessing", "weighing", "ending"}

\* The judgement a call holds, and the one on record.
Stage(c) ==
    /\ call[c].at \in {"announcing", "looking", "opening"} => call[c].policy = "ALLOW"
    /\ call[c].at \in {"evaluating", "deciding"} => call[c].permission = "CONDITIONAL"
    /\ call[c].at \in {"assessing", "weighing"} =>
          \/ call[c].permission = "ALLOW" /\ call[c].policy = "ALLOW"
          \/ call[c].permission = "CONDITIONAL" /\ decided[c] = call[c].policy
    /\ call[c].at = "ending" => decided[c] = call[c].policy /\ assessed[c] = call[c].risk

Allowed(c) ==
    decided[c] = "ALLOW" /\ assessed[c] = "ALLOW" /\ Logged(c, "ACTION_ALLOWED")

Asked(c) ==
    /\ decided[c] \in Policy!Actions /\ assessed[c] \in Policy!Actions
    /\ Risk!Combine(decided[c], assessed[c]) = "REQUIRE_APPROVAL"
    /\ Logged(c, "APPROVAL_REQUESTED")
    /\ Ran(c) => runs[c] = 1

Judged(c) ==
    /\ Stage(c)
    /\ call[c].at \in Before => ~Ran(c) /\ verdict[c] = "unasked"
    /\ call[c].at \in {"running", "recording"} => verdict[c] = "unasked" /\ Allowed(c)
    /\ verdict[c] = "unasked" => runs[c] = 0 /\ (Ran(c) => Allowed(c))
    /\ verdict[c] # "unasked" => Asked(c)

GatewayInv == TypeInv /\ \A c \in Calls : Judged(c)

\* Logging more takes nothing back.
LEMMA LoggedStays ==
  ASSUME TypeOK, NEW c \in Calls, NEW events \in Seq(Events), Log(c, events)
  PROVE  /\ \A event : Logged(c, event) => Logged(c, event)'
         /\ \A i \in DOMAIN events : Logged(c, events[i])'
<1>1. trail[c] \in Seq(Events) /\ trail'[c] = trail[c] \o events
  BY Logs DEF TypeOK
<1>2. \A i \in DOMAIN trail[c] : i \in DOMAIN trail'[c] /\ trail'[c][i] = trail[c][i]
  BY <1>1
<1>3. \A i \in DOMAIN events :
         Len(trail[c]) + i \in DOMAIN trail'[c] /\ trail'[c][Len(trail[c]) + i] = events[i]
  BY <1>1
<1>4. ASSUME NEW event, Logged(c, event) PROVE Logged(c, event)'
  BY <1>2, <1>4 DEF Logged
<1>5. ASSUME NEW i \in DOMAIN events PROVE Logged(c, events[i])'
  BY <1>3 DEF Logged
<1> QED
  BY <1>4, <1>5

\* Ran after a step that runs the tool of one call, or of none.
LEMMA RanAfter ==
  ASSUME TypeOK, NEW c \in Calls
  PROVE  /\ order' = order => \A b \in Calls : Ran(b)' <=> Ran(b)
         /\ order' = Append(order, c) =>
               Ran(c)' /\ \A b \in Calls : b # c => (Ran(b)' <=> Ran(b))
<1>1. order \in Seq(Calls)
  BY DEF TypeOK
<1>2. ASSUME order' = order PROVE \A b \in Calls : Ran(b)' <=> Ran(b)
  BY <1>2 DEF Ran
<1>3. ASSUME order' = Append(order, c)
      PROVE  Ran(c)' /\ \A b \in Calls : b # c => (Ran(b)' <=> Ran(b))
  <2>1. /\ DOMAIN order' = DOMAIN order \cup {Len(order) + 1}
        /\ \A i \in DOMAIN order : order'[i] = order[i]
        /\ order'[Len(order) + 1] = c
    BY <1>1, <1>3
  <2> QED
    BY <2>1 DEF Ran
<1> QED
  BY <1>2, <1>3

LEMMA JudgedInit == Init => GatewayInv
<1> SUFFICES ASSUME Init PROVE GatewayInv
  OBVIOUS
<1>1. \A c \in Calls : call[c].at = "idle"
  <2>1. (CHOOSE input \in Inputs : TRUE) \in Inputs /\ "idle" \in Labels
    BY GatewayAssumption DEF Labels
  <2> QED
    BY <2>1, LocalType DEF Init
<1>2. \A c \in Calls : ~Ran(c) /\ verdict[c] = "unasked" /\ runs[c] = 0
  BY DEF Init, Ran, Gate!GateInit
<1> QED
  BY <1>1, <1>2, TypesInit DEF GatewayInv, Judged, Stage, Before

\* What a step of one call leaves alone stays judged.
LEMMA OthersJudged ==
  ASSUME GatewayInv, NEW c \in Calls, OthersStay(c), Judged(c)',
         \A b \in Calls : b # c =>
            /\ decided'[b] = decided[b] /\ assessed'[b] = assessed[b] /\ trail'[b] = trail[b]
            /\ verdict'[b] = verdict[b] /\ runs'[b] = runs[b]
            /\ Ran(b)' <=> Ran(b)
  PROVE  \A b \in Calls : Judged(b)'
<1> SUFFICES ASSUME NEW b \in Calls, b # c PROVE Judged(b)'
  OBVIOUS
<1>1. Judged(b) /\ call'[b] = call[b]
  BY DEF GatewayInv, OthersStay
<1>2. \A event : Logged(b, event)' <=> Logged(b, event)
  BY DEF Logged
<1>3. Stage(b)'
  BY <1>1 DEF Judged, Stage
<1>4. Allowed(b)' <=> Allowed(b)
  BY <1>2 DEF Allowed
<1>5. Asked(b) => Asked(b)'
  BY <1>2 DEF Asked
<1> QED
  BY <1>1, <1>3, <1>4, <1>5 DEF Judged

\* A call on its way to "ending", or off it without having run anything.
LEMMA QuietStep ==
  ASSUME GatewayInv, NEW c \in Calls, call[c].at \in Before,
         OthersStay(c), Stage(c)',
         call'[c].at \notin {"running", "recording"},
         \A b \in Calls : b # c =>
            decided'[b] = decided[b] /\ assessed'[b] = assessed[b] /\ trail'[b] = trail[b],
         UNCHANGED <<gate, order>>
  PROVE  \A b \in Calls : Judged(b)'
<1>1. verdict' = verdict /\ runs' = runs /\ order' = order
  BY DEF gate
<1>2. \A b \in Calls : Ran(b)' <=> Ran(b)
  BY <1>1, RanAfter DEF GatewayInv, TypeInv
<1>3. Judged(c) /\ ~Ran(c) /\ verdict[c] = "unasked"
  BY DEF GatewayInv, Judged
<1>4. Judged(c)'
  BY <1>1, <1>2, <1>3 DEF Judged
<1> QED
  BY <1>1, <1>2, <1>4, OthersJudged

\* The steps of a call up to its end.
LEMMA PipelineJudged ==
  ASSUME GatewayInv, NEW c \in Calls,
         \/ Begin(c) \/ Announce(c) \/ Look(c) \/ Refuse(c) \/ Deny(c) \/ Open(c)
         \/ Evaluate(c) \/ Decide(c) \/ Assess(c) \/ Weigh(c) \/ Block(c)
  PROVE  \A b \in Calls : Judged(b)'
<1> USE DEF Elsewhere, settings, rows, bounds, Set
<1>1. TypeOK /\ call \in [Calls -> CallRecords] /\ call[c] \in CallRecords
  BY DEF GatewayInv, TypeInv, TypeOK, CallRecords
<1>2. Stage(c)
  BY DEF GatewayInv, Judged
<1>3. CASE Begin(c)
  <2> DEFINE label == IF execution = "RUNNING" THEN "announcing" ELSE "FAILED"
  <2>1. PICK input \in Inputs : call' = [call EXCEPT ![c] = Local(label, input)]
    BY <1>3 DEF Begin
  <2>2. label \in Labels
    BY DEF Labels, Results
  <2>3. call'[c].at = label /\ call'[c].policy = "ALLOW" /\ OthersStay(c)
    <3>1. call'[c] = Local(label, input) /\ OthersStay(c)
      BY <1>1, <2>1 DEF OthersStay
    <3> QED
      BY <2>2, <3>1, LocalType
  <2>4. Stage(c)' /\ call[c].at \in Before
    BY <1>3, <2>3 DEF Begin, At, Before, Stage
  <2> QED
    BY <1>1, <1>3, <2>3, <2>4, QuietStep DEF Begin
<1>4. CASE Announce(c)
  <2>1. "looking" \in Labels /\ Goto(c, "looking") /\ call[c].at \in Before
    BY <1>4 DEF Announce, Labels, At, Before
  <2>2. call'[c].at = "looking" /\ call'[c].policy = call[c].policy /\ OthersStay(c)
    BY <1>1, <2>1, Goes
  <2>3. Stage(c)'
    BY <1>2, <1>4, <2>2 DEF Announce, Stage, At
  <2> QED
    BY <1>1, <1>4, <2>1, <2>2, <2>3, QuietStep DEF Announce, Log, TypeOK
<1>5. CASE Look(c)
  <2>1. CASE call[c].input.tool \in Registered /\ call[c].input.valid
    <3>1. call' = [call EXCEPT ![c] = [call[c] EXCEPT !.at = "opening",
                                          !.permission = permission[call[c].input.tool]]]
      BY <1>1, <1>5, <2>1 DEF Look
    <3>2. call'[c].at = "opening" /\ call'[c].policy = call[c].policy /\ OthersStay(c)
      BY <1>1, <3>1 DEF OthersStay, CallRecords
    <3>3. Stage(c)' /\ call[c].at \in Before
      BY <1>2, <1>5, <3>2 DEF Look, At, Before, Stage
    <3> QED
      BY <1>1, <1>5, <3>2, <3>3, QuietStep DEF Look
  <2>2. CASE ~(call[c].input.tool \in Registered /\ call[c].input.valid)
    <3>1. "refusing" \in Labels /\ Goto(c, "refusing") /\ call[c].at \in Before
      BY <1>5, <2>2 DEF Look, Labels, At, Before
    <3>2. call'[c].at = "refusing" /\ OthersStay(c)
      BY <1>1, <3>1, Goes
    <3>3. Stage(c)'
      BY <3>2 DEF Stage
    <3> QED
      BY <1>1, <1>5, <3>1, <3>2, <3>3, QuietStep DEF Look
  <2> QED
    BY <2>1, <2>2
<1>6. CASE Refuse(c)
  <2>1. "FAILED" \in Labels /\ Return(c, "FAILED") /\ call[c].at \in Before
    BY <1>6 DEF Refuse, Labels, Results, At, Before
  <2>2. call'[c].at = "FAILED" /\ OthersStay(c)
    BY <1>1, <2>1, Returns
  <2>3. Stage(c)'
    BY <2>2 DEF Stage
  <2> QED
    BY <1>1, <1>6, <2>1, <2>2, <2>3, QuietStep DEF Refuse, Log, TypeOK
<1>7. CASE Deny(c)
  <2>1. "BLOCKED" \in Labels /\ Return(c, "BLOCKED") /\ call[c].at \in Before
    BY <1>7 DEF Deny, Labels, Results, At, Before
  <2>2. call'[c].at = "BLOCKED" /\ OthersStay(c)
    BY <1>1, <2>1, Returns
  <2>3. Stage(c)'
    BY <2>2 DEF Stage
  <2> QED
    BY <1>1, <1>7, <2>1, <2>2, <2>3, QuietStep DEF Deny, Log, TypeOK
<1>8. CASE Open(c)
  <2>1. call[c].at = "opening" /\ call[c].permission \in {"ALLOW", "CONDITIONAL"}
    BY <1>1, <1>8 DEF Open, At, CallRecords, Permissions
  <2>2. "evaluating" \in Labels /\ "assessing" \in Labels /\ call[c].at \in Before
    BY <2>1 DEF Labels, Before
  <2>3. /\ call'[c].at = (IF call[c].permission = "CONDITIONAL" THEN "evaluating" ELSE "assessing")
        /\ call'[c].policy = call[c].policy /\ call'[c].permission = call[c].permission
        /\ OthersStay(c)
    BY <1>1, <1>8, <2>2, Goes DEF Open
  <2>4. Stage(c)'
    BY <1>2, <2>1, <2>3 DEF Stage
  <2> QED
    BY <1>1, <1>8, <2>2, <2>3, <2>4, QuietStep DEF Open, Log, TypeOK
<1>9. CASE Evaluate(c)
  <2>1. /\ call'[c].at = "deciding" /\ call'[c].permission = call[c].permission
        /\ OthersStay(c)
    BY <1>1, <1>9 DEF Evaluate, OthersStay, CallRecords
  <2>2. Stage(c)' /\ call[c].at \in Before
    BY <1>2, <1>9, <2>1 DEF Evaluate, At, Before, Stage
  <2> QED
    BY <1>1, <1>9, <2>1, <2>2, QuietStep DEF Evaluate
<1>10. CASE Decide(c)
  <2>1. call[c].at = "deciding" /\ call[c].at \in Before
    BY <1>10 DEF Decide, At, Before
  <2>2. decided'[c] = call[c].policy
    BY <1>1, <1>10 DEF Decide, TypeOK
  <2>3. /\ \A b \in Calls : b # c => decided'[b] = decided[b] /\ trail'[b] = trail[b]
        /\ UNCHANGED <<assessed, gate, order>>
    BY <1>1, <1>10 DEF Decide, Log, TypeOK
  <2>4. CASE Return(c, "BLOCKED")
    <3>1. call'[c].at = "BLOCKED" /\ OthersStay(c)
      BY <1>1, <2>4, Returns DEF Labels, Results
    <3>2. Stage(c)'
      BY <3>1 DEF Stage
    <3> QED
      BY <2>1, <2>3, <3>1, <3>2, QuietStep
  <2>5. CASE Goto(c, "assessing")
    <3>1. /\ call'[c].at = "assessing" /\ call'[c].policy = call[c].policy
          /\ call'[c].permission = call[c].permission /\ OthersStay(c)
      BY <1>1, <2>5, Goes DEF Labels
    <3>2. Stage(c)'
      BY <1>2, <2>1, <2>2, <3>1 DEF Stage
    <3> QED
      BY <2>1, <2>3, <3>1, <3>2, QuietStep
  <2> QED
    BY <1>10, <2>4, <2>5 DEF Decide
<1>11. CASE Assess(c)
  <2> DEFINE financial == IF call[c].input.tool = "refund_payment"
                          THEN Risk!FinancialWeight(call[c].input.amount) ELSE 0
  <2>1. PICK failed \in BOOLEAN, found \in SUBSET Risk!Signals :
           call' = [call EXCEPT ![c].at = "weighing",
                                ![c].risk = Risk!Assess(found, financial, failed).action,
                                ![c].named = (found # {})]
    BY <1>11 DEF Assess
  <2>2. /\ call'[c].at = "weighing" /\ call'[c].policy = call[c].policy
        /\ call'[c].permission = call[c].permission /\ OthersStay(c)
    <3> HIDE DEF financial
    <3> QED
      BY <1>1, <2>1 DEF OthersStay, CallRecords
  <2>3. Stage(c)' /\ call[c].at \in Before
    BY <1>2, <1>11, <2>2 DEF Assess, At, Before, Stage
  <2> QED
    BY <1>1, <1>11, <2>2, <2>3, QuietStep DEF Assess
<1>12. CASE Weigh(c)
  <2>1. "ending" \in Labels /\ Goto(c, "ending") /\ call[c].at = "weighing" /\ call[c].at \in Before
    BY <1>12 DEF Weigh, Labels, At, Before
  <2>2. /\ call'[c].at = "ending" /\ call'[c].policy = call[c].policy
        /\ call'[c].risk = call[c].risk /\ OthersStay(c)
    BY <1>1, <2>1, Goes
  <2>3. /\ assessed'[c] = call[c].risk
        /\ decided'[c] = IF call[c].permission = "ALLOW" THEN "ALLOW" ELSE decided[c]
    BY <1>1, <1>12 DEF Weigh, TypeOK
  <2>4. Stage(c)'
    BY <1>2, <2>1, <2>2, <2>3 DEF Stage
  <2>5. \A b \in Calls : b # c =>
           decided'[b] = decided[b] /\ assessed'[b] = assessed[b] /\ trail'[b] = trail[b]
    BY <1>1, <1>12 DEF Weigh, Log, TypeOK
  <2> QED
    BY <1>12, <2>1, <2>2, <2>4, <2>5, QuietStep DEF Weigh
<1>13. CASE Block(c)
  <2>1. "BLOCKED" \in Labels /\ Return(c, "BLOCKED") /\ call[c].at \in Before
    BY <1>13 DEF Block, Labels, Results, At, Before
  <2>2. call'[c].at = "BLOCKED" /\ OthersStay(c)
    BY <1>1, <2>1, Returns
  <2>3. Stage(c)'
    BY <2>2 DEF Stage
  <2> QED
    BY <1>1, <1>13, <2>1, <2>2, <2>3, QuietStep DEF Block, Log, TypeOK
<1> QED
  BY <1>3, <1>4, <1>5, <1>6, <1>7, <1>8, <1>9, <1>10, <1>11, <1>12, <1>13


\* The last event of a batch.
LEMMA LastOf ==
  ASSUME NEW S, NEW s \in Seq(S), NEW e \in S
  PROVE  /\ s \o <<e>> \in Seq(S)
         /\ Len(s \o <<e>>) \in DOMAIN (s \o <<e>>)
         /\ (s \o <<e>>)[Len(s \o <<e>>)] = e
<1>1. <<e>> \in Seq(S) /\ Len(<<e>>) = 1 /\ <<e>>[1] = e
  OBVIOUS
<1>2. s \o <<e>> \in Seq(S) /\ Len(s \o <<e>>) = Len(s) + 1
  BY <1>1
<1>3. (s \o <<e>>)[Len(s) + 1] = e
  BY <1>1
<1> QED
  BY <1>2, <1>3

\* The steps that ask, that run the tool, and that record what it did.
LEMMA EndsJudged ==
  ASSUME GatewayInv, NEW c \in Calls,
         Park(c) \/ Allow(c) \/ RunTool(c) \/ RecordOutcome(c)
  PROVE  \A b \in Calls : Judged(b)'
<1> USE DEF Elsewhere, settings, rows, gate, bounds, Set
<1>1. TypeOK /\ call \in [Calls -> CallRecords] /\ call[c] \in CallRecords
  BY DEF GatewayInv, TypeInv, TypeOK, CallRecords
<1>2. Judged(c) /\ Stage(c)
  BY DEF GatewayInv, Judged
<1>3. call[c].policy \in Policy!Actions /\ call[c].risk \in Policy!Actions
  BY <1>1 DEF CallRecords
<1>4. CASE Park(c)
  <2>1. call[c].at = "ending" /\ call[c].at \in Before
    BY <1>4 DEF Park, At, Before
  <2>2. CASE execution = "RUNNING"
    <3> DEFINE events == Escalated(c) \o <<"APPROVAL_REQUESTED">>
    <3>1. events \in Seq(Events) /\ events[Len(events)] = "APPROVAL_REQUESTED"
          /\ Len(events) \in DOMAIN events
      <4>1. <<>> \in Seq(Events) /\ <<"RISK_ESCALATED">> \in Seq(Events)
            /\ "APPROVAL_REQUESTED" \in Events
        BY DEF Events
      <4>2. Escalated(c) \in Seq(Events)
        BY <4>1, Zenon DEF Escalated
      <4> QED
        BY <4>1, <4>2, LastOf, Zenon
    <3>2. Log(c, events) /\ Return(c, "REQUIRES_APPROVAL") /\ Gate!Ask(c)
      BY <1>4, <2>2 DEF Park
    <3>3. call'[c].at = "REQUIRES_APPROVAL" /\ OthersStay(c)
      BY <1>1, <3>2, Returns DEF Labels, Results
    <3>4. Logged(c, "APPROVAL_REQUESTED")'
      <4> HIDE DEF events
      <4> QED
        BY <1>1, <3>1, <3>2, LoggedStays
    <3>5. \A b \in Calls : b # c => trail'[b] = trail[b]
      BY <1>1, <3>2 DEF Log, TypeOK
    <3>6. UNCHANGED <<decided, assessed, order, runs>>
      BY <1>4, <3>2 DEF Park, Gate!Ask
    <3>7. \A b \in Calls : Ran(b)' <=> Ran(b)
      BY <1>1, <3>6, RanAfter
    <3>8. verdict'[c] = "open" /\ \A b \in Calls : b # c => verdict'[b] = verdict[b]
      BY <1>1, <3>2 DEF Gate!Ask, TypeOK, Gate!GateTypeOK
    <3>9. decided'[c] = call[c].policy /\ assessed'[c] = call[c].risk
      BY <1>2, <2>1, <3>6 DEF Stage
    <3>10. Risk!Combine(call[c].policy, call[c].risk) = "REQUIRE_APPROVAL"
      BY <1>4 DEF Park, Decision
    <3>11. ~Ran(c)'
      BY <1>2, <2>1, <3>7 DEF Judged
    <3>12. Asked(c)'
      BY <1>3, <3>4, <3>9, <3>10, <3>11 DEF Asked
    <3>13. Judged(c)'
      BY <3>3, <3>8, <3>12 DEF Judged, Stage, Before
    <3> QED
      BY <3>3, <3>5, <3>6, <3>7, <3>8, <3>13, OthersJudged
  <2>3. CASE execution # "RUNNING"
    <3>1. call'[c].at = "FAILED" /\ OthersStay(c)
      BY <1>1, <1>4, <2>3, Returns DEF Park, Labels, Results
    <3>2. Stage(c)'
      BY <3>1 DEF Stage
    <3> QED
      BY <1>4, <2>1, <2>3, <3>1, <3>2, QuietStep DEF Park
  <2> QED
    BY <2>2, <2>3
<1>5. CASE Allow(c)
  <2>1. call[c].at = "ending" /\ call[c].at \in Before
    BY <1>5 DEF Allow, At, Before
  <2>2. <<"ACTION_ALLOWED">> \in Seq(Events) /\ Log(c, <<"ACTION_ALLOWED">>)
    BY <1>5 DEF Allow, Events
  <2>3. call'[c].at = "running" /\ OthersStay(c)
    BY <1>1, <1>5, Goes DEF Allow, Labels
  <2>4. /\ \A b \in Calls : b # c => trail'[b] = trail[b]
        /\ Logged(c, "ACTION_ALLOWED")'
    <3>1. \A i \in DOMAIN <<"ACTION_ALLOWED">> : Logged(c, <<"ACTION_ALLOWED">>[i])'
      BY <1>1, <2>2, LoggedStays
    <3>2. Logged(c, "ACTION_ALLOWED")'
      <4> DEFINE events == <<"ACTION_ALLOWED">>
      <4>1. 1 \in DOMAIN events /\ events[1] = "ACTION_ALLOWED"
        OBVIOUS
      <4>2. Logged(c, events[1])'
        BY <3>1, <4>1
      <4> QED
        BY <4>1, <4>2
    <3> QED
      BY <1>1, <2>2, <3>2, Logs
  <2>5. UNCHANGED <<decided, assessed, gate, order>>
    BY <1>5 DEF Allow
  <2>6. \A b \in Calls : Ran(b)' <=> Ran(b)
    BY <1>1, <2>5, RanAfter
  <2>7. call[c].policy = "ALLOW" /\ call[c].risk = "ALLOW"
    BY <1>3, <1>5, CombineFacts DEF Allow, Decision
  <2>8. Allowed(c)'
    BY <1>2, <2>1, <2>4, <2>5, <2>7 DEF Stage, Allowed
  <2>9. Judged(c)'
    BY <1>2, <2>1, <2>3, <2>5, <2>6, <2>8 DEF Judged, Stage, Before
  <2> QED
    BY <2>3, <2>4, <2>5, <2>6, <2>9, OthersJudged
<1>6. CASE RunTool(c)
  <2>1. call[c].at = "running"
    BY <1>6 DEF RunTool, At
  <2>2. call'[c].at = "recording" /\ OthersStay(c)
    BY <1>1, <1>6 DEF RunTool, OthersStay, CallRecords
  <2>3. UNCHANGED <<decided, assessed, trail, gate>>
    BY <1>6 DEF RunTool
  <2>4. \A b \in Calls : b # c => (Ran(b)' <=> Ran(b))
    BY <1>1, <1>6, RanAfter DEF RunTool
  <2>5. verdict[c] = "unasked" /\ Allowed(c) /\ runs[c] = 0
    BY <1>2, <2>1 DEF Judged
  <2>6. Allowed(c)'
    BY <2>3, <2>5 DEF Allowed, Logged
  <2>7. Judged(c)'
    BY <2>2, <2>3, <2>5, <2>6 DEF Judged, Stage, Before
  <2> QED
    BY <2>2, <2>3, <2>4, <2>7, OthersJudged
<1>7. CASE RecordOutcome(c)
  <2> DEFINE answer == IF call[c].outcome THEN "EXECUTED" ELSE "FAILED"
             events == <<IF call[c].outcome THEN "TOOL_EXECUTED" ELSE "TOOL_FAILED">>
  <2>1. events \in Seq(Events) /\ answer \in Labels
    BY DEF Events, Labels, Results
  <2>2. Log(c, events) /\ Return(c, answer) /\ call[c].at = "recording"
    BY <1>7 DEF RecordOutcome, At
  <2>3. call'[c].at = answer /\ OthersStay(c)
    BY <1>1, <2>1, <2>2, Returns
  <2>4. /\ \A b \in Calls : b # c => trail'[b] = trail[b]
        /\ Logged(c, "ACTION_ALLOWED") => Logged(c, "ACTION_ALLOWED")'
    BY <1>1, <2>1, <2>2, Logs, LoggedStays
  <2>5. UNCHANGED <<decided, assessed, gate, order>>
    BY <1>7 DEF RecordOutcome
  <2>6. \A b \in Calls : Ran(b)' <=> Ran(b)
    BY <1>1, <2>5, RanAfter
  <2>7. verdict[c] = "unasked" /\ runs[c] = 0 /\ Allowed(c)'
    BY <1>2, <2>2, <2>4, <2>5 DEF Judged, Allowed
  <2>8. Judged(c)'
    BY <2>3, <2>5, <2>7 DEF Judged, Stage, Before
  <2> QED
    BY <2>3, <2>4, <2>5, <2>6, <2>8, OthersJudged
<1> QED
  BY <1>4, <1>5, <1>6, <1>7

\* What the operators, the clock, the settings and a crash do to a call.
LEMMA SessionsJudged ==
  ASSUME GatewayInv, [Next]_vars, \A c \in Calls : ~Execute(c)
  PROVE  \A b \in Calls : Judged(b)'
<1> USE DEF settings, rows, gate, bounds, Set
<1>1. TypeOK /\ Gate!GateTypeOK /\ \A b \in Calls : Judged(b)
  BY DEF GatewayInv, TypeInv, TypeOK
<1>2. ASSUME NEW c \in Calls, Answer(c) \/ Settle(c) PROVE \A b \in Calls : Judged(b)'
  <2>1. UNCHANGED <<decided, assessed, trail, call, runs, order>>
    BY <1>2 DEF Answer, Settle, Gate!Answer, Gate!Settle
  <2>2. /\ verdict[c] # "unasked" /\ verdict'[c] # "unasked"
        /\ \A b \in Calls : b # c => verdict'[b] = verdict[b]
    BY <1>1, <1>2 DEF Answer, Settle, Gate!Answer, Gate!Settle, Gate!GateTypeOK
  <2>3. \A b \in Calls : Ran(b)' <=> Ran(b)
    BY <1>1, <2>1, RanAfter
  <2>4. Asked(c) /\ Asked(c)'
    BY <1>1, <2>1, <2>2, <2>3 DEF Judged, Asked, Logged
  <2>5. Judged(c)'
    BY <1>1, <2>1, <2>2, <2>4 DEF Judged, Stage, Before
  <2>6. OthersStay(c)
    BY <2>1 DEF OthersStay
  <2> QED
    BY <2>1, <2>2, <2>3, <2>5, <2>6, OthersJudged
<1>3. ASSUME NEW c \in Calls, RunApproved(c) PROVE \A b \in Calls : Judged(b)'
  <2>1. UNCHANGED <<decided, assessed, trail, call, verdict>> /\ order' = Append(order, c)
    BY <1>3 DEF RunApproved, Gate!RunTool
  <2>2. /\ verdict[c] # "unasked" /\ runs'[c] = 1
        /\ \A b \in Calls : b # c => runs'[b] = runs[b]
    BY <1>1, <1>3 DEF RunApproved, Gate!RunTool, Gate!GateTypeOK
  <2>3. \A b \in Calls : b # c => (Ran(b)' <=> Ran(b))
    BY <1>1, <2>1, RanAfter
  <2>4. Asked(c) /\ Asked(c)'
    BY <1>1, <2>1, <2>2 DEF Judged, Asked, Logged
  <2>5. Judged(c)'
    BY <1>1, <2>1, <2>2, <2>4 DEF Judged, Stage, Before
  <2>6. OthersStay(c)
    BY <2>1 DEF OthersStay
  <2> QED
    BY <2>1, <2>2, <2>3, <2>5, <2>6, OthersJudged
<1>4. ASSUME NEW c \in Calls, Die(c) PROVE \A b \in Calls : Judged(b)'
  <2>1. UNCHANGED <<decided, assessed, trail, gate, order>>
    BY <1>4 DEF Die
  <2>2. call'[c].at = "dead" /\ OthersStay(c)
    BY <1>1, <1>4, Returns DEF Die, Labels
  <2>3. \A b \in Calls : Ran(b)' <=> Ran(b)
    BY <1>1, <2>1, RanAfter
  <2>4. /\ Allowed(c)' <=> Allowed(c)
        /\ Asked(c)' <=> Asked(c)
    BY <2>1, <2>3 DEF Allowed, Asked, Logged
  <2>5. Judged(c)'
    BY <1>1, <2>1, <2>2, <2>3, <2>4 DEF Judged, Stage, Before
  <2> QED
    BY <2>1, <2>2, <2>3, <2>5, OthersJudged
<1>5. CASE End \/ Edit \/ UNCHANGED vars
  <2>1. UNCHANGED <<decided, assessed, trail, call, gate, order>>
    BY <1>5 DEF End, Edit, vars
  <2>2. \A b \in Calls : Ran(b)' <=> Ran(b)
    BY <1>1, <2>1, RanAfter
  <2>3. \A b \in Calls : (Allowed(b)' <=> Allowed(b)) /\ (Asked(b)' <=> Asked(b))
    BY <2>1, <2>2 DEF Allowed, Asked, Logged
  <2>4. \A b \in Calls : Stage(b)'
    BY <1>1, <2>1 DEF Judged, Stage
  <2> QED
    BY <1>1, <2>1, <2>2, <2>3, <2>4 DEF Judged
<1> QED
  BY <1>2, <1>3, <1>4, <1>5 DEF Next

LEMMA GatewayNext == GatewayInv /\ [Next]_vars => GatewayInv'
<1> SUFFICES ASSUME GatewayInv, [Next]_vars PROVE GatewayInv'
  OBVIOUS
<1>1. TypeInv'
  BY TypesNext DEF GatewayInv
<1>2. ASSUME NEW c \in Calls, Execute(c) PROVE \A b \in Calls : Judged(b)'
  BY <1>2, PipelineJudged, EndsJudged DEF Execute
<1>3. CASE \A c \in Calls : ~Execute(c)
  BY <1>1, <1>3, SessionsJudged DEF GatewayInv
<1>4. CASE \E c \in Calls : Execute(c)
  BY <1>1, <1>2, <1>4 DEF GatewayInv
<1> QED
  BY <1>3, <1>4

LEMMA InvJudges == GatewayInv => NothingRunsUnjudged
<1> SUFFICES ASSUME GatewayInv, NEW c \in Calls, Ran(c)
             PROVE  /\ {decided[c], assessed[c]} \subseteq Policy!Actions
                    /\ Risk!Combine(decided[c], assessed[c]) =
                          IF runs[c] = 0 THEN "ALLOW" ELSE "REQUIRE_APPROVAL"
                    /\ Logged(c, IF runs[c] = 0 THEN "ACTION_ALLOWED" ELSE "APPROVAL_REQUESTED")
  BY DEF NothingRunsUnjudged
<1>1. Judged(c)
  BY DEF GatewayInv
<1>2. CASE verdict[c] = "unasked"
  <2>1. Allowed(c) /\ runs[c] = 0
    BY <1>1, <1>2 DEF Judged
  <2>2. "ALLOW" \in Policy!Actions
    BY DEF Policy!Actions
  <2> QED
    BY <2>1, <2>2, CombineFacts DEF Allowed
<1>3. CASE verdict[c] # "unasked"
  <2>1. Asked(c) /\ runs[c] = 1
    BY <1>1, <1>3 DEF Judged, Asked
  <2> QED
    BY <2>1 DEF Asked
<1> QED
  BY <1>2, <1>3

\* Every tool that ran was judged twice, by the policies and by the risk engine,
\* and both judgements, or a human's, let it run: for every set of policies,
\* tools, arguments, edits, calls and crashes.
THEOREM NothingUnjudged == Spec => []NothingRunsUnjudged
  BY JudgedInit, GatewayNext, InvJudges, PTL DEF Spec

\* A call of the gateway moves itself and no other.
LEMMA CallAlone ==
  ASSUME TypeOK, NEW c \in Calls, Execute(c)
  PROVE  OthersStay(c)
<1> USE DEF Set
<1>1. call \in [Calls -> CallRecords]
  BY DEF TypeOK, CallRecords
<1>2. ASSUME NEW held, call' = [call EXCEPT ![c] = held] PROVE OthersStay(c)
  BY <1>1, <1>2 DEF OthersStay
<1>3. ASSUME NEW label, Goto(c, label) PROVE OthersStay(c)
  BY <1>1, <1>3 DEF OthersStay, Goto
<1>4. ASSUME NEW label, Return(c, label) PROVE OthersStay(c)
  BY <1>1, <1>4 DEF OthersStay, Return
<1>5. ASSUME Begin(c) PROVE OthersStay(c)
  BY <1>2, <1>5 DEF Begin
<1>6. ASSUME Announce(c) \/ Refuse(c) \/ Deny(c) \/ Open(c) \/ Weigh(c) \/ Block(c)
             \/ Allow(c) \/ Decide(c)
      PROVE  OthersStay(c)
  BY <1>3, <1>4, <1>6 DEF Announce, Refuse, Deny, Open, Weigh, Block, Allow, Decide
<1>7. ASSUME Look(c) PROVE OthersStay(c)
  BY <1>1, <1>3, <1>7 DEF Look, OthersStay
<1>8. ASSUME Evaluate(c) PROVE OthersStay(c)
  BY <1>1, <1>8 DEF Evaluate, OthersStay
<1>9. ASSUME Assess(c) PROVE OthersStay(c)
  <2>1. \E risk, named : call' = [call EXCEPT ![c].at = "weighing", ![c].risk = risk,
                                              ![c].named = named]
    BY <1>9 DEF Assess
  <2> QED
    BY <1>1, <2>1 DEF OthersStay
<1>10. ASSUME Park(c) PROVE OthersStay(c)
  BY <1>4, <1>10 DEF Park
<1>11. ASSUME RunTool(c) PROVE OthersStay(c)
  BY <1>1, <1>11 DEF RunTool, OthersStay
<1>12. ASSUME RecordOutcome(c) PROVE OthersStay(c)
  BY <1>4, <1>12 DEF RecordOutcome
<1> QED
  BY <1>5, <1>6, <1>7, <1>8, <1>9, <1>10, <1>11, <1>12 DEF Execute

-----------------------------------------------------------------------------
(* The inductive invariant of AnswersAreOnRecord: what the row of a call     *)
(* holds while the call is on its way, which incidents there may be, and     *)
(* that only a call that answered "requires approval" has a question.        *)

Unopened == {"idle", "announcing", "looking", "refusing", "opening"}
Opened == {"evaluating", "deciding", "assessing", "weighing", "ending", "running", "recording"}

Underway(c) ==
    /\ call[c].at \in Unopened => request[c] = "NONE"
    /\ call[c].at \in Opened => request[c] = "REQUESTED"
    /\ call[c].at = "recording" /\ call[c].outcome => Ran(c)
    /\ c \in incidents => call[c].at = "BLOCKED"
    /\ verdict[c] # "unasked" => call[c].at = "REQUIRES_APPROVAL"

\* AnswersAreOnRecord, of one call.
Answered(c) ==
    /\ call[c].at = "EXECUTED" =>
          Ran(c) /\ request[c] = "EXECUTED" /\ Last(c) = "TOOL_EXECUTED"
    /\ call[c].at = "BLOCKED" =>
          /\ ~Ran(c) /\ request[c] = "DENIED"
          /\ Last(c) \in {"ACTION_DENIED", "POLICY_BLOCKED", "ACTION_BLOCKED_BY_RISK",
                          "SECURITY_INCIDENT_CREATED"}
          /\ c \in incidents <=> Last(c) = "SECURITY_INCIDENT_CREATED"
    /\ call[c].at = "REQUIRES_APPROVAL" =>
          verdict[c] # "unasked" /\ Last(c) = "APPROVAL_REQUESTED"
    /\ call[c].at = "FAILED" =>
          /\ verdict[c] = "unasked" /\ request[c] \in {"NONE", "REQUESTED", "FAILED"}
          /\ request[c] = "REQUESTED" => ~Ran(c)

Recorded(c) == Underway(c) /\ Answered(c)

RecordInv == GatewayInv /\ \A c \in Calls : Recorded(c)

LEMMA RecordInit == Init => RecordInv
<1> SUFFICES ASSUME Init PROVE RecordInv
  OBVIOUS
<1>1. GatewayInv
  BY JudgedInit
<1>2. \A c \in Calls : call[c].at = "idle"
  <2>1. (CHOOSE input \in Inputs : TRUE) \in Inputs /\ "idle" \in Labels
    BY GatewayAssumption DEF Labels
  <2> QED
    BY <2>1, LocalType DEF Init
<1>3. \A c \in Calls : request[c] = "NONE" /\ c \notin incidents /\ verdict[c] = "unasked"
  BY DEF Init, Gate!GateInit
<1> QED
  BY <1>1, <1>2, <1>3 DEF RecordInv, Recorded, Underway, Answered, Unopened, Opened

\* What a step of one call leaves alone of the others.
OthersSame(c) ==
    \A b \in Calls : b # c =>
        /\ call'[b] = call[b] /\ request'[b] = request[b] /\ trail'[b] = trail[b]
        /\ verdict'[b] = verdict[b] /\ runs'[b] = runs[b] /\ assessed'[b] = assessed[b]
        /\ b \in incidents' <=> b \in incidents
        /\ Ran(b)' <=> Ran(b)

LEMMA OthersRecorded ==
  ASSUME RecordInv, NEW c \in Calls, OthersSame(c), Recorded(c)'
  PROVE  \A b \in Calls : Recorded(b)'
<1> SUFFICES ASSUME NEW b \in Calls, b # c PROVE Recorded(b)'
  OBVIOUS
<1>1. Recorded(b)
  BY DEF RecordInv
<1>2. /\ call'[b] = call[b] /\ request'[b] = request[b] /\ trail'[b] = trail[b]
      /\ verdict'[b] = verdict[b]
      /\ b \in incidents' <=> b \in incidents
      /\ Ran(b)' <=> Ran(b)
  BY DEF OthersSame
<1>3. Underway(b)'
  BY <1>1, <1>2 DEF Recorded, Underway
<1>4. Last(b)' = Last(b)
  BY <1>2 DEF Last
<1>5. Answered(b)'
  BY <1>1, <1>2, <1>4 DEF Recorded, Answered
<1> QED
  BY <1>3, <1>5 DEF Recorded

LEMMA ExecuteAlone ==
  ASSUME TypeOK, NEW c \in Calls, Execute(c)
  PROVE  OthersSame(c)
<1> USE DEF Elsewhere, settings, rows, gate, bounds, Set, Log, Goto, Return
<1>1. /\ call \in [Calls -> CallRecords] /\ request \in [Calls -> RequestStatuses]
      /\ trail \in [Calls -> Seq(Events)] /\ assessed \in [Calls -> Maybe(Policy!Actions)]
      /\ incidents \subseteq Calls
      /\ verdict \in [Calls -> Gate!Verdicts]
  BY DEF TypeOK, CallRecords, Gate!GateTypeOK
<1>2. \A b \in Calls : b # c => (Ran(b)' <=> Ran(b))
  <2>1. order' = order \/ order' = Append(order, c)
    BY DEF Execute, Begin, Announce, Look, Refuse, Deny, Open, Evaluate, Decide, Assess,
           Weigh, Block, Park, Allow, RunTool, RecordOutcome
  <2> QED
    BY <2>1, RanAfter
<1>3. runs' = runs /\ \A b \in Calls : b # c => verdict'[b] = verdict[b]
  BY <1>1 DEF Execute, Begin, Announce, Look, Refuse, Deny, Open, Evaluate, Decide, Assess,
         Weigh, Block, Park, Gate!Ask, Allow, RunTool, RecordOutcome
<1>4. \A b \in Calls : b # c => request'[b] = request[b]
  BY <1>1 DEF Execute, Begin, Announce, Look, Refuse, Deny, Open, Evaluate, Decide, Assess,
         Weigh, Block, Park, Allow, RunTool, RecordOutcome
<1>5. \A b \in Calls : b # c => trail'[b] = trail[b]
  BY <1>1 DEF Execute, Begin, Announce, Look, Refuse, Deny, Open, Evaluate, Decide, Assess,
         Weigh, Block, Park, Allow, RunTool, RecordOutcome
<1>6. \A b \in Calls : b # c => assessed'[b] = assessed[b]
  BY <1>1 DEF Execute, Begin, Announce, Look, Refuse, Deny, Open, Evaluate, Decide, Assess,
         Weigh, Block, Park, Allow, RunTool, RecordOutcome
<1>7. \A b \in Calls : b # c => (b \in incidents' <=> b \in incidents)
  <2>1. incidents' = incidents \/ incidents' = incidents \cup {c}
    BY DEF Execute, Begin, Announce, Look, Refuse, Deny, Open, Evaluate, Decide, Assess,
           Weigh, Block, Park, Allow, RunTool, RecordOutcome
  <2> QED
    BY <2>1
<1>8. \A b \in Calls : b # c => call'[b] = call[b]
  BY <1>1, CallAlone DEF OthersStay
<1> QED
  BY <1>2, <1>3, <1>4, <1>5, <1>6, <1>7, <1>8 DEF OthersSame

\* The last event of a batch is the last of the trail.
LEMMA LastLogged ==
  ASSUME TypeOK, NEW c \in Calls, NEW events \in Seq(Events), Len(events) # 0, Log(c, events)
  PROVE  Last(c)' = events[Len(events)]
<1>1. trail[c] \in Seq(Events) /\ trail'[c] = trail[c] \o events
  BY Logs DEF TypeOK
<1>2. Len(events) \in Nat \ {0}
  OBVIOUS
<1>3. Len(trail'[c]) = Len(trail[c]) + Len(events)
  BY <1>1
<1>4. trail'[c][Len(trail[c]) + Len(events)] = events[Len(events)]
  BY <1>1, <1>2
<1> QED
  BY <1>3, <1>4 DEF Last

\* A call on its way that neither runs a tool nor asks.
LEMMA OnTheWay ==
  ASSUME RecordInv, NEW c \in Calls, call[c].at \in Before,
         call'[c].at \in Unopened \cup Opened, call'[c].at # "recording",
         call'[c].at \in Unopened => request'[c] = "NONE",
         call'[c].at \in Opened => request'[c] = "REQUESTED",
         UNCHANGED <<incidents, verdict>>
  PROVE  Recorded(c)'
<1>1. c \notin incidents /\ verdict[c] = "unasked"
  BY DEF RecordInv, GatewayInv, Judged, Recorded, Underway, Before
<1> QED
  BY <1>1 DEF Recorded, Underway, Answered, Unopened, Opened

\* A call that returns before it ran anything.
LEMMA SendsAway ==
  ASSUME RecordInv, NEW c \in Calls, call[c].at \in Before,
         \/ call'[c].at = "FAILED" /\ request'[c] \in {"NONE", "REQUESTED", "FAILED"}
         \/ /\ call'[c].at = "BLOCKED" /\ request'[c] = "DENIED"
            /\ Last(c)' \in {"ACTION_DENIED", "POLICY_BLOCKED", "ACTION_BLOCKED_BY_RISK"},
         UNCHANGED <<incidents, gate, order>>
  PROVE  Recorded(c)'
<1>1. c \notin incidents /\ verdict[c] = "unasked" /\ ~Ran(c)
  BY DEF RecordInv, GatewayInv, Judged, Recorded, Underway, Before
<1>2. ~Ran(c)' /\ c \notin incidents' /\ verdict'[c] = "unasked"
  BY <1>1 DEF Ran, gate
<1> QED
  BY <1>2 DEF Recorded, Underway, Answered, Unopened, Opened

LEMMA OpeningRecorded ==
  ASSUME RecordInv, NEW c \in Calls,
         Begin(c) \/ Announce(c) \/ Look(c) \/ Refuse(c) \/ Deny(c) \/ Open(c)
  PROVE  Recorded(c)'
<1> USE DEF Elsewhere, settings, rows, bounds, Set
<1>1. TypeOK /\ call \in [Calls -> CallRecords] /\ request \in [Calls -> RequestStatuses]
  BY DEF RecordInv, GatewayInv, TypeInv, TypeOK, CallRecords
<1>2. Underway(c)
  BY DEF RecordInv, Recorded
<1>3. CASE Begin(c)
  <2>1. call[c].at = "idle" /\ call[c].at \in Before /\ request[c] = "NONE"
    BY <1>2, <1>3 DEF Begin, At, Before, Underway, Unopened
  <2> DEFINE label == IF execution = "RUNNING" THEN "announcing" ELSE "FAILED"
  <2>2. PICK input \in Inputs : call' = [call EXCEPT ![c] = Local(label, input)]
    BY <1>3 DEF Begin
  <2>3. label \in Labels
    BY DEF Labels, Results
  <2>4. call'[c].at = label
    BY <1>1, <2>2, <2>3, LocalType
  <2>5. UNCHANGED <<request, incidents, gate, order>> /\ verdict' = verdict
    BY <1>3 DEF Begin, gate
  <2>6. CASE label = "announcing"
    BY <2>1, <2>4, <2>5, <2>6, OnTheWay DEF Unopened, Opened
  <2>7. CASE label = "FAILED"
    BY <2>1, <2>4, <2>5, <2>7, SendsAway
  <2> QED
    BY <2>6, <2>7
<1>4. CASE Announce(c)
  <2>1. call[c].at = "announcing" /\ call[c].at \in Before /\ request[c] = "NONE"
    BY <1>2, <1>4 DEF Announce, At, Before, Underway, Unopened
  <2>2. call'[c].at = "looking"
    BY <1>1, <1>4, Goes DEF Announce, Labels
  <2> QED
    BY <1>4, <2>1, <2>2, OnTheWay DEF Announce, Unopened, Opened, gate
<1>5. CASE Look(c)
  <2>1. call[c].at = "looking" /\ call[c].at \in Before /\ request[c] = "NONE"
    BY <1>2, <1>5 DEF Look, At, Before, Underway, Unopened
  <2>2. call'[c].at \in {"opening", "refusing"}
    <3>1. CASE Goto(c, "refusing")
      BY <1>1, <3>1, Goes DEF Labels
    <3>2. CASE call' = [call EXCEPT ![c].at = "opening",
                                    ![c].permission = permission[call[c].input.tool]]
      BY <1>1, <3>2 DEF CallRecords
    <3> QED
      BY <1>5, <3>1, <3>2 DEF Look
  <2> QED
    BY <1>5, <2>1, <2>2, OnTheWay DEF Look, Unopened, Opened, gate
<1>6. CASE Refuse(c)
  <2>1. call[c].at \in Before
    BY <1>6 DEF Refuse, At, Before
  <2>2. call'[c].at = "FAILED" /\ request'[c] = "FAILED"
    BY <1>1, <1>6, Returns DEF Refuse, Labels, Results
  <2> QED
    BY <1>6, <2>1, <2>2, SendsAway DEF Refuse
<1>7. CASE Deny(c)
  <2> DEFINE events == <<"PERMISSION_CHECKED", "ACTION_DENIED">>
  <2>1. call[c].at \in Before
    BY <1>7 DEF Deny, At, Before
  <2>2. call'[c].at = "BLOCKED" /\ request'[c] = "DENIED"
    BY <1>1, <1>7, Returns DEF Deny, Labels, Results
  <2>3. /\ events \in Seq(Events) /\ Len(events) # 0 /\ events[Len(events)] = "ACTION_DENIED"
        /\ Log(c, events)
    BY <1>7 DEF Deny, Events
  <2>4. Last(c)' = "ACTION_DENIED"
    <3> HIDE DEF events
    <3> QED
      BY <1>1, <2>3, LastLogged
  <2> QED
    BY <1>7, <2>1, <2>2, <2>4, SendsAway DEF Deny
<1>8. CASE Open(c)
  <2>1. call[c].at \in Before
    BY <1>8 DEF Open, At, Before
  <2>2. call'[c].at \in {"evaluating", "assessing"} /\ request'[c] = "REQUESTED"
    <3>1. Goto(c, "evaluating") \/ Goto(c, "assessing")
      BY <1>8 DEF Open
    <3> QED
      BY <1>1, <1>8, <3>1, Goes DEF Open, Labels
  <2> QED
    BY <1>8, <2>1, <2>2, OnTheWay DEF Open, Unopened, Opened, gate
<1> QED
  BY <1>3, <1>4, <1>5, <1>6, <1>7, <1>8

LEMMA JudgingRecorded ==
  ASSUME RecordInv, NEW c \in Calls,
         Evaluate(c) \/ Decide(c) \/ Assess(c) \/ Weigh(c) \/ Allow(c)
  PROVE  Recorded(c)'
<1> USE DEF Elsewhere, settings, rows, bounds, Set
<1>1. TypeOK /\ call \in [Calls -> CallRecords] /\ request \in [Calls -> RequestStatuses]
  BY DEF RecordInv, GatewayInv, TypeInv, TypeOK, CallRecords
<1>2. Underway(c)
  BY DEF RecordInv, Recorded
<1>3. CASE Evaluate(c)
  <2>1. call[c].at \in Before /\ request[c] = "REQUESTED"
    BY <1>2, <1>3 DEF Evaluate, At, Before, Underway, Opened
  <2>2. call'[c].at = "deciding"
    BY <1>1, <1>3 DEF Evaluate, CallRecords
  <2> QED
    BY <1>3, <2>1, <2>2, OnTheWay DEF Evaluate, Unopened, Opened, gate
<1>4. CASE Decide(c)
  <2> DEFINE before == IF call[c].matched THEN <<"POLICY_MATCHED">> ELSE <<>>
             event == PolicyEvent(call[c].policy)
  <2>1. call[c].at \in Before /\ request[c] = "REQUESTED"
    BY <1>2, <1>4 DEF Decide, At, Before, Underway, Opened
  <2>2. CASE call[c].policy = "BLOCK"
    <3>1. call'[c].at = "BLOCKED" /\ request'[c] = "DENIED"
      BY <1>1, <1>4, <2>2, Returns DEF Decide, Labels, Results
    <3>2. before \in Seq(Events)
      <4>1. <<>> \in Seq(Events) /\ <<"POLICY_MATCHED">> \in Seq(Events)
        BY DEF Events
      <4> QED
        BY <4>1, Zenon
    <3>3. event = "POLICY_BLOCKED"
      BY <2>2 DEF PolicyEvent
    <3>4. "POLICY_BLOCKED" \in Events
      BY DEF Events
    <3>5. Log(c, before \o <<event>>)
      BY <1>4 DEF Decide
    <3> HIDE DEF before, event
    <3>6. /\ before \o <<event>> \in Seq(Events)
          /\ Len(before \o <<event>>) \in DOMAIN (before \o <<event>>)
          /\ (before \o <<event>>)[Len(before \o <<event>>)] = "POLICY_BLOCKED"
      BY <3>2, <3>3, <3>4, LastOf
    <3>7. Len(before \o <<event>>) # 0
      BY <3>2, <3>3, <3>4
    <3>8. Last(c)' = "POLICY_BLOCKED"
      BY <1>1, <3>5, <3>6, <3>7, LastLogged
    <3> QED
      BY <1>4, <2>1, <3>1, <3>8, SendsAway DEF Decide
  <2>3. CASE call[c].policy # "BLOCK"
    <3>1. call'[c].at = "assessing"
      BY <1>1, <1>4, <2>3, Goes DEF Decide, Labels
    <3>2. UNCHANGED <<request, incidents, verdict>>
      BY <1>4, <2>3 DEF Decide, gate
    <3> QED
      BY <2>1, <3>1, <3>2, OnTheWay DEF Unopened, Opened
  <2> QED
    BY <2>2, <2>3
<1>5. CASE Assess(c)
  <2>1. call[c].at \in Before /\ request[c] = "REQUESTED"
    BY <1>2, <1>5 DEF Assess, At, Before, Underway, Opened
  <2>2. call'[c].at = "weighing"
    <3>1. \E risk, named : call' = [call EXCEPT ![c].at = "weighing", ![c].risk = risk,
                                                ![c].named = named]
      BY <1>5 DEF Assess
    <3> QED
      BY <1>1, <3>1 DEF CallRecords
  <2>3. UNCHANGED <<request, incidents, verdict>>
    BY <1>5 DEF Assess, gate
  <2> QED
    BY <2>1, <2>2, <2>3, OnTheWay DEF Unopened, Opened
<1>6. CASE Weigh(c)
  <2>1. call[c].at \in Before /\ request[c] = "REQUESTED"
    BY <1>2, <1>6 DEF Weigh, At, Before, Underway, Opened
  <2>2. call'[c].at = "ending"
    BY <1>1, <1>6, Goes DEF Weigh, Labels
  <2>3. UNCHANGED <<request, incidents, verdict>>
    BY <1>6 DEF Weigh, gate
  <2> QED
    BY <2>1, <2>2, <2>3, OnTheWay DEF Unopened, Opened
<1>7. CASE Allow(c)
  <2>1. call[c].at \in Before /\ request[c] = "REQUESTED"
    BY <1>2, <1>7 DEF Allow, At, Before, Underway, Opened
  <2>2. call'[c].at = "running"
    BY <1>1, <1>7, Goes DEF Allow, Labels
  <2> QED
    BY <1>7, <2>1, <2>2, OnTheWay DEF Allow, Unopened, Opened, gate
<1> QED
  BY <1>3, <1>4, <1>5, <1>6, <1>7

LEMMA EndingRecorded ==
  ASSUME RecordInv, NEW c \in Calls, Block(c) \/ Park(c) \/ RunTool(c) \/ RecordOutcome(c)
  PROVE  Recorded(c)'
<1> USE DEF Elsewhere, settings, rows, bounds, Set
<1>1. /\ TypeOK /\ call \in [Calls -> CallRecords] /\ request \in [Calls -> RequestStatuses]
      /\ incidents \subseteq Calls /\ verdict \in [Calls -> Gate!Verdicts]
  BY DEF RecordInv, GatewayInv, TypeInv, TypeOK, CallRecords, Gate!GateTypeOK
<1>2. Underway(c) /\ Judged(c)
  BY DEF RecordInv, Recorded, GatewayInv
<1>3. Escalated(c) \in Seq(Events)
  <2>1. <<>> \in Seq(Events) /\ <<"RISK_ESCALATED">> \in Seq(Events)
    BY DEF Events
  <2> QED
    BY <2>1, Zenon DEF Escalated
<1>4. CASE Block(c)
  <2>1. call[c].at \in Before /\ c \notin incidents /\ verdict[c] = "unasked" /\ ~Ran(c)
    BY <1>2, <1>4 DEF Block, At, Before, Underway, Judged
  <2>2. call'[c].at = "BLOCKED" /\ request'[c] = "DENIED"
    BY <1>1, <1>4, Returns DEF Block, Labels, Results
  <2>3. ~Ran(c)' /\ verdict'[c] = "unasked"
    BY <1>4, <2>1 DEF Block, Ran, gate
  <2>4. CASE call[c].named
    <3> DEFINE events == Escalated(c) \o <<"ACTION_BLOCKED_BY_RISK", "SECURITY_INCIDENT_CREATED">>
    <3>1. Log(c, events) /\ c \in incidents'
      BY <1>4, <2>4 DEF Block
    <3>2. <<"ACTION_BLOCKED_BY_RISK", "SECURITY_INCIDENT_CREATED">> \in Seq(Events)
      BY DEF Events
    <3>3. /\ events \in Seq(Events) /\ Len(events) # 0
          /\ events[Len(events)] = "SECURITY_INCIDENT_CREATED"
      BY <1>3, <3>2
    <3> HIDE DEF events
    <3>4. Last(c)' = "SECURITY_INCIDENT_CREATED"
      BY <1>1, <3>1, <3>3, LastLogged
    <3> QED
      BY <2>2, <2>3, <3>1, <3>4 DEF Recorded, Underway, Answered, Unopened, Opened
  <2>5. CASE ~call[c].named
    <3> DEFINE events == Escalated(c) \o <<"ACTION_BLOCKED_BY_RISK">>
    <3>1. Log(c, events) /\ UNCHANGED incidents
      BY <1>4, <2>5 DEF Block
    <3>2. <<"ACTION_BLOCKED_BY_RISK">> \in Seq(Events)
      BY DEF Events
    <3>3. /\ events \in Seq(Events) /\ Len(events) # 0
          /\ events[Len(events)] = "ACTION_BLOCKED_BY_RISK"
      BY <1>3, <3>2
    <3> HIDE DEF events
    <3>4. Last(c)' = "ACTION_BLOCKED_BY_RISK"
      BY <1>1, <3>1, <3>3, LastLogged
    <3> QED
      BY <1>4, <2>1, <2>2, <3>1, <3>4, SendsAway DEF Block
  <2> QED
    BY <2>4, <2>5
<1>5. CASE Park(c)
  <2>1. /\ call[c].at \in Before /\ c \notin incidents /\ verdict[c] = "unasked" /\ ~Ran(c)
        /\ request[c] = "REQUESTED"
    BY <1>2, <1>5 DEF Park, At, Before, Underway, Judged, Opened
  <2>2. CASE execution = "RUNNING"
    <3> DEFINE events == Escalated(c) \o <<"APPROVAL_REQUESTED">>
    <3>1. Log(c, events) /\ UNCHANGED incidents
      BY <1>5, <2>2 DEF Park
    <3>2. <<"APPROVAL_REQUESTED">> \in Seq(Events)
      BY DEF Events
    <3>3. events \in Seq(Events) /\ Len(events) # 0 /\ events[Len(events)] = "APPROVAL_REQUESTED"
      BY <1>3, <3>2
    <3> HIDE DEF events
    <3>4. Last(c)' = "APPROVAL_REQUESTED"
      BY <1>1, <3>1, <3>3, LastLogged
    <3>5. call'[c].at = "REQUIRES_APPROVAL"
      BY <1>1, <1>5, <2>2, Returns DEF Park, Labels, Results
    <3>6. verdict'[c] = "open"
      BY <1>1, <1>5, <2>2 DEF Park, Gate!Ask
    <3> QED
      BY <2>1, <3>1, <3>4, <3>5, <3>6 DEF Recorded, Underway, Answered, Unopened, Opened
  <2>3. CASE execution # "RUNNING"
    <3>1. call'[c].at = "FAILED" /\ UNCHANGED <<request, incidents, gate, order>>
      BY <1>1, <1>5, <2>3, Returns DEF Park, Labels, Results
    <3> QED
      BY <2>1, <3>1, SendsAway
  <2> QED
    BY <2>2, <2>3
<1>6. CASE RunTool(c)
  <2>1. /\ call[c].at = "running" /\ c \notin incidents /\ verdict[c] = "unasked"
        /\ request[c] = "REQUESTED"
    BY <1>2, <1>6 DEF RunTool, At, Underway, Judged, Opened
  <2>2. PICK success \in BOOLEAN :
           /\ success => order' # order
           /\ call' = [call EXCEPT ![c].at = "recording", ![c].outcome = success]
    BY <1>6 DEF RunTool
  <2>3. call'[c].at = "recording" /\ call'[c].outcome = success
    BY <1>1, <2>2 DEF CallRecords
  <2>4. success => Ran(c)'
    <3>1. success => order' = Append(order, c)
      BY <1>6, <2>2 DEF RunTool
    <3> QED
      BY <1>1, <3>1, RanAfter
  <2>5. UNCHANGED <<request, incidents, verdict>>
    BY <1>6 DEF RunTool, gate
  <2> QED
    BY <2>1, <2>3, <2>4, <2>5 DEF Recorded, Underway, Answered, Unopened, Opened
<1>7. CASE RecordOutcome(c)
  <2> DEFINE answer == IF call[c].outcome THEN "EXECUTED" ELSE "FAILED"
             event == IF call[c].outcome THEN "TOOL_EXECUTED" ELSE "TOOL_FAILED"
  <2>1. /\ call[c].at = "recording" /\ c \notin incidents /\ verdict[c] = "unasked"
        /\ call[c].outcome => Ran(c)
    BY <1>2, <1>7 DEF RecordOutcome, At, Underway, Judged, Opened
  <2>2. /\ UNCHANGED <<incidents, gate, order>> /\ request'[c] = answer
        /\ Return(c, answer) /\ Log(c, <<event>>)
    BY <1>1, <1>7 DEF RecordOutcome
  <2>3. answer \in Labels /\ event \in Events
    BY DEF Labels, Results, Events
  <2>4. call'[c].at = answer
    BY <1>1, <2>2, <2>3, Returns
  <2>5. Last(c)' = event
    <3> HIDE DEF event
    <3>1. <<event>> \in Seq(Events) /\ Len(<<event>>) # 0 /\ <<event>>[Len(<<event>>)] = event
      BY <2>3
    <3> QED
      BY <1>1, <2>2, <3>1, LastLogged
  <2>6. (Ran(c)' <=> Ran(c)) /\ verdict'[c] = "unasked" /\ c \notin incidents'
    BY <2>1, <2>2 DEF Ran, gate
  <2>7. CASE call[c].outcome
    BY <2>1, <2>2, <2>4, <2>5, <2>6, <2>7 DEF Recorded, Underway, Answered, Unopened, Opened
  <2>8. CASE ~call[c].outcome
    BY <2>1, <2>2, <2>4, <2>5, <2>6, <2>8 DEF Recorded, Underway, Answered, Unopened, Opened
  <2> QED
    BY <2>7, <2>8
<1> QED
  BY <1>4, <1>5, <1>6, <1>7

\* What the operators, the clock, the settings and a crash do to the record.
LEMMA SessionsRecorded ==
  ASSUME RecordInv, [Next]_vars, \A c \in Calls : ~Execute(c)
  PROVE  \A b \in Calls : Recorded(b)'
<1> USE DEF settings, rows, gate, bounds, Set
<1>1. /\ TypeOK /\ call \in [Calls -> CallRecords] /\ request \in [Calls -> RequestStatuses]
      /\ verdict \in [Calls -> Gate!Verdicts] /\ runs \in [Calls -> 0 .. 1]
      /\ \A b \in Calls : Recorded(b) /\ Judged(b)
  BY DEF RecordInv, GatewayInv, TypeInv, TypeOK, CallRecords, Gate!GateTypeOK
<1>2. ASSUME NEW c \in Calls, Answer(c) \/ Settle(c) \/ RunApproved(c)
      PROVE  \A b \in Calls : Recorded(b)'
  <2>1. UNCHANGED <<incidents, trail, call, assessed>>
    BY <1>2 DEF Answer, Settle, RunApproved
  <2>2. /\ verdict[c] # "unasked" /\ verdict'[c] # "unasked"
        /\ \A b \in Calls : b # c => verdict'[b] = verdict[b]
    BY <1>1, <1>2 DEF Answer, Settle, RunApproved, Gate!Answer, Gate!Settle, Gate!RunTool
  <2>3. \A b \in Calls : b # c => runs'[b] = runs[b] /\ request'[b] = request[b]
    BY <1>1, <1>2 DEF Answer, Settle, RunApproved, Gate!Answer, Gate!Settle, Gate!RunTool
  <2>4. \A b \in Calls : b # c => (Ran(b)' <=> Ran(b))
    BY <1>1, <1>2, RanAfter DEF Answer, Settle, RunApproved
  <2>5. OthersSame(c)
    BY <2>1, <2>2, <2>3, <2>4 DEF OthersSame
  <2>6. call[c].at = "REQUIRES_APPROVAL" /\ c \notin incidents /\ Last(c) = "APPROVAL_REQUESTED"
    BY <1>1, <2>2 DEF Recorded, Underway, Answered
  <2>7. Last(c)' = Last(c)
    BY <2>1 DEF Last
  <2>8. Recorded(c)'
    BY <2>1, <2>2, <2>6, <2>7 DEF Recorded, Underway, Answered, Unopened, Opened
  <2> QED
    BY <2>5, <2>8, OthersRecorded
<1>3. ASSUME NEW c \in Calls, Die(c) PROVE \A b \in Calls : Recorded(b)'
  <2>1. UNCHANGED <<request, trail, incidents, verdict, runs, order, assessed>>
    BY <1>3 DEF Die
  <2>2. call'[c].at = "dead" /\ OthersStay(c)
    BY <1>1, <1>3, Returns DEF Die, Labels
  <2>3. \A b \in Calls : Ran(b)' <=> Ran(b)
    BY <1>1, <2>1, RanAfter
  <2>4. OthersSame(c)
    BY <2>1, <2>2, <2>3 DEF OthersSame, OthersStay
  <2>5. call[c].at \notin Results
    BY <1>3 DEF Die, InFlight, Returned
  <2>6. c \notin incidents /\ verdict[c] = "unasked"
    BY <1>1, <2>5 DEF Recorded, Underway, Results
  <2>7. Recorded(c)'
    BY <2>1, <2>2, <2>6 DEF Recorded, Underway, Answered, Unopened, Opened
  <2> QED
    BY <2>4, <2>7, OthersRecorded
<1>4. CASE End \/ Edit \/ UNCHANGED vars
  <2>1. UNCHANGED <<request, incidents, trail, call, verdict, order>>
    BY <1>4 DEF End, Edit, vars
  <2>2. \A b \in Calls : (Ran(b)' <=> Ran(b)) /\ Last(b)' = Last(b)
    BY <2>1 DEF Ran, Last
  <2>3. \A b \in Calls : Underway(b)'
    BY <1>1, <2>1, <2>2 DEF Recorded, Underway
  <2>4. \A b \in Calls : Answered(b)'
    BY <1>1, <2>1, <2>2 DEF Recorded, Answered
  <2> QED
    BY <2>3, <2>4 DEF Recorded
<1> QED
  BY <1>2, <1>3, <1>4 DEF Next

LEMMA RecordNext == RecordInv /\ [Next]_vars => RecordInv'
<1> SUFFICES ASSUME RecordInv, [Next]_vars PROVE RecordInv'
  OBVIOUS
<1>1. GatewayInv'
  BY GatewayNext DEF RecordInv
<1>2. ASSUME NEW c \in Calls, Execute(c) PROVE \A b \in Calls : Recorded(b)'
  <2>1. OthersSame(c)
    BY <1>2, ExecuteAlone DEF RecordInv, GatewayInv, TypeInv
  <2>2. Recorded(c)'
    BY <1>2, OpeningRecorded, JudgingRecorded, EndingRecorded DEF Execute
  <2> QED
    BY <2>1, <2>2, OthersRecorded
<1>3. CASE \A c \in Calls : ~Execute(c)
  BY <1>1, <1>3, SessionsRecorded DEF RecordInv
<1> QED
  BY <1>1, <1>2, <1>3 DEF RecordInv

\* Whatever the gateway answers is what the rows, the incidents and the trail
\* say, for every set of policies, tools, arguments, edits, calls and crashes:
\* no answer of an operator or the clock, no crash and no other call makes the
\* record of a call that has returned say something else than its answer.
THEOREM AnswersRecorded == Spec => []AnswersAreOnRecord
<1>1. RecordInv => AnswersAreOnRecord
  <2> SUFFICES ASSUME RecordInv, NEW c \in Calls
               PROVE  /\ At(c, "EXECUTED") =>
                            Ran(c) /\ request[c] = "EXECUTED" /\ Last(c) = "TOOL_EXECUTED"
                      /\ At(c, "BLOCKED") =>
                            /\ ~Ran(c) /\ request[c] = "DENIED"
                            /\ Last(c) \in {"ACTION_DENIED", "POLICY_BLOCKED",
                                            "ACTION_BLOCKED_BY_RISK", "SECURITY_INCIDENT_CREATED"}
                            /\ c \in incidents <=> Last(c) = "SECURITY_INCIDENT_CREATED"
                      /\ At(c, "REQUIRES_APPROVAL") =>
                            verdict[c] # "unasked" /\ Last(c) = "APPROVAL_REQUESTED"
                      /\ At(c, "FAILED") =>
                            /\ verdict[c] = "unasked"
                            /\ request[c] \in {"NONE", "REQUESTED", "FAILED"}
                            /\ request[c] = "REQUESTED" => ~Ran(c)
    BY DEF AnswersAreOnRecord
  <2>1. Answered(c)
    BY DEF RecordInv, Recorded
  <2> QED
    BY <2>1 DEF Answered, At
<1> QED
  BY RecordInit, RecordNext, <1>1, PTL DEF Spec

-----------------------------------------------------------------------------
(* The inductive invariant of NothingLeavesAfterARead.  It rests on the      *)
(* stepping lease: the calls of an execution come one after the other, and   *)
(* none begins while a question is open; so what an assessment saw of the    *)
(* earlier calls is what there is when its call runs.                        *)

Pending(c) == verdict[c] \in {"open", "granted", "refused"}

Apart ==
    /\ \A b, c \in Calls : InFlight(b) /\ InFlight(c) => b = c
    /\ \A b, c \in Calls : Pending(b) /\ Pending(c) => b = c
    /\ \A b \in Calls : Pending(b) => execution # "RUNNING" /\ \A c \in Calls : ~InFlight(c)

\* The calls of an execution have read customer data.
ReadData == \E c \in Calls : Ran(c) /\ Tool(c) \in Risk!CustomerDataReadTools

\* No export and no e-mail is ever allowed outright.
Guarded(c) ==
    /\ Ran(c) \/ verdict[c] # "unasked" => request[c] # "NONE"
    /\ call[c].at \in Before \ {"ending"} => assessed[c] = "NONE"
    /\ Tool(c) \in Risk!DataExportTools =>
          /\ assessed[c] # "ALLOW"
          /\ call[c].at \in {"weighing", "ending"} => call[c].risk # "ALLOW"

\* An e-mail that may still be sent was weighed before any read.
Exposed(c) ==
    /\ Tool(c) = "send_external_email"
    /\ \/ Pending(c)
       \/ call[c].at \in {"weighing", "ending"} /\ call[c].risk # "BLOCK"

Clean(c) == Exposed(c) => ~ReadData

LeaveInv ==
    /\ RecordInv
    /\ Apart
    /\ \A c \in Calls : Guarded(c)
    /\ \A c \in Calls : Clean(c)
    /\ NothingLeavesAfterARead

LEMMA LeaveInit == Init => LeaveInv
<1> SUFFICES ASSUME Init PROVE LeaveInv
  OBVIOUS
<1>1. \A c \in Calls : call[c].at = "idle"
  <2>1. (CHOOSE input \in Inputs : TRUE) \in Inputs /\ "idle" \in Labels
    BY GatewayAssumption DEF Labels
  <2> QED
    BY <2>1, LocalType DEF Init
<1>2. \A c \in Calls : /\ ~Ran(c) /\ verdict[c] = "unasked" /\ ~Pending(c)
                      /\ assessed[c] = "NONE" /\ ~InFlight(c)
  BY <1>1 DEF Init, Ran, Gate!GateInit, Pending, InFlight, At
<1>3. Apart
  BY <1>2 DEF Apart
<1>4. \A c \in Calls : Guarded(c) /\ Clean(c)
  BY <1>1, <1>2 DEF Guarded, Clean, Exposed
<1>5. NothingLeavesAfterARead
  BY DEF Init, NothingLeavesAfterARead
<1> QED
  BY <1>3, <1>4, <1>5, RecordInit DEF LeaveInv

\* Whoever executes anything but a beginning was in flight already.
LEMMA OnlyBeginsBegin ==
  ASSUME TypeOK, NEW c \in Calls, Execute(c), ~Begin(c)
  PROVE  InFlight(c)
  BY DEF Execute, Announce, Look, Refuse, Deny, Open, Evaluate, Decide, Assess,
         Weigh, Block, Park, Allow, RunTool, RecordOutcome, InFlight, Returned, Results, At

LEMMA BeginsAlone ==
  ASSUME Leased, RecordInv, NEW c \in Calls, Begin(c)
  PROVE  /\ \A b \in Calls : ~InFlight(b)
         /\ InFlight(c)' => execution = "RUNNING"
         /\ call[c].at = "idle" /\ ~Ran(c) /\ verdict[c] = "unasked"
         /\ call'[c].at \in {"announcing", "FAILED"}
         /\ UNCHANGED <<execution, request, assessed, verdict, runs, order>>
<1>1. call \in [Calls -> CallRecords] /\ Judged(c)
  BY DEF RecordInv, GatewayInv, TypeInv, TypeOK, CallRecords
<1>2. \A b \in Calls : ~InFlight(b)
  BY DEF Begin
<1>3. call[c].at = "idle" /\ ~Ran(c) /\ verdict[c] = "unasked"
  BY <1>1 DEF Begin, At, Judged, Before
<1>4. call'[c].at = IF execution = "RUNNING" THEN "announcing" ELSE "FAILED"
  <2> DEFINE label == IF execution = "RUNNING" THEN "announcing" ELSE "FAILED"
  <2>1. PICK input \in Inputs : call' = [call EXCEPT ![c] = Local(label, input)]
    BY DEF Begin
  <2>2. label \in Labels
    BY DEF Labels, Results
  <2> QED
    BY <1>1, <2>1, <2>2, LocalType
<1>5. UNCHANGED <<execution, request, assessed, verdict, runs, order>>
  BY DEF Begin, Elsewhere, rows, gate
<1> QED
  BY <1>2, <1>3, <1>4, <1>5 DEF InFlight, Returned, Results, At

LEMMA ApartNext ==
  ASSUME Leased, RecordInv, Apart, [Next]_vars
  PROVE  Apart'
<1> USE DEF settings, rows, gate, bounds, Set
<1>1. TypeOK /\ verdict \in [Calls -> Gate!Verdicts] /\ call \in [Calls -> CallRecords]
  BY DEF RecordInv, GatewayInv, TypeInv, TypeOK, Gate!GateTypeOK, CallRecords
<1>2. ASSUME NEW c \in Calls, Execute(c) PROVE Apart'
  <2>1. /\ \A b \in Calls : b # c => (InFlight(b)' <=> InFlight(b))
        /\ \A b \in Calls : b # c => (Pending(b)' <=> Pending(b))
    BY <1>1, <1>2, ExecuteAlone DEF OthersSame, InFlight, Returned, At, Pending
  <2>2. CASE Begin(c)
    <3>1. /\ \A b \in Calls : ~InFlight(b)
          /\ InFlight(c)' => execution = "RUNNING"
          /\ execution' = execution /\ ~Pending(c) /\ ~Pending(c)'
      BY <2>2, BeginsAlone DEF Pending
    <3> QED
      BY <2>1, <3>1 DEF Apart
  <2>3. CASE Park(c) /\ execution = "RUNNING"
    <3>1. InFlight(c)
      BY <2>3 DEF Park, InFlight, Returned, Results, At
    <3>2. call'[c].at = "REQUIRES_APPROVAL"
      BY <1>1, <2>3, Returns DEF Park, Labels, Results
    <3>3. ~InFlight(c)' /\ execution' # "RUNNING"
      BY <2>3, <3>2 DEF Park, InFlight, Returned, Results, At
    <3> QED
      BY <2>1, <3>1, <3>3 DEF Apart
  <2>4. CASE ~Begin(c) /\ ~(Park(c) /\ execution = "RUNNING")
    <3>1. InFlight(c)
      BY <1>1, <1>2, <2>4, OnlyBeginsBegin
    <3>2. verdict' = verdict
      BY <1>2, <2>4 DEF Execute, Announce, Look, Refuse, Deny, Open, Evaluate, Decide, Assess,
             Weigh, Block, Park, Allow, RunTool, RecordOutcome, Elsewhere
    <3>3. \A b \in Calls : ~Pending(b)
      BY <3>1 DEF Apart
    <3>4. \A b \in Calls : ~Pending(b)'
      BY <3>2, <3>3 DEF Pending
    <3> QED
      BY <2>1, <3>1, <3>4 DEF Apart
  <2> QED
    BY <2>2, <2>3, <2>4
<1>3. ASSUME NEW c \in Calls, Answer(c) \/ RunApproved(c) PROVE Apart'
  <2>1. UNCHANGED <<execution, call>>
    BY <1>3 DEF Answer, RunApproved
  <2>2. \A b \in Calls : Pending(b)' <=> Pending(b)
    BY <1>1, <1>3 DEF Answer, RunApproved, Gate!Answer, Gate!RunTool, Pending
  <2>3. \A b \in Calls : InFlight(b)' <=> InFlight(b)
    BY <2>1 DEF InFlight, Returned, At
  <2> QED
    BY <2>1, <2>2, <2>3 DEF Apart
<1>4. ASSUME NEW c \in Calls, Settle(c) PROVE Apart'
  <2>1. Pending(c) /\ ~Pending(c)' /\ \A b \in Calls : b # c => (Pending(b)' <=> Pending(b))
    BY <1>1, <1>4 DEF Settle, Gate!Settle, Pending
  <2>2. \A b \in Calls : InFlight(b)' <=> InFlight(b)
    BY <1>4 DEF Settle, InFlight, Returned, At
  <2>3. \A b \in Calls : ~Pending(b)'
    BY <2>1 DEF Apart
  <2> QED
    BY <2>2, <2>3 DEF Apart
<1>5. ASSUME NEW c \in Calls, Die(c) PROVE Apart'
  <2>1. call'[c].at = "dead" /\ OthersStay(c)
    BY <1>1, <1>5, Returns DEF Die, Labels
  <2>2. InFlight(c) /\ \A b \in Calls : InFlight(b)' => InFlight(b)
    BY <1>5, <2>1 DEF Die, InFlight, Returned, At, OthersStay
  <2>3. execution' = execution /\ \A b \in Calls : Pending(b)' <=> Pending(b)
    BY <1>5 DEF Die, Pending
  <2> QED
    BY <2>2, <2>3 DEF Apart
<1>6. CASE End \/ Edit \/ UNCHANGED vars
  <2>1. UNCHANGED <<call, verdict>> /\ (execution' = execution \/ execution' = "ENDED")
    BY <1>6 DEF End, Edit, vars
  <2>2. \A b \in Calls : (Pending(b)' <=> Pending(b)) /\ (InFlight(b)' <=> InFlight(b))
    BY <2>1 DEF Pending, InFlight, Returned, At
  <2> QED
    BY <2>1, <2>2 DEF Apart
<1> QED
  BY <1>2, <1>3, <1>4, <1>5, <1>6 DEF Next

-----------------------------------------------------------------------------
(* What the risk engine makes of an export, an e-mail and an earlier read    *)

\* A tool that takes data out scores 50 points, which is past the threshold.
LEMMA ExportsNeedApproval ==
  ASSUME NEW found, NEW failed \in BOOLEAN, failed \/ "DATA_EXFILTRATION" \in found
  PROVE  Risk!Assess(found, 0, failed).action # "ALLOW"
<1>1. \A signal : \A weight \in Nat : Risk!Points(signal, found, weight) \in Nat
  BY DEF Risk!Points
<1>2. CASE failed
  BY <1>2 DEF Risk!Assess
<1>3. CASE "DATA_EXFILTRATION" \in found
  <2>1. Risk!Points("DATA_EXFILTRATION", found, 50) = 50
    BY <1>3 DEF Risk!Points
  <2>2. Risk!Sum(found, 0) \in Int /\ Risk!Sum(found, 0) >= 50
    BY <1>1, <2>1 DEF Risk!Sum
  <2>3. Risk!Clamp(Risk!Sum(found, 0)) \in Int /\ Risk!Clamp(Risk!Sum(found, 0)) >= 50
    BY <2>2 DEF Risk!Clamp
  <2>4. \A score \in Int : score >= 50 => Risk!ActionFor(score) # "ALLOW"
    BY DEF Risk!ActionFor, Risk!Level
  <2>5. Risk!ActionFor(Risk!Clamp(Risk!Sum(found, 0))) # "ALLOW"
    BY <2>3, <2>4
  <2> QED
    BY <2>5 DEF Risk!Assess
<1> QED
  BY <1>2, <1>3

\* An e-mail scores 50 and 20; a read before it makes it 90, and 90 is critical.
LEMMA MailAfterReadIsBlocked ==
  ASSUME NEW found, NEW failed \in BOOLEAN,
         failed \/ {"DATA_EXFILTRATION", "EXTERNAL_COMMUNICATION",
                    "UNUSUAL_TOOL_SEQUENCE"} \subseteq found
  PROVE  Risk!Assess(found, 0, failed).action = "BLOCK"
<1>1. \A signal : \A weight \in Nat : Risk!Points(signal, found, weight) \in Nat
  BY DEF Risk!Points
<1>2. CASE failed
  BY <1>2 DEF Risk!Assess
<1>3. CASE {"DATA_EXFILTRATION", "EXTERNAL_COMMUNICATION", "UNUSUAL_TOOL_SEQUENCE"} \subseteq found
  <2>1. /\ Risk!Points("DATA_EXFILTRATION", found, 50) = 50
        /\ Risk!Points("EXTERNAL_COMMUNICATION", found, 20) = 20
        /\ Risk!Points("UNUSUAL_TOOL_SEQUENCE", found, 20) = 20
    BY <1>3 DEF Risk!Points
  <2>2. Risk!Sum(found, 0) \in Int /\ Risk!Sum(found, 0) >= 90
    BY <1>1, <2>1 DEF Risk!Sum
  <2>3. Risk!Clamp(Risk!Sum(found, 0)) \in Int /\ Risk!Clamp(Risk!Sum(found, 0)) >= 90
    BY <2>2 DEF Risk!Clamp
  <2>4. \A score \in Int : score >= 90 => Risk!ActionFor(score) = "BLOCK"
    BY DEF Risk!ActionFor, Risk!Level
  <2>5. Risk!ActionFor(Risk!Clamp(Risk!Sum(found, 0))) = "BLOCK"
    BY <2>3, <2>4
  <2> QED
    BY <2>5 DEF Risk!Assess
<1> QED
  BY <1>2, <1>3

\* The assessment of a call that takes data out.
LEMMA AssessedExport ==
  ASSUME TypeOK, NEW c \in Calls, Assess(c), Tool(c) \in Risk!DataExportTools
  PROVE  /\ call'[c].at = "weighing" /\ call'[c].input = call[c].input
         /\ call'[c].risk # "ALLOW"
         /\ Tool(c) = "send_external_email"
            /\ (\E b \in Calls : request[b] # "NONE" /\ Tool(b) \in Risk!CustomerDataReadTools)
               => call'[c].risk = "BLOCK"
<1> DEFINE input == call[c].input
           signals == {s \in Risk!Signals : Risk!Detects(s, input, Earlier)}
<1>1. call \in [Calls -> CallRecords] /\ call[c] \in CallRecords
  BY DEF TypeOK, CallRecords
<1>2. input.tool \in {"export_customer_data", "send_external_email"}
  BY DEF Tool, Risk!DataExportTools
<1>3. PICK failed \in BOOLEAN, found \in SUBSET signals :
         /\ failed \/ found = signals
         /\ call' = [call EXCEPT ![c].at = "weighing",
                                 ![c].risk = Risk!Assess(found, 0, failed).action,
                                 ![c].named = (found # {})]
  BY <1>2 DEF Assess
<1>4. /\ call'[c].at = "weighing" /\ call'[c].input = call[c].input
      /\ call'[c].risk = Risk!Assess(found, 0, failed).action
  <2> DEFINE named == found # {}
             action == Risk!Assess(found, 0, failed).action
  <2>1. call' = [call EXCEPT ![c].at = "weighing", ![c].risk = action, ![c].named = named]
    BY <1>3
  <2> HIDE DEF named, action
  <2>2. call'[c].at = "weighing" /\ call'[c].input = call[c].input /\ call'[c].risk = action
    BY <1>1, <2>1 DEF CallRecords
  <2> QED
    BY <2>2 DEF action
<1>5. "DATA_EXFILTRATION" \in signals
  BY <1>2 DEF Risk!Signals, Risk!Detects, Risk!DataExportTools
<1>6. call'[c].risk # "ALLOW"
  <2>1. failed \/ "DATA_EXFILTRATION" \in found
    BY <1>3, <1>5
  <2> QED
    BY <1>4, <2>1, ExportsNeedApproval
<1>7. ASSUME Tool(c) = "send_external_email",
             NEW b \in Calls, request[b] # "NONE", Tool(b) \in Risk!CustomerDataReadTools
      PROVE  call'[c].risk = "BLOCK"
  <2>1. [tool |-> call[b].input.tool, status |-> request[b]] \in Earlier
    BY <1>7 DEF Earlier
  <2>2. Risk!AfterRead(input, Earlier)
    BY <1>7, <2>1 DEF Risk!AfterRead, Tool
  <2>3. Risk!Category("send_external_email") = "data_export"
    BY DEF Risk!Category, Risk!CustomerDataReadTools, Risk!DataExportTools
  <2>4. "UNUSUAL_TOOL_SEQUENCE" \in signals
    BY <1>7, <2>2, <2>3 DEF Risk!Signals, Risk!Detects, Tool
  <2>5. "EXTERNAL_COMMUNICATION" \in signals
    BY <1>7 DEF Risk!Signals, Risk!Detects, Risk!ExternalCommunicationTools, Tool
  <2> HIDE DEF signals
  <2>6. failed \/ {"DATA_EXFILTRATION", "EXTERNAL_COMMUNICATION",
                   "UNUSUAL_TOOL_SEQUENCE"} \subseteq found
    BY <1>3, <1>5, <2>4, <2>5
  <2> QED
    BY <1>4, <2>6, MailAfterReadIsBlocked
<1> QED
  BY <1>4, <1>6, <1>7

-----------------------------------------------------------------------------
(* The steps                                                                 *)

\* What a call is for is fixed when it begins.
LEMMA InputStays ==
  ASSUME TypeOK, NEW c \in Calls, Execute(c), ~Begin(c)
  PROVE  call'[c].input = call[c].input
<1>1. call \in [Calls -> CallRecords] /\ call[c] \in CallRecords
  BY DEF TypeOK, CallRecords
<1>2. ASSUME NEW label \in Labels, Goto(c, label) PROVE call'[c].input = call[c].input
  BY <1>2, Goes
<1>3. ASSUME NEW label \in Labels, Return(c, label) PROVE call'[c].input = call[c].input
  <2>1. call'[c] = Local(label, call[c].input) /\ call[c].input \in Inputs
    BY <1>1, <1>3, Returns DEF CallRecords
  <2> QED
    BY <2>1, LocalType
<1>4. {"looking", "refusing", "evaluating", "assessing", "ending", "running", "FAILED",
       "BLOCKED", "REQUIRES_APPROVAL", "EXECUTED"} \subseteq Labels
  BY DEF Labels, Results
<1>5. CASE Announce(c) \/ Open(c) \/ Weigh(c) \/ Allow(c)
  BY <1>2, <1>4, <1>5 DEF Announce, Open, Weigh, Allow
<1>6. CASE Refuse(c) \/ Deny(c) \/ Block(c) \/ Park(c)
  BY <1>3, <1>4, <1>6 DEF Refuse, Deny, Block, Park
<1>7. CASE Decide(c)
  BY <1>2, <1>3, <1>4, <1>7 DEF Decide
<1>8. CASE RecordOutcome(c)
  BY <1>3, <1>4, <1>8 DEF RecordOutcome
<1>9. CASE Look(c)
  <2>1. CASE Goto(c, "refusing")
    BY <1>2, <1>4, <2>1
  <2>2. CASE call' = [call EXCEPT ![c].at = "opening",
                                  ![c].permission = permission[call[c].input.tool]]
    BY <1>1, <2>2 DEF CallRecords
  <2> QED
    BY <1>9, <2>1, <2>2 DEF Look
<1>10. CASE Evaluate(c)
  BY <1>1, <1>10 DEF Evaluate, CallRecords
<1>11. CASE Assess(c)
  <2>1. \E risk, named : call' = [call EXCEPT ![c].at = "weighing", ![c].risk = risk,
                                              ![c].named = named]
    BY <1>11 DEF Assess
  <2> QED
    BY <1>1, <2>1 DEF CallRecords
<1>12. CASE RunTool(c)
  BY <1>1, <1>12 DEF RunTool, CallRecords
<1> QED
  BY <1>5, <1>6, <1>7, <1>8, <1>9, <1>10, <1>11, <1>12 DEF Execute

\* Where the steps before the tool lead.
LEMMA Leads ==
  ASSUME TypeOK, NEW c \in Calls
  PROVE  /\ Announce(c) => call'[c].at = "looking"
         /\ Look(c) => call'[c].at \in {"opening", "refusing"}
         /\ Refuse(c) => call'[c].at = "FAILED"
         /\ Deny(c) => call'[c].at = "BLOCKED"
         /\ Open(c) => call'[c].at \in {"evaluating", "assessing"}
         /\ Evaluate(c) => call'[c].at = "deciding"
         /\ Decide(c) => call'[c].at \in {"BLOCKED", "assessing"}
         /\ Assess(c) => call'[c].at = "weighing"
         /\ Weigh(c) => call'[c].at = "ending" /\ call'[c].risk = call[c].risk
         /\ Block(c) => call'[c].at = "BLOCKED"
         /\ Park(c) => call'[c].at \in {"REQUIRES_APPROVAL", "FAILED"}
         /\ Allow(c) => call'[c].at = "running"
         /\ RunTool(c) => call'[c].at = "recording"
         /\ RecordOutcome(c) => call'[c].at \in {"EXECUTED", "FAILED"}
<1>1. call \in [Calls -> CallRecords] /\ call[c] \in CallRecords
  BY DEF TypeOK, CallRecords
<1>2. {"looking", "refusing", "evaluating", "assessing", "ending", "running", "FAILED",
       "BLOCKED", "REQUIRES_APPROVAL", "EXECUTED"} \subseteq Labels
  BY DEF Labels, Results
<1>3. ASSUME NEW label \in Labels PROVE Goto(c, label) \/ Return(c, label) => call'[c].at = label
  BY Goes, Returns
<1>4. Announce(c) => call'[c].at = "looking"
  BY <1>2, <1>3 DEF Announce
<1>5. Look(c) => call'[c].at \in {"opening", "refusing"}
  <2>1. ASSUME call' = [call EXCEPT ![c].at = "opening",
                                    ![c].permission = permission[call[c].input.tool]]
        PROVE  call'[c].at = "opening"
    BY <1>1, <2>1 DEF CallRecords
  <2> QED
    BY <1>2, <1>3, <2>1 DEF Look
<1>6. Refuse(c) => call'[c].at = "FAILED"
  BY <1>2, <1>3 DEF Refuse
<1>7. Deny(c) => call'[c].at = "BLOCKED"
  BY <1>2, <1>3 DEF Deny
<1>8. Open(c) => call'[c].at \in {"evaluating", "assessing"}
  BY <1>2, <1>3 DEF Open
<1>9. Evaluate(c) => call'[c].at = "deciding"
  BY <1>1 DEF Evaluate, CallRecords
<1>10. Decide(c) => call'[c].at \in {"BLOCKED", "assessing"}
  BY <1>2, <1>3 DEF Decide
<1>11. Assess(c) => call'[c].at = "weighing"
  <2>1. Assess(c) => \E risk, named :
           call' = [call EXCEPT ![c].at = "weighing", ![c].risk = risk, ![c].named = named]
    BY DEF Assess
  <2> QED
    BY <1>1, <2>1 DEF CallRecords
<1>12. Weigh(c) => call'[c].at = "ending" /\ call'[c].risk = call[c].risk
  BY <1>2, Goes DEF Weigh
<1>13. Block(c) => call'[c].at = "BLOCKED"
  BY <1>2, <1>3 DEF Block
<1>14. Park(c) => call'[c].at \in {"REQUIRES_APPROVAL", "FAILED"}
  BY <1>2, <1>3 DEF Park
<1>15. Allow(c) => call'[c].at = "running"
  BY <1>2, <1>3 DEF Allow
<1>16. RunTool(c) => call'[c].at = "recording"
  BY <1>1 DEF RunTool, CallRecords
<1>17. RecordOutcome(c) => call'[c].at \in {"EXECUTED", "FAILED"}
  BY <1>2, <1>3 DEF RecordOutcome
<1> QED
  BY <1>4, <1>5, <1>6, <1>7, <1>8, <1>9, <1>10, <1>11, <1>12, <1>13, <1>14, <1>15, <1>16, <1>17

LEMMA ExecuteGuarded ==
  ASSUME Leased, RecordInv, NEW c \in Calls, Guarded(c), Execute(c)
  PROVE  Guarded(c)'
<1> USE DEF Elsewhere, settings, rows, gate, bounds, Set
<1>1. /\ TypeOK /\ call \in [Calls -> CallRecords] /\ request \in [Calls -> RequestStatuses]
      /\ assessed \in [Calls -> Maybe(Policy!Actions)]
      /\ Judged(c) /\ Underway(c)
  BY DEF RecordInv, GatewayInv, TypeInv, TypeOK, CallRecords, Recorded
<1>2. ~Begin(c) => Tool(c)' = Tool(c)
  BY <1>1, InputStays DEF Tool
<1>3. ASSUME call[c].at \in Before, order' = order PROVE verdict[c] = "unasked" /\ ~Ran(c)'
  BY <1>1, <1>3 DEF Judged, Ran
<1>4. CASE Begin(c)
  <2>1. /\ call[c].at = "idle" /\ ~Ran(c) /\ call'[c].at \in {"announcing", "FAILED"}
        /\ verdict[c] = "unasked" /\ UNCHANGED <<assessed, order, verdict>>
    BY <1>4, BeginsAlone
  <2>2. assessed[c] = "NONE" /\ ~Ran(c)' /\ verdict'[c] = "unasked"
    BY <2>1 DEF Guarded, Before, Ran
  <2> QED
    BY <2>1, <2>2 DEF Guarded
<1>5. CASE \/ Announce(c) \/ Look(c) \/ Refuse(c) \/ Deny(c) \/ Open(c) \/ Evaluate(c) \/ Decide(c)
           \/ Block(c) \/ Park(c) \/ Allow(c)
  <2>1. call[c].at \in Before /\ ~Begin(c)
    BY <1>5 DEF Announce, Look, Refuse, Deny, Open, Evaluate, Decide, Block, Park, Allow, At, Before,
                Begin
  <2>2. UNCHANGED <<assessed, order>>
    BY <1>5 DEF Announce, Look, Refuse, Deny, Open, Evaluate, Decide, Block, Park, Allow
  <2>3. /\ call'[c].at \notin {"weighing", "ending"}
        /\ call'[c].at \in Before => call[c].at \in Before \ {"ending"}
    BY <1>1, <1>5, Leads DEF Before, Announce, Look, Refuse, Deny, Open, Evaluate, Decide, Block, Park,
       Allow, At
  <2>4. verdict[c] = "unasked" /\ ~Ran(c)' /\ Tool(c)' = Tool(c)
    BY <1>2, <1>3, <2>1, <2>2
  <2>5. verdict'[c] = verdict[c] \/ request'[c] = "REQUIRES_APPROVAL"
    BY <1>1, <1>5 DEF Announce, Look, Refuse, Deny, Open, Evaluate, Decide, Block, Park, Allow
  <2> QED
    BY <2>2, <2>3, <2>4, <2>5 DEF Guarded
<1>6. CASE Assess(c)
  <2>1. call[c].at \in Before \ {"ending"} /\ ~Begin(c) /\ UNCHANGED <<assessed, order, verdict>>
    BY <1>6 DEF Assess, At, Before, Begin
  <2>2. call'[c].at = "weighing" /\ ~Ran(c)' /\ verdict[c] = "unasked" /\ Tool(c)' = Tool(c)
    BY <1>1, <1>2, <1>3, <1>6, <2>1, Leads
  <2>3. Tool(c) \in Risk!DataExportTools => call'[c].risk # "ALLOW"
    BY <1>1, <1>6, AssessedExport
  <2>4. assessed[c] = "NONE"
    BY <2>1 DEF Guarded
  <2> QED
    BY <2>1, <2>2, <2>3, <2>4 DEF Guarded
<1>7. CASE Weigh(c)
  <2>1. call[c].at = "weighing" /\ call[c].at \in Before /\ ~Begin(c) /\ UNCHANGED <<order, verdict>>
    BY <1>7 DEF Weigh, At, Before, Begin
  <2>2. /\ call'[c].at = "ending" /\ call'[c].risk = call[c].risk
        /\ ~Ran(c)' /\ verdict[c] = "unasked" /\ Tool(c)' = Tool(c)
    BY <1>1, <1>2, <1>3, <1>7, <2>1, Leads
  <2>3. assessed'[c] = call[c].risk
    BY <1>1, <1>7 DEF Weigh
  <2>4. Tool(c) \in Risk!DataExportTools => call[c].risk # "ALLOW"
    BY <2>1 DEF Guarded
  <2> QED
    BY <2>1, <2>2, <2>3, <2>4 DEF Guarded
<1>8. CASE RunTool(c)
  <2>1. call[c].at = "running" /\ ~Begin(c) /\ UNCHANGED <<request, assessed>>
    BY <1>8 DEF RunTool, At, Begin
  <2>2. request'[c] = "REQUESTED"
    BY <1>1, <2>1 DEF Underway, Opened
  <2>3. call'[c].at = "recording" /\ Tool(c)' = Tool(c)
    BY <1>1, <1>2, <1>8, <2>1, Leads
  <2> QED
    BY <2>1, <2>2, <2>3 DEF Guarded, Before
<1>9. CASE RecordOutcome(c)
  <2>1. ~Begin(c) /\ UNCHANGED assessed /\ request'[c] \in {"EXECUTED", "FAILED"}
    BY <1>1, <1>9 DEF RecordOutcome, At, Begin
  <2>2. call'[c].at \in {"EXECUTED", "FAILED"} /\ Tool(c)' = Tool(c)
    BY <1>1, <1>2, <1>9, <2>1, Leads
  <2> QED
    BY <2>1, <2>2 DEF Guarded, Before
<1> QED
  BY <1>4, <1>5, <1>6, <1>7, <1>8, <1>9 DEF Execute

LEMMA GuardedNext ==
  ASSUME Leased, LeaveInv, [Next]_vars
  PROVE  \A b \in Calls : Guarded(b)'
<1> USE DEF settings, rows, gate, bounds, Set
<1>1. /\ TypeOK /\ RecordInv /\ call \in [Calls -> CallRecords]
      /\ request \in [Calls -> RequestStatuses] /\ verdict \in [Calls -> Gate!Verdicts]
      /\ \A b \in Calls : Guarded(b)
  BY DEF LeaveInv, RecordInv, GatewayInv, TypeInv, TypeOK, CallRecords, Gate!GateTypeOK
<1>2. ASSUME NEW c \in Calls, Execute(c) PROVE \A b \in Calls : Guarded(b)'
  <2>1. Guarded(c)'
    BY <1>1, <1>2, ExecuteGuarded
  <2>2. OthersSame(c)
    BY <1>1, <1>2, ExecuteAlone
  <2> QED
    BY <1>1, <2>1, <2>2 DEF OthersSame, Guarded, Tool
<1>3. ASSUME NEW c \in Calls, Answer(c) \/ Settle(c) \/ RunApproved(c)
      PROVE  \A b \in Calls : Guarded(b)'
  <2>1. UNCHANGED <<assessed, call>>
    BY <1>3 DEF Answer, Settle, RunApproved
  <2>2. verdict[c] # "unasked" /\ call[c].at \notin Before
    BY <1>1, <1>3 DEF RecordInv, Recorded, Underway, Before, Answer, Settle, RunApproved,
       Gate!Answer, Gate!Settle, Gate!RunTool
  <2>3. request[c] \notin {"NONE"} => request'[c] # "NONE"
    BY <1>1, <1>3 DEF Answer, Settle, RunApproved
  <2>4. \A b \in Calls : b # c => request'[b] = request[b] /\ (Ran(b)' <=> Ran(b))
    BY <1>1, <1>3, RanAfter DEF Answer, Settle, RunApproved
  <2>5. request[c] # "NONE" /\ \A b \in Calls : b # c => verdict'[b] = verdict[b]
    BY <1>1, <1>3, <2>2 DEF Guarded, Answer, Settle, RunApproved, Gate!Answer, Gate!Settle,
       Gate!RunTool
  <2> QED
    BY <1>1, <2>1, <2>3, <2>4, <2>5 DEF Guarded, Tool
<1>4. ASSUME NEW c \in Calls, Die(c) PROVE \A b \in Calls : Guarded(b)'
  <2>1. UNCHANGED <<request, assessed, order, verdict>>
    BY <1>4 DEF Die
  <2>2. /\ call'[c].at = "dead" /\ OthersStay(c)
        /\ call'[c].input = call[c].input
    <3>1. /\ call'[c] = Local("dead", call[c].input) /\ call'[c].at = "dead" /\ OthersStay(c)
          /\ call[c].input \in Inputs
      BY <1>1, <1>4, Returns DEF Die, Labels, CallRecords
    <3> QED
      BY <3>1, LocalType DEF Labels
  <2>3. \A b \in Calls : Ran(b)' <=> Ran(b)
    BY <1>1, <2>1, RanAfter
  <2>4. Guarded(c)'
    BY <1>1, <2>1, <2>2, <2>3 DEF Guarded, Tool, Before
  <2> QED
    BY <1>1, <2>1, <2>2, <2>3, <2>4 DEF Guarded, Tool, OthersStay
<1>5. CASE End \/ Edit \/ UNCHANGED vars
  <2>1. UNCHANGED <<request, assessed, call, order, verdict>>
    BY <1>5 DEF End, Edit, vars
  <2>2. \A b \in Calls : Ran(b)' <=> Ran(b)
    BY <1>1, <2>1, RanAfter
  <2> QED
    BY <1>1, <2>1, <2>2 DEF Guarded, Tool
<1> QED
  BY <1>2, <1>3, <1>4, <1>5 DEF Next

\* A read is a tool that ran, and what ran keeps its call.
LEMMA ReadsStay ==
  ASSUME TypeOK, order' = order, \A b \in Calls : Ran(b) => call'[b].input = call[b].input
  PROVE  ReadData' <=> ReadData
<1>1. \A b \in Calls : Ran(b)' <=> Ran(b)
  BY DEF Ran
<1> QED
  BY <1>1 DEF ReadData, Tool

\* Who ran has its arguments for good.
LEMMA RanKeepsInput ==
  ASSUME Leased, RecordInv, [Next]_vars, NEW b \in Calls, Ran(b)
  PROVE  call'[b].input = call[b].input
<1> USE DEF settings, rows, gate, bounds
<1>1. TypeOK /\ call \in [Calls -> CallRecords]
  BY DEF RecordInv, GatewayInv, TypeInv, TypeOK, CallRecords
<1>2. ASSUME NEW c \in Calls, Execute(c) PROVE call'[b].input = call[b].input
  <2>1. CASE b = c
    BY <1>1, <1>2, <2>1, InputStays, BeginsAlone
  <2>2. CASE b # c
    BY <1>1, <1>2, <2>2, CallAlone DEF OthersStay
  <2> QED
    BY <2>1, <2>2
<1>3. ASSUME NEW c \in Calls, Die(c) PROVE call'[b].input = call[b].input
  <2>1. /\ call'[c] = Local("dead", call[c].input) /\ OthersStay(c)
        /\ call[c].input \in Inputs /\ "dead" \in Labels
    BY <1>1, <1>3, Returns DEF Die, Labels, CallRecords
  <2> QED
    BY <2>1, LocalType DEF OthersStay
<1> QED
  BY <1>2, <1>3 DEF Next, Answer, Settle, RunApproved, End, Edit, vars

\* A call comes to be exposed by its assessment alone.
LEMMA ExposedBefore ==
  ASSUME Leased, RecordInv, Apart, NEW c \in Calls, Execute(c), ~Assess(c), Exposed(c)'
  PROVE  Exposed(c)
<1> USE DEF Elsewhere, settings, rows, gate, bounds, Set
<1>1. TypeOK /\ call \in [Calls -> CallRecords] /\ verdict \in [Calls -> Gate!Verdicts]
  BY DEF RecordInv, GatewayInv, TypeInv, TypeOK, CallRecords, Gate!GateTypeOK
<1>2. ~Begin(c)
  <2> SUFFICES ASSUME Begin(c) PROVE FALSE
    OBVIOUS
  <2>1. call'[c].at \in {"announcing", "FAILED"} /\ ~Pending(c)'
    BY BeginsAlone DEF Pending
  <2> QED
    BY <2>1 DEF Exposed
<1>3. InFlight(c) /\ Tool(c)' = Tool(c)
  BY <1>1, <1>2, OnlyBeginsBegin, InputStays DEF Tool
<1>4. CASE call'[c].at \in {"weighing", "ending"}
  <2>1. Weigh(c)
    BY <1>1, <1>2, <1>4, Leads DEF Execute
  <2>2. call[c].at = "weighing" /\ call'[c].risk = call[c].risk /\ ~Pending(c)'
    <3>1. ~Pending(c)
      BY <1>3 DEF Apart
    <3> QED
      BY <1>1, <2>1, <3>1, Leads DEF Weigh, At, Pending
  <2> QED
    BY <1>3, <2>2 DEF Exposed
<1>5. CASE call'[c].at \notin {"weighing", "ending"}
  <2>1. Pending(c)' /\ ~Pending(c)
    BY <1>3, <1>5 DEF Exposed, Apart
  <2>2. Park(c)
    BY <1>2, <2>1 DEF Execute, Announce, Look, Refuse, Deny, Open, Evaluate, Decide, Assess,
       Weigh, Block, Allow, RunTool, RecordOutcome, Pending
  <2>3. call[c].at = "ending" /\ Risk!Combine(call[c].policy, call[c].risk) = "REQUIRE_APPROVAL"
    BY <2>2 DEF Park, At, Decision
  <2>4. call[c].policy \in Policy!Actions /\ call[c].risk \in Policy!Actions
    BY <1>1 DEF CallRecords
  <2>5. call[c].risk # "BLOCK"
    BY <2>3, <2>4, CombineFacts
  <2> QED
    BY <1>3, <2>3, <2>5 DEF Exposed
<1> QED
  BY <1>4, <1>5

LEMMA CleanNext ==
  ASSUME Leased, LeaveInv, [Next]_vars
  PROVE  \A b \in Calls : Clean(b)'
<1> USE DEF settings, rows, gate, bounds, Set
<1>1. /\ TypeOK /\ RecordInv /\ Apart /\ call \in [Calls -> CallRecords]
      /\ verdict \in [Calls -> Gate!Verdicts]
      /\ \A b \in Calls : Clean(b) /\ Guarded(b)
  BY DEF LeaveInv, RecordInv, GatewayInv, TypeInv, TypeOK, CallRecords, Gate!GateTypeOK
<1>2. \A b \in Calls : Ran(b) => call'[b].input = call[b].input
  BY <1>1, RanKeepsInput
<1>3. order' = order => (ReadData' <=> ReadData)
  BY <1>1, <1>2, ReadsStay
<1>4. ASSUME NEW c \in Calls, Execute(c), NEW b \in Calls, Exposed(b)' PROVE ~ReadData'
  <2>1. OthersSame(c)
    BY <1>1, <1>4, ExecuteAlone
  <2>2. CASE b # c
    <3>1. Exposed(b)
      BY <1>4, <2>1, <2>2 DEF Exposed, Pending, Tool, OthersSame
    <3>2. InFlight(b) \/ Pending(b)
      BY <3>1 DEF Exposed, InFlight, Returned, Results, At
    <3>3. ~InFlight(c)
      BY <1>1, <2>2, <3>2 DEF Apart
    <3>4. Begin(c)
      BY <1>1, <1>4, <3>3, OnlyBeginsBegin
    <3>5. order' = order
      BY <1>1, <3>4, BeginsAlone
    <3> QED
      BY <1>1, <1>3, <3>1, <3>5 DEF Clean
  <2>3. CASE b = c /\ ~Assess(c)
    <3>1. Exposed(c)
      BY <1>1, <1>4, <2>3, ExposedBefore
    <3>2. ~RunTool(c)
      <4>1. ASSUME RunTool(c) PROVE FALSE
        <5>1. call[c].at = "running" /\ InFlight(c)
          BY <4>1 DEF RunTool, InFlight, Returned, Results, At
        <5>2. ~Pending(c)
          BY <1>1, <5>1 DEF Apart
        <5> QED
          BY <3>1, <5>1, <5>2 DEF Exposed
      <4> QED
        BY <4>1
    <3>3. order' = order
      BY <1>4, <3>2 DEF Execute, Begin, Announce, Look, Refuse, Deny, Open, Evaluate, Decide,
         Assess, Weigh, Block, Park, Allow, RecordOutcome, Elsewhere
    <3> QED
      BY <1>1, <1>3, <3>1, <3>3 DEF Clean
  <2>4. CASE b = c /\ Assess(c)
    <3>1. InFlight(c) /\ order' = order /\ verdict' = verdict
      BY <2>4 DEF Assess, InFlight, Returned, Results, At, Elsewhere
    <3>2. ~Pending(c) /\ ~Pending(c)'
      BY <1>1, <3>1 DEF Apart, Pending
    <3>3. Tool(c)' = Tool(c)
      BY <1>1, <1>4, <2>4, InputStays DEF Tool, Begin, Assess, At
    <3>4. Tool(c) = "send_external_email" /\ call'[c].risk # "BLOCK"
      BY <1>4, <2>4, <3>2, <3>3 DEF Exposed
    <3>5. Tool(c) \in Risk!DataExportTools
      BY <3>4 DEF Risk!DataExportTools
    <3>6. ~ \E a \in Calls : request[a] # "NONE" /\ Tool(a) \in Risk!CustomerDataReadTools
      BY <1>1, <2>4, <3>4, <3>5, AssessedExport
    <3>7. ~ReadData
      BY <1>1, <3>6 DEF ReadData, Guarded
    <3> QED
      BY <1>3, <3>1, <3>7
  <2> QED
    BY <2>2, <2>3, <2>4
<1>5. ASSUME NEW c \in Calls, RunApproved(c), NEW b \in Calls, Exposed(b)' PROVE ~ReadData'
  <2>1. Pending(c) /\ UNCHANGED <<call, verdict>> /\ order' = Append(order, c)
    BY <1>5 DEF RunApproved, Gate!RunTool, Pending
  <2>2. Exposed(b)
    BY <1>5, <2>1 DEF Exposed, Pending, Tool
  <2>3. b = c
    <3>1. ~InFlight(b)
      BY <1>1, <2>1 DEF Apart
    <3>2. Pending(b)
      BY <2>2, <3>1 DEF Exposed, InFlight, Returned, Results, At
    <3> QED
      BY <1>1, <2>1, <3>2 DEF Apart
  <2>4. Tool(c) \notin Risk!CustomerDataReadTools
    BY <2>2, <2>3 DEF Exposed, Risk!CustomerDataReadTools
  <2>5. \A a \in Calls : a # c => (Ran(a)' <=> Ran(a))
    BY <1>1, <2>1, RanAfter
  <2>6. ~ReadData
    BY <1>1, <2>2 DEF Clean
  <2> QED
    BY <2>1, <2>4, <2>5, <2>6 DEF ReadData, Tool
<1>6. ASSUME NEW c \in Calls, Answer(c) \/ Settle(c) \/ Die(c), NEW b \in Calls, Exposed(b)'
      PROVE  ~ReadData'
  <2>1. order' = order
    BY <1>6 DEF Answer, Settle, Die
  <2>2. CASE Answer(c) \/ Settle(c)
    <3>1. call' = call /\ (Pending(b)' => Pending(b))
      BY <1>1, <2>2 DEF Answer, Settle, Gate!Answer, Gate!Settle, Pending
    <3>2. Exposed(b)
      BY <1>6, <3>1 DEF Exposed, Tool
    <3> QED
      BY <1>1, <1>3, <2>1, <3>2 DEF Clean
  <2>3. CASE Die(c)
    <3>1. /\ call'[c].at = "dead" /\ OthersStay(c) /\ verdict' = verdict
          /\ call'[c].input = call[c].input
      <4>1. /\ call'[c] = Local("dead", call[c].input) /\ OthersStay(c)
            /\ call[c].input \in Inputs /\ "dead" \in Labels
        BY <1>1, <2>3, Returns DEF Die, Labels, CallRecords
      <4> QED
        BY <2>3, <4>1, LocalType DEF Die
    <3>2. Exposed(b)
      BY <1>6, <3>1 DEF Exposed, Pending, Tool, OthersStay
    <3> QED
      BY <1>1, <1>3, <2>1, <3>2 DEF Clean
  <2> QED
    BY <1>6, <2>2, <2>3
<1>7. ASSUME End \/ Edit \/ UNCHANGED vars, NEW b \in Calls, Exposed(b)' PROVE ~ReadData'
  <2>1. UNCHANGED <<call, verdict, order>>
    BY <1>7 DEF End, Edit, vars
  <2>2. Exposed(b)
    BY <1>7, <2>1 DEF Exposed, Pending, Tool
  <2> QED
    BY <1>1, <1>3, <2>1, <2>2 DEF Clean
<1> QED
  BY <1>4, <1>5, <1>6, <1>7 DEF Next, Clean

\* The calls that ran keep their place, their tool and how they came to run.
LEMMA LeavesNext ==
  ASSUME Leased, LeaveInv, [Next]_vars
  PROVE  NothingLeavesAfterARead'
<1> USE DEF settings, rows, gate, bounds, Set
<1>1. /\ TypeOK /\ RecordInv /\ Apart /\ order \in Seq(Calls) /\ runs \in [Calls -> 0 .. 1]
      /\ \A b \in Calls : Clean(b) /\ Guarded(b) /\ Judged(b)
  BY DEF LeaveInv, RecordInv, GatewayInv, TypeInv, TypeOK, Gate!GateTypeOK
<1>2. \A b \in Calls : Ran(b) => call'[b].input.tool = Tool(b)
  BY <1>1, RanKeepsInput DEF Tool
<1>3. \A i \in DOMAIN order : order[i] \in Calls /\ Ran(order[i])
  BY <1>1 DEF Ran
<1>4. \A b \in Calls : runs[b] = 1 => runs'[b] = 1
  BY <1>1 DEF Next, Execute, Begin, Announce, Look, Refuse, Deny, Open, Evaluate, Decide,
     Assess, Weigh, Block, Park, Allow, RunTool, RecordOutcome, Answer, RunApproved, Settle, Die,
     End, Edit, vars, Elsewhere, Gate!Ask, Gate!Answer, Gate!RunTool, Gate!Settle
<1>5. order' = order \/ \E c \in Calls : order' = Append(order, c) /\ (RunTool(c) \/ RunApproved(c))
  BY DEF Next, Execute, Begin, Announce, Look, Refuse, Deny, Open, Evaluate, Decide,
     Assess, Weigh, Block, Park, Allow, RunTool, RecordOutcome, Answer, RunApproved, Settle, Die,
     End, Edit, vars, Elsewhere
<1>6. \A i, j \in DOMAIN order :
         i < j /\ call'[order[i]].input.tool \in Risk!CustomerDataReadTools =>
             /\ call'[order[j]].input.tool # "send_external_email"
             /\ call'[order[j]].input.tool = "export_customer_data" => runs'[order[j]] = 1
  BY <1>2, <1>3, <1>4 DEF LeaveInv, NothingLeavesAfterARead
<1>7. CASE order' = order
  BY <1>6, <1>7 DEF NothingLeavesAfterARead, Tool
<1>8. ASSUME NEW c \in Calls, order' = Append(order, c), RunTool(c) \/ RunApproved(c)
      PROVE  NothingLeavesAfterARead'
  <2>1. /\ DOMAIN order' = DOMAIN order \cup {Len(order) + 1}
        /\ \A i \in DOMAIN order : order'[i] = order[i] /\ i < Len(order) + 1 /\ i \in Int
        /\ order'[Len(order) + 1] = c
        /\ Len(order) + 1 \notin DOMAIN order
    BY <1>1, <1>8
  <2>2. call'[c].input.tool = Tool(c)
    <3>1. CASE RunTool(c)
      BY <1>1, <3>1, InputStays DEF Execute, Tool, Begin, RunTool, At
    <3>2. CASE RunApproved(c)
      BY <3>2 DEF RunApproved, Tool
    <3> QED
      BY <1>8, <3>1, <3>2
  <2>3. /\ ReadData => Tool(c) # "send_external_email"
        /\ Tool(c) = "export_customer_data" => runs'[c] = 1
    <3>1. CASE RunTool(c)
      <4>1. assessed[c] = "ALLOW"
        BY <1>1, <3>1 DEF RunTool, At, Judged, Allowed
      <4>2. Tool(c) \notin Risk!DataExportTools
        BY <1>1, <4>1 DEF Guarded
      <4> QED
        BY <4>2 DEF Risk!DataExportTools
    <3>2. CASE RunApproved(c)
      <4>1. Pending(c) /\ runs'[c] = 1
        BY <1>1, <3>2 DEF RunApproved, Gate!RunTool, Pending
      <4> QED
        BY <1>1, <4>1 DEF Clean, Exposed
    <3> QED
      BY <1>8, <3>1, <3>2
  <2>4. ASSUME NEW i \in DOMAIN order', NEW j \in DOMAIN order', i < j,
               call'[order'[i]].input.tool \in Risk!CustomerDataReadTools
        PROVE  /\ call'[order'[j]].input.tool # "send_external_email"
               /\ call'[order'[j]].input.tool = "export_customer_data" => runs'[order'[j]] = 1
    <3>1. i \in DOMAIN order
      BY <1>1, <2>1, <2>4
    <3>2. CASE j \in DOMAIN order
      BY <1>6, <2>1, <2>4, <3>1, <3>2
    <3>3. CASE j = Len(order) + 1
      <4>1. order'[i] = order[i] /\ order'[j] = c
        BY <2>1, <3>1, <3>3
      <4>2. ReadData
        BY <1>2, <1>3, <2>4, <3>1, <4>1 DEF ReadData
      <4> QED
        BY <2>2, <2>3, <4>1, <4>2
    <3> QED
      BY <2>1, <3>2, <3>3
  <2> QED
    BY <2>4 DEF NothingLeavesAfterARead, Tool
<1> QED
  BY <1>5, <1>7, <1>8

\* Once an execution's calls have read customer data, none of them sends an
\* e-mail any more and none exports data unless a human granted it: for every
\* number of calls and crashes and every policy, permission and input, as long
\* as the stepping lease keeps the calls of an execution apart.
THEOREM NothingLeaves == ASSUME Leased PROVE Spec => []NothingLeavesAfterARead
<1>1. LeaveInv /\ [Next]_vars => LeaveInv'
  <2> SUFFICES ASSUME LeaveInv, [Next]_vars PROVE LeaveInv'
    OBVIOUS
  <2>1. RecordInv'
    BY RecordNext DEF LeaveInv
  <2>2. Apart'
    BY ApartNext DEF LeaveInv
  <2>3. (\A c \in Calls : Guarded(c)') /\ (\A c \in Calls : Clean(c)') /\ NothingLeavesAfterARead'
    BY GuardedNext, CleanNext, LeavesNext
  <2> QED
    BY <2>1, <2>2, <2>3 DEF LeaveInv
<1>2. LeaveInv => NothingLeavesAfterARead
  BY DEF LeaveInv
<1> QED
  BY LeaveInit, <1>1, <1>2, PTL DEF Spec

-----------------------------------------------------------------------------
(* The policy engine                                                         *)

Errors(policies, i, input) == Policy!InError(Policy!Rank(policies, Policy!Scopes[i], input), input)
Matches(policies, i, input) == Policy!Matched(Policy!Rank(policies, Policy!Scopes[i], input), input)

LEMMA ThreeScopes == DOMAIN Policy!Scopes = {1, 2, 3}
  BY DEF Policy!Scopes

LEMMA LeastOfThree ==
  ASSUME NEW S, S \subseteq {1, 2, 3}, S # {}
  PROVE  \E i \in S : \A j \in S : i <= j
<1>1. CASE 1 \in S
  BY <1>1
<1>2. CASE 1 \notin S /\ 2 \in S
  BY <1>2
<1>3. CASE 1 \notin S /\ 2 \notin S
  <2>1. S = {3}
    BY <1>3
  <2> QED
    BY <2>1
<1> QED
  BY <1>1, <1>2, <1>3

\* The first rank with something to say decides.
LEMMA FirstRank ==
  ASSUME NEW policies, NEW input
  PROVE  LET decides(i) == Errors(policies, i, input) # {} \/ Matches(policies, i, input) # {}
         IN \/ /\ \A i \in DOMAIN Policy!Scopes : ~decides(i)
               /\ Policy!Evaluate(policies, input) = Policy!Decided("BLOCK", "NO_MATCHING_POLICY")
            \/ \E i \in DOMAIN Policy!Scopes :
                  /\ decides(i)
                  /\ \A j \in DOMAIN Policy!Scopes : j < i => ~decides(j)
                  /\ Policy!Evaluate(policies, input)
                        = Policy!Verdict(Policy!Rank(policies, Policy!Scopes[i], input), input)
<1> DEFINE rank == [i \in DOMAIN Policy!Scopes |-> Policy!Rank(policies, Policy!Scopes[i], input)]
           deciding == {i \in DOMAIN Policy!Scopes : Policy!Decides(rank[i], input)}
           first == CHOOSE i \in deciding : \A j \in deciding : i <= j
           decides(i) == Errors(policies, i, input) # {} \/ Matches(policies, i, input) # {}
<1>1. \A i \in DOMAIN Policy!Scopes : i \in deciding <=> decides(i)
  BY DEF Policy!Decides, Errors, Matches
<1>2. Policy!Evaluate(policies, input)
        = IF deciding = {} THEN Policy!Decided("BLOCK", "NO_MATCHING_POLICY")
          ELSE Policy!Verdict(rank[first], input)
  BY DEF Policy!Evaluate
<1>3. CASE deciding = {}
  BY <1>1, <1>2, <1>3
<1>4. CASE deciding # {}
  <2>1. deciding \subseteq {1, 2, 3}
    BY ThreeScopes
  <2> HIDE DEF deciding
  <2>2. \E i \in deciding : \A j \in deciding : i <= j
    BY <1>4, <2>1, LeastOfThree
  <2>3. first \in deciding /\ \A j \in deciding : first <= j
    BY <2>2
  <2> HIDE DEF first
  <2>4. first \in DOMAIN Policy!Scopes /\ decides(first)
    BY <1>1, <2>1, <2>3, ThreeScopes
  <2>5. \A j \in DOMAIN Policy!Scopes : j < first => ~decides(j)
    BY <1>1, <2>1, <2>3, ThreeScopes
  <2>6. Policy!Evaluate(policies, input)
          = Policy!Verdict(Policy!Rank(policies, Policy!Scopes[first], input), input)
    BY <1>2, <1>4, <2>4
  <2> QED
    BY <2>4, <2>5, <2>6
<1> QED
  BY <1>3, <1>4

\* Of the policies that match, one of highest priority has the action, and all
\* of that priority agree.
LEMMA Resolves ==
  ASSUME NEW matched \in SUBSET Policies, matched # {},
         Policy!Resolve(matched).decision # "BLOCK"
  PROVE  \E p \in matched :
            /\ p.action = Policy!Resolve(matched).decision
            /\ \A q \in matched :
                  q.priority >= p.priority =>
                      q.priority = p.priority /\ q.action = Policy!Resolve(matched).decision
<1> DEFINE top == {p \in matched : \A q \in matched : q.priority <= p.priority}
           shared == {a \in Policy!Actions : \A p \in top : p.action = a}
           action == CHOOSE a \in shared : TRUE
<1>1. PICK p \in matched : \A q \in matched : q.priority <= p.priority
  BY PriorityAssumption
<1>2. shared # {} /\ Policy!Resolve(matched).decision = action
  BY DEF Policy!Resolve, Policy!Decided
<1>3. action \in shared
  BY <1>2
<1>4. \A q \in top : q.action = action
  BY <1>3
<1>5. \A q \in matched : q.priority \in Int
  BY PriorityAssumption
<1>6. \A q \in matched : q.priority >= p.priority => q.priority = p.priority /\ q \in top
  BY <1>1, <1>5
<1> HIDE DEF action, top, shared
<1>7. p \in top
  BY <1>1 DEF top
<1> QED
  BY <1>2, <1>4, <1>6, <1>7

\* Every permit has a policy to name.
LEMMA PermitsAreNamed ==
  ASSUME NEW policies \in SUBSET Policies, NEW input
  PROVE  NamedPermit(policies, input)
<1> DEFINE decision == Policy!Evaluate(policies, input).decision
           value == Policy!Holds(input)
           rank(i) == Policy!Rank(policies, Policy!Scopes[i], input)
           matched(i) == {p \in rank(i) : value[p.conditions] = "true"}
<1> SUFFICES ASSUME decision # "BLOCK"
             PROVE  \E i \in DOMAIN Policy!Scopes :
                      /\ \A j \in 1 .. i : \A p \in rank(j) : value[p.conditions] # "error"
                      /\ \A j \in 1 .. i - 1 : matched(j) = {}
                      /\ \E p \in matched(i) :
                            /\ p.action = decision
                            /\ \A q \in matched(i) :
                                  q.priority >= p.priority =>
                                      q.priority = p.priority /\ q.action = decision
  BY DEF NamedPermit
<1>1. PICK i \in DOMAIN Policy!Scopes :
         /\ Errors(policies, i, input) # {} \/ Matches(policies, i, input) # {}
         /\ \A j \in DOMAIN Policy!Scopes :
               j < i => Errors(policies, j, input) = {} /\ Matches(policies, j, input) = {}
         /\ Policy!Evaluate(policies, input) = Policy!Verdict(rank(i), input)
  BY FirstRank DEF Policy!Decided
<1>2. Errors(policies, i, input) = {} /\ decision = Policy!Resolve(Matches(policies, i, input)).decision
  BY <1>1 DEF Policy!Verdict, Policy!Decided, Errors, Matches
<1>3. \A j \in DOMAIN Policy!Scopes : Matches(policies, j, input) = matched(j)
  BY DEF Matches, Policy!Matched
<1>4. \A j \in DOMAIN Policy!Scopes :
         Errors(policies, j, input) = {} => \A p \in rank(j) : value[p.conditions] # "error"
  BY DEF Errors, Policy!InError
<1>5. i \in {1, 2, 3} /\ \A j \in 1 .. i : j \in DOMAIN Policy!Scopes /\ (j = i \/ j < i)
  BY ThreeScopes
<1>6. \A j \in 1 .. i : \A p \in rank(j) : value[p.conditions] # "error"
  BY <1>1, <1>2, <1>4, <1>5
<1>7. \A j \in 1 .. i - 1 : matched(j) = {}
  <2> TAKE j \in 1 .. i - 1
  <2>1. j \in DOMAIN Policy!Scopes /\ j < i
    BY <1>5
  <2> QED
    BY <1>1, <1>3, <2>1
<1>8. matched(i) # {} /\ matched(i) \in SUBSET Policies
  BY <1>1, <1>2, <1>3 DEF Policy!Rank
<1>9. decision = Policy!Resolve(matched(i)).decision
  BY <1>2, <1>3
<1> HIDE DEF matched, decision
<1>10. \E p \in matched(i) :
          /\ p.action = decision
          /\ \A q \in matched(i) :
                q.priority >= p.priority => q.priority = p.priority /\ q.action = decision
  BY <1>8, <1>9, Resolves DEF decision
<1> QED
  BY <1>6, <1>7, <1>10

\* However the policies are edited, every call that is not blocked has a policy
\* to name, for every table of policies and every input.
THEOREM PermitNamed == Spec => EveryPermitIsNamed
<1>1. TypeOK' => \A input \in Inputs : NamedPermit(enabled', input)
  BY PermitsAreNamed DEF TypeOK
<1>2. TypeOK' => [enabled' # enabled => \A input \in Inputs : NamedPermit(enabled', input)]_enabled
  BY <1>1
<1> QED
  BY <1>2, TypeCorrect, PTL DEF EveryPermitIsNamed


-----------------------------------------------------------------------------
(* Policies that do not match                                                *)

\* What is decided depends on the policies that are in error and that match.
LEMMA SameVerdict ==
  ASSUME NEW before, NEW after, NEW input,
         \A i \in DOMAIN Policy!Scopes : /\ Errors(before, i, input) = Errors(after, i, input)
                                        /\ Matches(before, i, input) = Matches(after, i, input)
  PROVE  Policy!Evaluate(before, input) = Policy!Evaluate(after, input)
<1> DEFINE rank(policies) ==
              [i \in DOMAIN Policy!Scopes |-> Policy!Rank(policies, Policy!Scopes[i], input)]
           deciding(policies) ==
              {i \in DOMAIN Policy!Scopes : Policy!Decides(rank(policies)[i], input)}
           first(policies) ==
              CHOOSE i \in deciding(policies) : \A j \in deciding(policies) : i <= j
<1>1. \A policies : Policy!Evaluate(policies, input)
         = IF deciding(policies) = {} THEN Policy!Decided("BLOCK", "NO_MATCHING_POLICY")
           ELSE Policy!Verdict(rank(policies)[first(policies)], input)
  BY DEF Policy!Evaluate
<1>2. deciding(before) = deciding(after)
  BY DEF Policy!Decides, Errors, Matches
<1>3. first(before) = first(after)
  BY <1>2
<1>4. \A i \in DOMAIN Policy!Scopes :
         Policy!Verdict(rank(before)[i], input) = Policy!Verdict(rank(after)[i], input)
  BY DEF Policy!Verdict, Errors, Matches
<1>5. CASE deciding(before) = {}
  BY <1>1, <1>2, <1>5
<1>6. CASE deciding(before) # {}
  <2>1. deciding(before) \subseteq {1, 2, 3}
    BY ThreeScopes
  <2>2. \E i \in deciding(before) : \A j \in deciding(before) : i <= j
    BY <1>6, <2>1, LeastOfThree
  <2>3. first(before) \in DOMAIN Policy!Scopes
    <3>1. first(before) \in deciding(before)
      <4> HIDE DEF deciding
      <4> QED
        BY <2>2
    <3> HIDE DEF first
    <3> QED
      BY <3>1
  <2> HIDE DEF first, deciding, rank
  <2> QED
    BY <1>1, <1>2, <1>3, <1>4, <1>6, <2>3
<1> QED
  BY <1>5, <1>6

\* A policy for another tool, or whose condition is false, says nothing.
LEMMA IdleSaysNothing ==
  ASSUME NEW p, NEW input, p.tool # input.tool \/ Policy!Holds(input)[p.conditions] = "false",
         NEW before, NEW after, \A q : q # p => (q \in before <=> q \in after)
  PROVE  Policy!Evaluate(before, input) = Policy!Evaluate(after, input)
<1>1. ASSUME NEW i \in DOMAIN Policy!Scopes
      PROVE  /\ Errors(before, i, input) = Errors(after, i, input)
             /\ Matches(before, i, input) = Matches(after, i, input)
  BY DEF Errors, Matches, Policy!InError, Policy!Matched, Policy!Rank
<1> QED
  BY <1>1, SameVerdict

\* Enabling or disabling a policy that does not match a call has no effect on
\* what is decided about the call, for every table of policies and every input.
THEOREM IdleIsIdle == Spec => IdlePoliciesDoNotMatter
<1> DEFINE Idle ==
       \A p \in Policies : (p \in enabled) # (p \in enabled') =>
          \A input \in Inputs :
              p.tool # input.tool \/ Policy!Holds(input)[p.conditions] = "false" =>
                  Policy!Evaluate(enabled, input).decision
                      = Policy!Evaluate(enabled', input).decision
<1>1. [Next]_vars => [Idle]_enabled
  <2> SUFFICES ASSUME [Next]_vars, enabled' # enabled,
                      NEW p \in Policies, (p \in enabled) # (p \in enabled'),
                      NEW input \in Inputs,
                      p.tool # input.tool \/ Policy!Holds(input)[p.conditions] = "false"
               PROVE  Policy!Evaluate(enabled, input).decision
                         = Policy!Evaluate(enabled', input).decision
    OBVIOUS
  <2>1. Edit
    <3>1. ASSUME NEW c \in Calls, Execute(c) PROVE enabled' = enabled
      BY <3>1 DEF Execute, Begin, Announce, Look, Refuse, Deny, Open, Evaluate, Decide, Assess,
         Weigh, Block, Park, Allow, RunTool, RecordOutcome, Elsewhere, settings
    <3>2. ASSUME NEW c \in Calls, Answer(c) \/ RunApproved(c) \/ Settle(c) \/ Die(c)
          PROVE  enabled' = enabled
      BY <3>2 DEF Answer, RunApproved, Settle, Die, settings
    <3>3. End => enabled' = enabled
      BY DEF End, settings
    <3>4. UNCHANGED vars => enabled' = enabled
      BY DEF vars, settings
    <3> QED
      BY <3>1, <3>2, <3>3, <3>4 DEF Next
  <2>2. \A q : q # p => (q \in enabled <=> q \in enabled')
    BY <2>1 DEF Edit
  <2> QED
    BY <2>2, IdleSaysNothing
<1> QED
  BY <1>1, PTL DEF Spec, IdlePoliciesDoNotMatter

-----------------------------------------------------------------------------
(* The risk engine                                                           *)

LEMMA ScoreIsMonotone ==
  ASSUME NEW few, NEW many, few \subseteq many, NEW financial \in Nat
  PROVE  /\ Risk!Sum(few, financial) \in Int /\ Risk!Sum(many, financial) \in Int
         /\ Risk!Sum(few, financial) <= Risk!Sum(many, financial)
<1>1. ASSUME NEW signal, NEW weight \in Nat
      PROVE  /\ Risk!Points(signal, few, weight) \in Nat
             /\ Risk!Points(signal, many, weight) \in Nat
             /\ Risk!Points(signal, few, weight) <= Risk!Points(signal, many, weight)
  BY DEF Risk!Points
<1> QED
  BY <1>1 DEF Risk!Sum

\* A signal more, or a detector that fails, never makes the engine milder: a
\* call cannot be allowed because something else was found as well.
THEOREM MoreSignalsNeverMilder ==
  ASSUME NEW few, NEW many, few \subseteq many, NEW financial \in Nat,
         NEW failed \in BOOLEAN, NEW worse \in BOOLEAN, failed => worse
  PROVE  Risk!Severity[Risk!Assess(few, financial, failed).action]
            <= Risk!Severity[Risk!Assess(many, financial, worse).action]
<1> DEFINE low == Risk!Sum(few, financial)
           high == Risk!Sum(many, financial)
<1>1. low \in Int /\ high \in Int /\ low <= high
  BY ScoreIsMonotone
<1> HIDE DEF low, high
<1>2. Risk!HardBlock(few) => Risk!HardBlock(many)
  BY DEF Risk!HardBlock
<1>3. Risk!Clamp(low) \in Int /\ Risk!Clamp(high) \in Int /\ Risk!Clamp(low) <= Risk!Clamp(high)
  BY <1>1 DEF Risk!Clamp
<1>4. \A score \in Int : /\ Risk!Severity[Risk!ActionFor(score)] \in 0 .. 2
                         /\ Risk!Severity[Risk!ActionFor(score)] = IF score <= 44 THEN 0
                                                                   ELSE IF score <= 84 THEN 1 ELSE 2
  BY DEF Risk!ActionFor, Risk!Level, Risk!Severity
<1>5. Risk!Severity[Risk!ActionFor(Risk!Clamp(low))] <= Risk!Severity[Risk!ActionFor(Risk!Clamp(high))]
  BY <1>3, <1>4
<1>6. Risk!Severity["BLOCK"] = 2
  BY DEF Risk!Severity
<1>7. Risk!Assess(few, financial, failed).action
        = IF Risk!HardBlock(few) \/ failed THEN "BLOCK" ELSE Risk!ActionFor(Risk!Clamp(low))
  BY DEF Risk!Assess, low
<1>8. Risk!Assess(many, financial, worse).action
        = IF Risk!HardBlock(many) \/ worse THEN "BLOCK" ELSE Risk!ActionFor(Risk!Clamp(high))
  BY DEF Risk!Assess, high
<1> QED
  BY <1>2, <1>3, <1>4, <1>5, <1>6, <1>7, <1>8

=============================================================================
