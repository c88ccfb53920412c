----------------------- MODULE ExternalActions_proofs -----------------------
(* Requests with tools of their own, from clients that wait for their calls: *)
(* a retried request runs its tool once, whatever handlers die, humans       *)
(* answer and other requests do, for any number of requests, handlers, steps *)
(* and faults.                                                               *)
EXTENDS ExternalActions, SequenceTheorems, WellFoundedInduction, TLAPS

-----------------------------------------------------------------------------
(* Types                                                                     *)

StepRows == [request : Requests, status : StepStatuses]
Calls == [at : Labels, request : Requests, submits : BOOLEAN, reconciles : BOOLEAN,
          seen : Statuses, step : 0 .. MaxSteps, result : StepStatuses \ {"PENDING"}]

\* A handler at the gateway or at the end of its step has one.
AtItsStep == {"running", "closing"}
HasItsStep == \A h \in Handlers : call[h].at \in AtItsStep => call[h].step \in DOMAIN steps

Typed == TypeOK /\ HasItsStep

Less == OpToRel(<, Nat)

LEMMA LessIsLess == \A m, n \in Nat : m < n => <<m, n>> \in Less
  BY Zenon DEF OpToRel, Less

LEMMA LessIsWellFounded == IsWellFoundedOn(Less, Nat)
  BY NatLessThanWellFounded DEF Less

LEMMA LeastNatural ==
  ASSUME NEW S, S \subseteq Nat, S # {}
  PROVE  \E n \in S : \A m \in S : n <= m
<1>1. PICK n \in S : \A m \in S : <<m, n>> \notin Less
  BY WFMin, LessIsWellFounded
<1>2. \A m \in S : ~(m < n)
  BY <1>1, LessIsLess
<1> QED
  BY <1>1, <1>2

LEMMA Greatest ==
  ASSUME NEW n \in Nat, NEW S, S \subseteq 1 .. n, S # {}
  PROVE  \E i \in S : \A j \in S : j <= i
<1> DEFINE T == {n - i : i \in S}
<1>1. T \subseteq Nat /\ T # {}
  <2>1. \A i \in S : n - i \in Nat
    OBVIOUS
  <2>2. PICK i \in S : TRUE
    OBVIOUS
  <2>3. n - i \in T
    BY <2>2
  <2> QED
    BY <2>1, <2>3
<1> HIDE DEF T
<1>2. PICK t \in T : \A u \in T : t <= u
  BY <1>1, LeastNatural
<1>3. PICK i \in S : t = n - i
  BY <1>2 DEF T
<1>4. \A j \in S : n - i <= n - j
  BY <1>2, <1>3 DEF T
<1> QED
  BY <1>3, <1>4

LEMMA StepRow ==
  ASSUME TypeOK
  PROVE  /\ Len(steps) \in 0 .. MaxSteps
         /\ DOMAIN steps = 1 .. Len(steps)
         /\ DOMAIN steps \subseteq 1 .. MaxSteps
         /\ \A i \in DOMAIN steps : /\ steps[i] \in StepRows
                                    /\ steps[i].request \in Requests
                                    /\ steps[i].status \in StepStatuses
<1>1. steps \in Seq(StepRows)
  BY DEF TypeOK, StepRows
<1>2. Len(steps) \in Nat /\ DOMAIN steps = 1 .. Len(steps)
  BY <1>1, LenProperties
<1>3. \A i \in DOMAIN steps : steps[i] \in StepRows
  BY <1>1, <1>2, ElementOfSeq
<1>4. Len(steps) <= MaxSteps
  BY DEF TypeOK
<1>5. MaxSteps \in Nat
  BY ExternalAssumption
<1> QED
  BY <1>2, <1>3, <1>4, <1>5 DEF StepRows

\* What _find_matching_step returns.
LEMMA LatestMatches ==
  ASSUME TypeOK, NEW q \in Requests
  PROVE  \/ Latest(q) = 0 /\ \A i \in DOMAIN steps : ~Matches(i, q)
         \/ Latest(q) \in DOMAIN steps /\ Matches(Latest(q), q)
<1> DEFINE matching == {i \in DOMAIN steps : Matches(i, q)}
<1>1. CASE matching = {}
  BY <1>1 DEF Latest
<1>2. CASE matching # {}
  <2>1. matching \subseteq 1 .. Len(steps) /\ Len(steps) \in Nat
    BY StepRow
  <2>2. \E i \in matching : \A j \in matching : j <= i
    <3> HIDE DEF matching
    <3> QED
      BY <1>2, <2>1, Greatest
  <2>3. Latest(q) = CHOOSE i \in matching : \A j \in matching : j <= i
    BY <1>2 DEF Latest
  <2>4. Latest(q) \in matching
    <3> HIDE DEF matching
    <3> QED
      BY <2>2, <2>3
  <2> QED
    BY <2>4
<1> QED
  BY <1>1, <1>2

LEMMA NoCallType == NoCall \in Calls /\ NoCall.at = "idle" /\ NoCall.step = 0
                    /\ NoCall.reconciles = FALSE
<1>1. (CHOOSE q \in Requests : TRUE) \in Requests
  BY ExternalAssumption
<1>2. 0 \in 0 .. MaxSteps
  BY ExternalAssumption
<1> QED
  BY <1>1, <1>2 DEF NoCall, CallFor, Calls, Labels, Statuses, StepStatuses

LEMMA TypedInit == Init => Typed
<1> SUFFICES ASSUME Init PROVE Typed
  OBVIOUS
<1>1. steps \in Seq(StepRows) /\ Len(steps) = 0
  BY EmptySeq DEF Init
<1>2. Stepping!LeaseTypeOK
  BY DEF Init, Stepping!LeaseInit, Stepping!LeaseTypeOK
<1>3. call \in [Handlers -> Calls] /\ \A h \in Handlers : call[h].at = "idle"
  BY NoCallType DEF Init
<1>4. MaxSteps \in Nat /\ MaxFaults \in Nat
  BY ExternalAssumption
<1>5. TypeOK
  BY <1>1, <1>2, <1>3, <1>4 DEF Init, TypeOK, StepRows, Calls, Statuses, Approvals
<1>6. HasItsStep
  BY <1>3 DEF HasItsStep, AtItsStep
<1> QED
  BY <1>5, <1>6 DEF Typed

-----------------------------------------------------------------------------
(* What the steps with a choice do                                           *)

LEMMA FindStep ==
  ASSUME TypeOK, NEW h \in Handlers, Find(h)
  PROVE  \/ Return(h)
         \/ \E label \in {"inserting", "checking", "searching"} :
               /\ call' = [call EXCEPT ![h].at = label, ![h].seen = status[Mine(h)],
                                       ![h].step = parked[Mine(h)]]
               /\ label = "inserting" => status[Mine(h)] = "NONE"
               /\ label = "checking" => status[Mine(h)] = "WAITING_APPROVAL"
               /\ label = "searching" => status[Mine(h)] \in {"RECEIVED", "PROCESSING"}
<1> DEFINE found == status[Mine(h)]
           label == CASE found = "NONE" -> IF call[h].submits THEN "inserting" ELSE "idle"
                      [] found \in Terminal -> "idle"
                      [] found = "WAITING_APPROVAL" -> "checking"
                      [] found \in {"RECEIVED", "PROCESSING"} ->
                            IF call[h].submits THEN "searching" ELSE "idle"
<1>1. IF label = "idle" THEN Return(h)
      ELSE call' = [call EXCEPT ![h].at = label, ![h].seen = found, ![h].step = parked[Mine(h)]]
  BY DEF Find
<1>2. found \in Statuses
  BY DEF TypeOK, Mine
<1>3. found = "NONE" => label \in {"inserting", "idle"}
  BY DEF Terminal
<1>4. found \in Terminal => label = "idle"
  BY DEF Terminal
<1>5. found = "WAITING_APPROVAL" => label = "checking"
  BY DEF Terminal
<1>6. found \in {"RECEIVED", "PROCESSING"} => label \in {"searching", "idle"}
  BY DEF Terminal
<1> HIDE DEF label
<1>7. label \in {"idle", "inserting", "checking", "searching"}
  BY <1>2, <1>3, <1>4, <1>5, <1>6 DEF Statuses, Terminal
<1>8. /\ label = "inserting" => found = "NONE"
      /\ label = "checking" => found = "WAITING_APPROVAL"
      /\ label = "searching" => found \in {"RECEIVED", "PROCESSING"}
  BY <1>2, <1>3, <1>4, <1>5, <1>6 DEF Statuses, Terminal
<1> QED
  BY <1>1, <1>7, <1>8

LEMMA EnterStep ==
  ASSUME TypeOK, NEW h \in Handlers, Enter(h)
  PROVE  \/ Goto(h, "claiming")
         \/ ~call[h].reconciles /\ Return(h)
         \/ call[h].reconciles /\ Goto(h, "searching")
<1> DEFINE mayRun == execution = "RUNNING" \/ (call[h].reconciles /\ execution # "ENDED")
<1>1. CASE mayRun
  BY <1>1, Zenon DEF Enter
<1>2. CASE execution # "RUNNING" /\ ~call[h].reconciles
  BY <1>2, Zenon DEF Enter
<1>3. CASE execution = "ENDED" /\ call[h].reconciles
  BY <1>3, Zenon DEF Enter
<1> QED
  BY <1>1, <1>2, <1>3

LEMMA OnceCounts ==
  ASSUME ran \in [Requests -> 0 .. 2], NEW q, Once(q)
  PROVE  /\ ran' \in [Requests -> 0 .. 2]
         /\ \A p \in Requests : /\ p = q => ran'[p] > 0 /\ ran'[p] <= ran[p] + 1
                                /\ p # q => ran'[p] = ran[p]
<1>1. ran' = [p \in Requests |-> IF p = q THEN IF ran[p] < 2 THEN ran[p] + 1 ELSE 2 ELSE ran[p]]
  BY DEF Once
<1>2. \A p \in Requests : ran[p] \in 0 .. 2
  OBVIOUS
<1>3. \A n \in 0 .. 2 : LET m == IF n < 2 THEN n + 1 ELSE 2
                        IN  m \in 0 .. 2 /\ m > 0 /\ m <= n + 1
  OBVIOUS
<1> QED
  BY <1>1, <1>2, <1>3

LEMMA RunToolStep ==
  ASSUME NEW h \in Handlers, RunTool(h)
  PROVE  \E result \in StepStatuses \ {"PENDING"} :
            /\ call' = [call EXCEPT ![h].at = "closing", ![h].result = result]
            /\ UNCHANGED ran \/ (result \in {"COMPLETED", "FAILED"} /\ Once(Mine(h)))
            /\ result = "COMPLETED" => Once(Mine(h))
            /\ IF result = "WAITING_APPROVAL"
               THEN /\ execution' = "WAITING_APPROVAL"
                    /\ approval' = [approval EXCEPT ![call[h].step] = "PENDING"]
               ELSE UNCHANGED <<execution, approval>>
<1>1. PICK result \in IF execution = "RUNNING" THEN StepStatuses \ {"PENDING"} ELSE {"FAILED"} :
          /\ call' = [call EXCEPT ![h].at = "closing", ![h].result = result]
          /\ CASE result = "COMPLETED" -> Once(Mine(h))
               [] result = "FAILED" -> (execution = "RUNNING" /\ Once(Mine(h))) \/ UNCHANGED ran
               [] result \in {"BLOCKED", "WAITING_APPROVAL"} -> UNCHANGED ran
          /\ IF result = "WAITING_APPROVAL"
             THEN /\ execution' = "WAITING_APPROVAL"
                  /\ approval' = [approval EXCEPT ![call[h].step] = "PENDING"]
             ELSE UNCHANGED <<execution, approval>>
  BY Zenon DEF RunTool
<1>2. result \in StepStatuses \ {"PENDING"}
  BY <1>1 DEF StepStatuses
<1>3. result = "COMPLETED" => Once(Mine(h))
  BY <1>1, Zenon
<1>4. result = "FAILED" => Once(Mine(h)) \/ UNCHANGED ran
  BY <1>1, Zenon
<1>5. result \in {"BLOCKED", "WAITING_APPROVAL"} => UNCHANGED ran
  BY <1>1, Zenon
<1>6. UNCHANGED ran \/ (result \in {"COMPLETED", "FAILED"} /\ Once(Mine(h)))
  <2>1. result \in {"COMPLETED", "FAILED", "BLOCKED", "WAITING_APPROVAL"}
    BY <1>2 DEF StepStatuses
  <2> QED
    BY <2>1, <1>3, <1>4, <1>5, Zenon
<1> QED
  BY <1>1, <1>2, <1>3, <1>6, Zenon

LEMMA ResolutionOf ==
  ASSUME TypeOK, NEW i \in 1 .. MaxSteps, NEW result \in Resolution(i)
  PROVE  /\ result \in {"COMPLETED", "FAILED", "BLOCKED"}
         /\ result = "COMPLETED" => approval[i] = "EXECUTED"
         /\ result = "BLOCKED" => approval[i] = "REJECTED"
<1>1. approval[i] \in Approvals
  BY DEF TypeOK
<1>2. approval[i] = "EXECUTED" => Resolution(i) = {"COMPLETED"}
  BY Zenon DEF Resolution
<1>3. approval[i] = "FAILED" => Resolution(i) = {"FAILED"}
  BY Zenon DEF Resolution
<1>4. approval[i] = "REJECTED" => Resolution(i) = {"BLOCKED", "FAILED"}
  BY Zenon DEF Resolution
<1>5. approval[i] \in {"NONE", "PENDING", "APPROVED"} => Resolution(i) = {}
  BY Zenon DEF Resolution
<1> QED
  BY <1>1, <1>2, <1>3, <1>4, <1>5 DEF Approvals

LEMMA ReconcileStep ==
  ASSUME TypeOK, NEW h \in Handlers, Reconcile(h)
  PROVE  \/ \E i \in DOMAIN steps, result \in {"COMPLETED", "FAILED", "BLOCKED"} :
               /\ steps[i].status = "WAITING_APPROVAL"
               /\ result = "COMPLETED" => approval[i] = "EXECUTED"
               /\ result = "BLOCKED" => approval[i] = "REJECTED"
               /\ Finalize(i, result)
         \/ UNCHANGED <<steps, execution>>
<1> DEFINE waiting == {i \in DOMAIN steps : steps[i].status = "WAITING_APPROVAL"}
           latest == {i \in waiting : \A j \in waiting : j <= i}
<1>1. \/ \E i \in latest : \E result \in Resolution(i) : Finalize(i, result)
      \/ UNCHANGED <<steps, execution>>
  BY DEF Reconcile
<1>2. ASSUME NEW i \in latest, NEW result \in Resolution(i), Finalize(i, result)
      PROVE  \E j \in DOMAIN steps, r \in {"COMPLETED", "FAILED", "BLOCKED"} :
                /\ steps[j].status = "WAITING_APPROVAL"
                /\ r = "COMPLETED" => approval[j] = "EXECUTED"
                /\ r = "BLOCKED" => approval[j] = "REJECTED"
                /\ Finalize(j, r)
  <2>1. i \in DOMAIN steps /\ i \in 1 .. MaxSteps /\ steps[i].status = "WAITING_APPROVAL"
    BY StepRow
  <2>2. /\ result \in {"COMPLETED", "FAILED", "BLOCKED"}
        /\ result = "COMPLETED" => approval[i] = "EXECUTED"
        /\ result = "BLOCKED" => approval[i] = "REJECTED"
    BY <2>1, ResolutionOf
  <2> QED
    BY <1>2, <2>1, <2>2, Zenon
<1> QED
  BY <1>1, <1>2, Zenon

\* A step that is closed is closed in place.
LEMMA FinalizeSteps ==
  ASSUME TypeOK, NEW i \in DOMAIN steps, NEW result \in StepStatuses, Finalize(i, result)
  PROVE  /\ steps' \in Seq(StepRows) /\ Len(steps') <= MaxSteps
         /\ DOMAIN steps' = DOMAIN steps
         /\ execution' \in {"RUNNING", "WAITING_APPROVAL", "ENDED"}
         /\ steps'[i] = [request |-> steps[i].request, status |-> result]
         /\ \A j \in DOMAIN steps : j # i => steps'[j] = steps[j]
<1>1. steps \in Seq(StepRows) /\ steps[i] \in StepRows /\ i \in 1 .. Len(steps)
      /\ DOMAIN steps = 1 .. Len(steps)
  BY StepRow DEF TypeOK, StepRows
<1> DEFINE row == [request |-> steps[i].request, status |-> result]
<1>2. row \in StepRows
  BY <1>1 DEF StepRows
<1>3. steps' = [steps EXCEPT ![i] = row]
  <2>1. [steps[i] EXCEPT !.status = result] = row
    BY <1>1 DEF StepRows
  <2>2. steps' = [steps EXCEPT ![i] = [steps[i] EXCEPT !.status = result]]
    BY DEF Finalize
  <2> QED
    BY <2>1, <2>2
<1> HIDE DEF row
<1>4. steps' \in Seq(StepRows) /\ Len(steps') = Len(steps)
  BY <1>1, <1>2, <1>3, ExceptSeq
<1>5. DOMAIN steps' = DOMAIN steps
  BY <1>3
<1>6. steps'[i] = row /\ \A j \in DOMAIN steps : j # i => steps'[j] = steps[j]
  BY <1>1, <1>3
<1>7. execution' \in {"RUNNING", "WAITING_APPROVAL", "ENDED"}
  BY DEF Finalize, TypeOK
<1>8. Len(steps) <= MaxSteps
  BY DEF TypeOK
<1> QED
  BY <1>4, <1>5, <1>6, <1>7, <1>8 DEF row

\* A submission appends its step.
Appends(h) ==
    /\ execution = "RUNNING"
    /\ Len(steps) < MaxSteps
    /\ steps' = Append(steps, [request |-> Mine(h), status |-> "PENDING"])
    /\ call' = [call EXCEPT ![h].at = "running", ![h].step = Len(steps) + 1]
    /\ UNCHANGED leaseVars

LEMMA AppendedStep ==
  ASSUME TypeOK, NEW h \in Handlers, Appends(h)
  PROVE  /\ steps' \in Seq(StepRows) /\ Len(steps') = Len(steps) + 1 /\ Len(steps') <= MaxSteps
         /\ DOMAIN steps' = DOMAIN steps \cup {Len(steps) + 1}
         /\ Len(steps) + 1 \notin DOMAIN steps /\ Len(steps) + 1 \in 1 .. MaxSteps
         /\ steps'[Len(steps) + 1] = [request |-> Mine(h), status |-> "PENDING"]
         /\ \A j \in DOMAIN steps : steps'[j] = steps[j]
<1> DEFINE row == [request |-> Mine(h), status |-> "PENDING"]
<1>1. steps \in Seq(StepRows) /\ Len(steps) \in Nat /\ DOMAIN steps = 1 .. Len(steps)
  BY StepRow DEF TypeOK, StepRows
<1>2. row \in StepRows
  BY DEF TypeOK, Mine, StepRows, StepStatuses
<1>3. steps' = Append(steps, row) /\ Len(steps) < MaxSteps /\ MaxSteps \in Nat
  BY ExternalAssumption DEF Appends
<1> HIDE DEF row
<1>4. /\ steps' \in Seq(StepRows) /\ Len(steps') = Len(steps) + 1
      /\ \A i \in 1 .. Len(steps) : steps'[i] = steps[i]
      /\ steps'[Len(steps) + 1] = row
  BY <1>1, <1>2, <1>3, AppendProperties
<1>5. DOMAIN steps' = 1 .. Len(steps) + 1
  BY <1>4, LenProperties
<1> QED
  BY <1>1, <1>3, <1>4, <1>5 DEF row

-----------------------------------------------------------------------------
(* How a handler's call changes                                              *)

Call(h, label, reconciles, seen, step, result) ==
    [at |-> label, request |-> Mine(h), submits |-> call[h].submits,
     reconciles |-> reconciles, seen |-> seen, step |-> step, result |-> result]

Goes(h, label, seen, step, result) ==
    /\ call' \in [Handlers -> Calls]
    /\ call'[h].at = label /\ call'[h].request = Mine(h)
    /\ call'[h].seen = seen /\ call'[h].step = step /\ call'[h].result = result
    /\ \A g \in Handlers : g # h => call'[g] = call[g]

Becomes(h, label, seen, step, result) ==
    Goes(h, label, seen, step, result) /\ call'[h].reconciles = call[h].reconciles

LEMMA MovesOn ==
  ASSUME TypeOK, NEW h \in Handlers, NEW label \in Labels,
         call' = [call EXCEPT ![h].at = label]
  PROVE  Becomes(h, label, call[h].seen, call[h].step, call[h].result)
<1> USE DEF Calls
<1>1. call \in [Handlers -> Calls] /\ call[h] \in Calls
  BY DEF TypeOK
<1> DEFINE c == Call(h, label, call[h].reconciles, call[h].seen, call[h].step, call[h].result)
<1>2. c \in Calls
  BY <1>1 DEF Call, Mine
<1>3. call'[h] = c
  BY <1>1 DEF Call, Mine
<1>4. \A g \in Handlers : g # h => call'[g] = call[g]
  BY <1>1
<1>5. call' \in [Handlers -> Calls]
  <2>1. call' = [g \in Handlers |-> call'[g]]
    BY <1>1
  <2> QED
    BY <1>1, <1>2, <1>3, <1>4, <2>1
<1> QED
  BY <1>3, <1>4, <1>5 DEF Becomes, Goes, Call

LEMMA MovesWithRow ==
  ASSUME TypeOK, NEW h \in Handlers, NEW label \in Labels, NEW seen \in Statuses, NEW step \in 0 .. MaxSteps,
         call' = [call EXCEPT ![h].at = label, ![h].seen = seen, ![h].step = step]
  PROVE  Becomes(h, label, seen, step, call[h].result)
<1> USE DEF Calls
<1>1. call \in [Handlers -> Calls] /\ call[h] \in Calls
  BY DEF TypeOK
<1> DEFINE c == Call(h, label, call[h].reconciles, seen, step, call[h].result)
<1>2. c \in Calls
  BY <1>1 DEF Call, Mine
<1>3. call'[h] = c
  BY <1>1 DEF Call, Mine
<1>4. \A g \in Handlers : g # h => call'[g] = call[g]
  BY <1>1
<1>5. call' \in [Handlers -> Calls]
  <2>1. call' = [g \in Handlers |-> call'[g]]
    BY <1>1
  <2> QED
    BY <1>1, <1>2, <1>3, <1>4, <2>1
<1> QED
  BY <1>3, <1>4, <1>5 DEF Becomes, Goes, Call

LEMMA MovesWithStatus ==
  ASSUME TypeOK, NEW h \in Handlers, NEW label \in Labels, NEW seen \in Statuses,
         call' = [call EXCEPT ![h].at = label, ![h].seen = seen]
  PROVE  Becomes(h, label, seen, call[h].step, call[h].result)
<1> USE DEF Calls
<1>1. call \in [Handlers -> Calls] /\ call[h] \in Calls
  BY DEF TypeOK
<1> DEFINE c == Call(h, label, call[h].reconciles, seen, call[h].step, call[h].result)
<1>2. c \in Calls
  BY <1>1 DEF Call, Mine
<1>3. call'[h] = c
  BY <1>1 DEF Call, Mine
<1>4. \A g \in Handlers : g # h => call'[g] = call[g]
  BY <1>1
<1>5. call' \in [Handlers -> Calls]
  <2>1. call' = [g \in Handlers |-> call'[g]]
    BY <1>1
  <2> QED
    BY <1>1, <1>2, <1>3, <1>4, <2>1
<1> QED
  BY <1>3, <1>4, <1>5 DEF Becomes, Goes, Call

LEMMA MovesWithStep ==
  ASSUME TypeOK, NEW h \in Handlers, NEW label \in Labels, NEW step \in 0 .. MaxSteps,
         call' = [call EXCEPT ![h].at = label, ![h].step = step]
  PROVE  Becomes(h, label, call[h].seen, step, call[h].result)
<1> USE DEF Calls
<1>1. call \in [Handlers -> Calls] /\ call[h] \in Calls
  BY DEF TypeOK
<1> DEFINE c == Call(h, label, call[h].reconciles, call[h].seen, step, call[h].result)
<1>2. c \in Calls
  BY <1>1 DEF Call, Mine
<1>3. call'[h] = c
  BY <1>1 DEF Call, Mine
<1>4. \A g \in Handlers : g # h => call'[g] = call[g]
  BY <1>1
<1>5. call' \in [Handlers -> Calls]
  <2>1. call' = [g \in Handlers |-> call'[g]]
    BY <1>1
  <2> QED
    BY <1>1, <1>2, <1>3, <1>4, <2>1
<1> QED
  BY <1>3, <1>4, <1>5 DEF Becomes, Goes, Call

LEMMA MovesWithResult ==
  ASSUME TypeOK, NEW h \in Handlers, NEW label \in Labels, NEW result \in StepStatuses \ {"PENDING"},
         call' = [call EXCEPT ![h].at = label, ![h].result = result]
  PROVE  Becomes(h, label, call[h].seen, call[h].step, result)
<1> USE DEF Calls
<1>1. call \in [Handlers -> Calls] /\ call[h] \in Calls
  BY DEF TypeOK
<1> DEFINE c == Call(h, label, call[h].reconciles, call[h].seen, call[h].step, result)
<1>2. c \in Calls
  BY <1>1 DEF Call, Mine
<1>3. call'[h] = c
  BY <1>1 DEF Call, Mine
<1>4. \A g \in Handlers : g # h => call'[g] = call[g]
  BY <1>1
<1>5. call' \in [Handlers -> Calls]
  <2>1. call' = [g \in Handlers |-> call'[g]]
    BY <1>1
  <2> QED
    BY <1>1, <1>2, <1>3, <1>4, <2>1
<1> QED
  BY <1>3, <1>4, <1>5 DEF Becomes, Goes, Call

LEMMA MovesWithStepResult ==
  ASSUME TypeOK, NEW h \in Handlers, NEW label \in Labels, NEW step \in 0 .. MaxSteps, NEW result \in StepStatuses \ {"PENDING"},
         call' = [call EXCEPT ![h].at = label, ![h].step = step, ![h].result = result]
  PROVE  Becomes(h, label, call[h].seen, step, result)
<1> USE DEF Calls
<1>1. call \in [Handlers -> Calls] /\ call[h] \in Calls
  BY DEF TypeOK
<1> DEFINE c == Call(h, label, call[h].reconciles, call[h].seen, step, result)
<1>2. c \in Calls
  BY <1>1 DEF Call, Mine
<1>3. call'[h] = c
  BY <1>1 DEF Call, Mine
<1>4. \A g \in Handlers : g # h => call'[g] = call[g]
  BY <1>1
<1>5. call' \in [Handlers -> Calls]
  <2>1. call' = [g \in Handlers |-> call'[g]]
    BY <1>1
  <2> QED
    BY <1>1, <1>2, <1>3, <1>4, <2>1
<1> QED
  BY <1>3, <1>4, <1>5 DEF Becomes, Goes, Call

LEMMA MovesToReconcile ==
  ASSUME TypeOK, NEW h \in Handlers, NEW label \in Labels, NEW reconciles \in BOOLEAN,
         call' = [call EXCEPT ![h].at = label, ![h].reconciles = reconciles]
  PROVE  Goes(h, label, call[h].seen, call[h].step, call[h].result) /\ call'[h].reconciles = reconciles
<1> USE DEF Calls
<1>1. call \in [Handlers -> Calls] /\ call[h] \in Calls
  BY DEF TypeOK
<1> DEFINE c == Call(h, label, reconciles, call[h].seen, call[h].step, call[h].result)
<1>2. c \in Calls
  BY <1>1 DEF Call, Mine
<1>3. call'[h] = c
  BY <1>1 DEF Call, Mine
<1>4. \A g \in Handlers : g # h => call'[g] = call[g]
  BY <1>1
<1>5. call' \in [Handlers -> Calls]
  <2>1. call' = [g \in Handlers |-> call'[g]]
    BY <1>1
  <2> QED
    BY <1>1, <1>2, <1>3, <1>4, <2>1
<1> QED
  BY <1>3, <1>4, <1>5 DEF Becomes, Goes, Call

LEMMA Returns ==
  ASSUME TypeOK, NEW h \in Handlers, Return(h)
  PROVE  /\ call' \in [Handlers -> Calls]
         /\ call'[h] = NoCall
         /\ \A g \in Handlers : g # h => call'[g] = call[g]
<1>1. call \in [Handlers -> Calls] /\ call' = [call EXCEPT ![h] = NoCall]
  BY DEF TypeOK, Return, Calls
<1> QED
  BY <1>1, NoCallType

-----------------------------------------------------------------------------
(* One lemma per step of a handler: where it goes, with what, and what else  *)
(* changes.                                                                  *)

LEMMA FindMoves ==
  ASSUME TypeOK, NEW h \in Handlers, Find(h)
  PROVE  /\ UNCHANGED <<rowVars, runtimeVars, leaseVars, ran, faults>>
         /\ call[h].at = "finding"
         /\ \/ Return(h)
            \/ \E label \in {"inserting", "checking", "searching"} :
                 /\ Becomes(h, label, status[Mine(h)], parked[Mine(h)], call[h].result)
                 /\ label = "inserting" => status[Mine(h)] = "NONE"
                 /\ label = "checking" => status[Mine(h)] = "WAITING_APPROVAL"
                 /\ label = "searching" => status[Mine(h)] \in {"RECEIVED", "PROCESSING"}
<1>1. UNCHANGED <<rowVars, runtimeVars, leaseVars, ran, faults>> /\ call[h].at = "finding"
  BY DEF Find, At
<1>2. ASSUME NEW label \in {"inserting", "checking", "searching"},
             call' = [call EXCEPT ![h].at = label, ![h].seen = status[Mine(h)],
                                  ![h].step = parked[Mine(h)]]
      PROVE  Becomes(h, label, status[Mine(h)], parked[Mine(h)], call[h].result)
  <2>1. label \in Labels /\ status[Mine(h)] \in Statuses /\ parked[Mine(h)] \in 0 .. MaxSteps
    BY DEF Labels, TypeOK, Mine
  <2> QED
    BY <1>2, <2>1, MovesWithRow
<1> QED
  BY <1>1, <1>2, FindStep

LEMMA InsertMoves ==
  ASSUME TypeOK, NEW h \in Handlers, Insert(h)
  PROVE  /\ UNCHANGED <<parked, runtimeVars, leaseVars, ran, faults>>
         /\ call[h].at = "inserting"
         /\ \/ /\ status[Mine(h)] = "NONE" /\ SetStatus(Mine(h), "RECEIVED")
               /\ Becomes(h, "marking", "RECEIVED", call[h].step, call[h].result)
            \/ /\ status[Mine(h)] # "NONE" /\ UNCHANGED status
               /\ Becomes(h, "finding", call[h].seen, call[h].step, call[h].result)
<1>1. {"marking", "finding"} \subseteq Labels /\ "RECEIVED" \in Statuses
  BY DEF Labels, Statuses
<1> QED
  BY <1>1, MovesOn, MovesWithStatus DEF Insert, At, Goto

LEMMA SearchMoves ==
  ASSUME TypeOK, NEW h \in Handlers, Search(h)
  PROVE  /\ UNCHANGED <<rowVars, runtimeVars, leaseVars, ran, faults>>
         /\ call[h].at = "searching"
         /\ \/ call[h].reconciles /\ Return(h)
            \/ /\ ~call[h].reconciles
               /\ \A i \in DOMAIN steps : ~Matches(i, Mine(h))
               /\ Becomes(h, "marking", call[h].seen, call[h].step, call[h].result)
            \/ \E i \in DOMAIN steps :
                 /\ Matches(i, Mine(h)) /\ steps[i].status \in StepStatuses \ {"PENDING"}
                 /\ Becomes(h, "syncing", call[h].seen, i, steps[i].status)
<1> DEFINE i == Latest(Mine(h))
<1>1. \/ i = 0 /\ \A j \in DOMAIN steps : ~Matches(j, Mine(h))
      \/ i \in DOMAIN steps /\ Matches(i, Mine(h))
  <2>1. Mine(h) \in Requests
    BY DEF TypeOK, Mine
  <2> QED
    BY <2>1, LatestMatches
<1>2. /\ UNCHANGED <<rowVars, runtimeVars, leaseVars, ran, faults>>
      /\ call[h].at = "searching"
      /\ i = 0 => IF call[h].reconciles THEN Return(h) ELSE Goto(h, "marking")
      /\ i # 0 => call' = [call EXCEPT ![h].at = "syncing", ![h].step = i,
                                       ![h].result = steps[i].status]
  BY DEF Search, At
<1>3. DOMAIN steps \subseteq 1 .. MaxSteps /\ \A j \in DOMAIN steps : steps[j].status \in StepStatuses
  BY StepRow
<1> HIDE DEF i
<1>4. {"marking", "syncing"} \subseteq Labels
  BY DEF Labels
<1>5. CASE i = 0
  <2>1. \A j \in DOMAIN steps : ~Matches(j, Mine(h))
    BY <1>1, <1>3, <1>5
  <2> QED
    BY <1>2, <1>4, <1>5, <2>1, MovesOn DEF Goto
<1>6. CASE i # 0
  <2>1. i \in DOMAIN steps /\ Matches(i, Mine(h))
    BY <1>1, <1>6
  <2>2. steps[i].status \in StepStatuses \ {"PENDING"} /\ i \in 0 .. MaxSteps
    BY <1>3, <2>1 DEF Matches
  <2>3. Becomes(h, "syncing", call[h].seen, i, steps[i].status)
    BY <1>2, <1>4, <1>6, <2>2, MovesWithStepResult
  <2> QED
    BY <1>2, <2>1, <2>2, <2>3
<1> QED
  BY <1>5, <1>6

LEMMA SyncMoves ==
  ASSUME TypeOK, NEW h \in Handlers, Sync(h)
  PROVE  /\ UNCHANGED <<runtimeVars, leaseVars, ran, faults>>
         /\ call[h].at = "syncing" /\ Return(h)
         /\ \/ SetStatus(Mine(h), StatusOf(call[h].result))
            \/ UNCHANGED status /\ StatusOf(call[h].result) = call[h].seen
         /\ parked' = IF call[h].result = "WAITING_APPROVAL"
                      THEN [parked EXCEPT ![Mine(h)] = call[h].step] ELSE parked
  BY DEF Sync, At

LEMMA MarkMoves ==
  ASSUME TypeOK, NEW h \in Handlers, Mark(h)
  PROVE  /\ UNCHANGED <<parked, runtimeVars, leaseVars, ran, faults>>
         /\ call[h].at = "marking"
         /\ SetStatus(Mine(h), "PROCESSING") \/ (UNCHANGED status /\ call[h].seen = "PROCESSING")
         /\ Becomes(h, "entering", call[h].seen, call[h].step, call[h].result)
<1>1. "entering" \in Labels
  BY DEF Labels
<1> QED
  BY <1>1, MovesOn DEF Mark, At, Goto

LEMMA EnterMoves ==
  ASSUME TypeOK, NEW h \in Handlers, Enter(h)
  PROVE  /\ UNCHANGED <<rowVars, runtimeVars, leaseVars, ran, faults>>
         /\ call[h].at = "entering"
         /\ \/ Becomes(h, "claiming", call[h].seen, call[h].step, call[h].result)
            \/ ~call[h].reconciles /\ Return(h)
            \/ /\ call[h].reconciles
               /\ Becomes(h, "searching", call[h].seen, call[h].step, call[h].result)
<1>1. UNCHANGED <<rowVars, runtimeVars, leaseVars, ran, faults>> /\ call[h].at = "entering"
  BY DEF Enter, At
<1>2. {"claiming", "searching"} \subseteq Labels
  BY DEF Labels
<1> QED
  BY <1>1, <1>2, EnterStep, MovesOn DEF Goto

LEMMA ClaimMoves ==
  ASSUME TypeOK, NEW h \in Handlers, Claim(h)
  PROVE  /\ UNCHANGED <<rowVars, runtimeVars, ran, faults>>
         /\ call[h].at = "claiming"
         /\ inside' = inside \cup {h} /\ Stepping!LeaseTypeOK'
         /\ Becomes(h, "claimed", call[h].seen, call[h].step, call[h].result)
<1>1. "claimed" \in Labels
  BY DEF Labels
<1>2. Stepping!LeaseTypeOK'
  BY DEF TypeOK, Claim, Stepping!Acquire, Stepping!LeaseTypeOK
<1> QED
  BY <1>1, <1>2, MovesOn DEF Claim, At, Goto, Stepping!Acquire

LEMMA ConflictMoves ==
  ASSUME TypeOK, NEW h \in Handlers, Conflict(h)
  PROVE  /\ UNCHANGED <<rowVars, runtimeVars, leaseVars, ran, faults>>
         /\ call[h].at = "claiming"
         /\ \/ /\ call[h].reconciles
               /\ Becomes(h, "rereading", call[h].seen, call[h].step, call[h].result)
            \/ ~call[h].reconciles /\ Return(h)
<1>1. "rereading" \in Labels
  BY DEF Labels
<1> QED
  BY <1>1, MovesOn DEF Conflict, At, Goto

LEMMA SubmitMoves ==
  ASSUME TypeOK, NEW h \in Handlers, Submit(h)
  PROVE  /\ UNCHANGED <<rowVars, execution, approval, ran, faults>>
         /\ call[h].at = "claimed" /\ ~call[h].reconciles
         /\ \/ /\ Return(h) /\ UNCHANGED steps
               /\ inside' = inside \ {h} /\ Stepping!LeaseTypeOK'
            \/ /\ Appends(h)
               /\ Becomes(h, "running", call[h].seen, Len(steps) + 1, call[h].result)
<1>1. "running" \in Labels
  BY DEF Labels
<1>2. CASE Appends(h)
  <2>1. Len(steps) + 1 \in 0 .. MaxSteps
    <3>1. Len(steps) \in 0 .. MaxSteps /\ MaxSteps \in Nat /\ Len(steps) < MaxSteps
      BY <1>2, StepRow, ExternalAssumption DEF Appends
    <3> QED
      BY <3>1
  <2>2. Becomes(h, "running", call[h].seen, Len(steps) + 1, call[h].result)
    BY <1>1, <1>2, <2>1, MovesWithStep DEF Appends
  <2> QED
    BY <1>2, <2>2 DEF Submit, At
<1>3. CASE ~Appends(h)
  <2>1. Stepping!Release(h) /\ Return(h) /\ UNCHANGED steps
    BY <1>3 DEF Submit, Appends
  <2>2. Stepping!LeaseTypeOK' /\ inside' = inside \ {h}
    BY <2>1 DEF TypeOK, Stepping!Release, Stepping!LeaseTypeOK
  <2> QED
    BY <2>1, <2>2 DEF Submit, At
<1> QED
  BY <1>2, <1>3

LEMMA ExceedMoves ==
  ASSUME TypeOK, NEW h \in Handlers, Exceed(h)
  PROVE  /\ UNCHANGED <<rowVars, steps, approval, leaseVars, ran, faults>>
         /\ call[h].at = "claimed" /\ ~call[h].reconciles /\ execution' = "ENDED"
         /\ Becomes(h, "leaving", call[h].seen, call[h].step, "FAILED")
<1>1. "leaving" \in Labels /\ "FAILED" \in StepStatuses \ {"PENDING"}
  BY DEF Labels, StepStatuses
<1> QED
  BY <1>1, MovesWithResult DEF Exceed, At

LEMMA RunToolMoves ==
  ASSUME TypeOK, NEW h \in Handlers, RunTool(h)
  PROVE  /\ UNCHANGED <<rowVars, steps, leaseVars, faults>>
         /\ call[h].at = "running"
         /\ ran' \in [Requests -> 0 .. 2]
         /\ \E result \in StepStatuses \ {"PENDING"} :
              /\ Becomes(h, "closing", call[h].seen, call[h].step, result)
              /\ UNCHANGED ran \/ (result \in {"COMPLETED", "FAILED"} /\ Once(Mine(h)))
              /\ result = "COMPLETED" => Once(Mine(h))
              /\ IF result = "WAITING_APPROVAL"
                 THEN /\ execution' = "WAITING_APPROVAL"
                      /\ approval' = [approval EXCEPT ![call[h].step] = "PENDING"]
                 ELSE UNCHANGED <<execution, approval>>
<1>1. "closing" \in Labels
  BY DEF Labels
<1>2. UNCHANGED <<rowVars, steps, leaseVars, faults>> /\ call[h].at = "running"
  BY DEF RunTool, At
<1>3. PICK result \in StepStatuses \ {"PENDING"} :
          /\ call' = [call EXCEPT ![h].at = "closing", ![h].result = result]
          /\ UNCHANGED ran \/ (result \in {"COMPLETED", "FAILED"} /\ Once(Mine(h)))
          /\ result = "COMPLETED" => Once(Mine(h))
          /\ IF result = "WAITING_APPROVAL"
             THEN /\ execution' = "WAITING_APPROVAL"
                  /\ approval' = [approval EXCEPT ![call[h].step] = "PENDING"]
             ELSE UNCHANGED <<execution, approval>>
  BY RunToolStep
<1>4. Becomes(h, "closing", call[h].seen, call[h].step, result)
  BY <1>1, <1>3, MovesWithResult
<1>5. ran' \in [Requests -> 0 .. 2]
  <2>1. ran \in [Requests -> 0 .. 2]
    BY DEF TypeOK
  <2> QED
    BY <1>3, <2>1, OnceCounts
<1> QED
  BY <1>2, <1>3, <1>4, <1>5

LEMMA CloseMoves ==
  ASSUME TypeOK, NEW h \in Handlers, Close(h)
  PROVE  /\ UNCHANGED <<rowVars, approval, leaseVars, ran, faults>>
         /\ call[h].at = "closing" /\ Finalize(call[h].step, call[h].result)
         /\ Becomes(h, "leaving", call[h].seen, call[h].step, call[h].result)
<1>1. "leaving" \in Labels
  BY DEF Labels
<1> QED
  BY <1>1, MovesOn DEF Close, At, Goto

LEMMA ReconcileMoves ==
  ASSUME TypeOK, NEW h \in Handlers, Reconcile(h)
  PROVE  /\ UNCHANGED <<rowVars, approval, leaseVars, ran, faults>>
         /\ call[h].at = "claimed" /\ call[h].reconciles
         /\ Becomes(h, "leaving", call[h].seen, call[h].step, call[h].result)
<1>1. "leaving" \in Labels
  BY DEF Labels
<1> QED
  BY <1>1, MovesOn DEF Reconcile, At, Goto

LEMMA LeaveMoves ==
  ASSUME TypeOK, NEW h \in Handlers, Leave(h)
  PROVE  /\ UNCHANGED <<rowVars, runtimeVars, ran, faults>>
         /\ call[h].at = "leaving"
         /\ inside' = inside \ {h} /\ Stepping!LeaseTypeOK'
         /\ \/ /\ call[h].reconciles
               /\ Becomes(h, "rereading", call[h].seen, call[h].step, call[h].result)
            \/ /\ ~call[h].reconciles
               /\ Becomes(h, "applying", call[h].seen, call[h].step, call[h].result)
<1>1. {"rereading", "applying"} \subseteq Labels
  BY DEF Labels
<1>2. Stepping!LeaseTypeOK' /\ inside' = inside \ {h}
  BY DEF TypeOK, Leave, Stepping!Release, Stepping!LeaseTypeOK
<1> QED
  BY <1>1, <1>2, MovesOn DEF Leave, At, Goto

LEMMA ApplyMoves ==
  ASSUME TypeOK, NEW h \in Handlers, Apply(h)
  PROVE  /\ UNCHANGED <<runtimeVars, leaseVars, ran, faults>>
         /\ call[h].at = "applying" /\ Return(h)
         /\ SetStatus(Mine(h), StatusOf(call[h].result))
         /\ parked' = IF call[h].result = "WAITING_APPROVAL"
                      THEN [parked EXCEPT ![Mine(h)] = call[h].step] ELSE parked
  BY DEF Apply, At

LEMMA CheckMoves ==
  ASSUME TypeOK, NEW h \in Handlers, Check(h)
  PROVE  /\ UNCHANGED <<rowVars, runtimeVars, leaseVars, ran, faults>>
         /\ call[h].at = "checking"
         /\ \/ Return(h)
            \/ Goes(h, "entering", call[h].seen, call[h].step, call[h].result) /\ call'[h].reconciles
<1>1. "entering" \in Labels
  BY DEF Labels
<1> QED
  BY <1>1, MovesToReconcile DEF Check, At

LEMMA RereadMoves ==
  ASSUME TypeOK, NEW h \in Handlers, Reread(h)
  PROVE  /\ UNCHANGED <<rowVars, runtimeVars, leaseVars, ran, faults>>
         /\ call[h].at = "rereading"
         /\ Becomes(h, "searching", status[Mine(h)], call[h].step, call[h].result)
<1>1. "searching" \in Labels /\ status[Mine(h)] \in Statuses
  BY DEF Labels, TypeOK, Mine
<1> QED
  BY <1>1, MovesWithStatus DEF Reread, At

-----------------------------------------------------------------------------
(* Types are kept                                                            *)

LEMMA StatusOfType ==
  \A result \in StepStatuses \ {"PENDING"} : StatusOf(result) \in Statuses
  BY DEF StatusOf, StepStatuses, Statuses

\* What a step of h has to leave behind.
Leaves(h) ==
    /\ call' \in [Handlers -> Calls]
    /\ \A g \in Handlers : g # h => call'[g] = call[g]
    /\ call'[h].at \in AtItsStep => call'[h].step \in DOMAIN steps'

LEMMA GoesLeaves ==
  ASSUME Typed, NEW h \in Handlers, NEW label, NEW seen, NEW step, NEW result,
         Goes(h, label, seen, step, result),
         label \notin AtItsStep \/ step \in DOMAIN steps'
  PROVE  Leaves(h)
  BY DEF Goes, Leaves

LEMMA ReturnLeaves ==
  ASSUME Typed, NEW h \in Handlers, Return(h)
  PROVE  Leaves(h)
  BY Returns, NoCallType DEF Typed, Leaves, AtItsStep

LEMMA TypedIf ==
  ASSUME Typed, NEW h \in Handlers, Leaves(h),
         status' \in [Requests -> Statuses],
         parked' \in [Requests -> 0 .. MaxSteps],
         execution' \in {"RUNNING", "WAITING_APPROVAL", "ENDED"},
         steps' \in Seq(StepRows), Len(steps') <= MaxSteps, DOMAIN steps \subseteq DOMAIN steps',
         approval' \in [1 .. MaxSteps -> Approvals],
         Stepping!LeaseTypeOK',
         ran' \in [Requests -> 0 .. 2],
         faults' \in 0 .. MaxFaults
  PROVE  Typed'
<1>1. TypeOK'
  BY DEF Leaves, TypeOK, Calls, StepRows
<1>2. HasItsStep'
  BY DEF Leaves, Typed, HasItsStep
<1> QED
  BY <1>1, <1>2 DEF Typed

\* The parts that a step does not touch.
LEMMA SameIsTyped ==
  ASSUME TypeOK
  PROVE  /\ UNCHANGED status => status' \in [Requests -> Statuses]
         /\ UNCHANGED parked => parked' \in [Requests -> 0 .. MaxSteps]
         /\ UNCHANGED execution => execution' \in {"RUNNING", "WAITING_APPROVAL", "ENDED"}
         /\ UNCHANGED steps => /\ steps' \in Seq(StepRows) /\ Len(steps') <= MaxSteps
                               /\ DOMAIN steps \subseteq DOMAIN steps'
         /\ UNCHANGED approval => approval' \in [1 .. MaxSteps -> Approvals]
         /\ UNCHANGED leaseVars => Stepping!LeaseTypeOK'
         /\ UNCHANGED ran => ran' \in [Requests -> 0 .. 2]
         /\ UNCHANGED faults => faults' \in 0 .. MaxFaults
  BY DEF TypeOK, StepRows, leaseVars, Stepping!LeaseTypeOK

\* A handler writes its row.
LEMMA RowIsTyped ==
  ASSUME TypeOK, NEW h \in Handlers
  PROVE  /\ \A value \in Statuses : SetStatus(Mine(h), value) => status' \in [Requests -> Statuses]
         /\ [parked EXCEPT ![Mine(h)] = call[h].step] \in [Requests -> 0 .. MaxSteps]
         /\ StatusOf(call[h].result) \in Statuses
  BY StatusOfType DEF TypeOK, SetStatus, Mine

LEMMA TypedHandle ==
  ASSUME Typed, NEW h \in Handlers, Handle(h)
  PROVE  Typed'
<1> USE DEF rowVars, runtimeVars
<1>0. TypeOK
  BY DEF Typed
<1>1. CASE Find(h)
  <2>1. \A label \in {"inserting", "checking", "searching"} : label \notin AtItsStep
    BY DEF AtItsStep
  <2>2. Leaves(h)
    BY <1>0, <1>1, <2>1, FindMoves, GoesLeaves, ReturnLeaves DEF Becomes
  <2> QED
    BY <1>0, <1>1, <2>2, FindMoves, SameIsTyped, TypedIf
<1>2. CASE Insert(h)
  <2>1. Leaves(h)
    BY <1>0, <1>2, InsertMoves, GoesLeaves DEF Becomes, AtItsStep
  <2>2. status' \in [Requests -> Statuses]
    BY <1>0, <1>2, InsertMoves, SameIsTyped, RowIsTyped DEF Statuses
  <2> QED
    BY <1>0, <1>2, <2>1, <2>2, InsertMoves, SameIsTyped, TypedIf
<1>3. CASE Search(h)
  <2>1. Leaves(h)
    BY <1>0, <1>3, SearchMoves, GoesLeaves, ReturnLeaves DEF Becomes, AtItsStep
  <2> QED
    BY <1>0, <1>3, <2>1, SearchMoves, SameIsTyped, TypedIf
<1>4. CASE Sync(h) \/ Apply(h)
  <2>1. /\ UNCHANGED <<runtimeVars, leaseVars, ran, faults>> /\ Return(h)
        /\ SetStatus(Mine(h), StatusOf(call[h].result)) \/ UNCHANGED status
        /\ \/ parked' = [parked EXCEPT ![Mine(h)] = call[h].step]
           \/ UNCHANGED parked
    BY <1>0, <1>4, SyncMoves, ApplyMoves
  <2>2. Leaves(h)
    BY <2>1, ReturnLeaves
  <2>3. status' \in [Requests -> Statuses] /\ parked' \in [Requests -> 0 .. MaxSteps]
    BY <1>0, <2>1, SameIsTyped, RowIsTyped
  <2> QED
    BY <1>0, <2>1, <2>2, <2>3, SameIsTyped, TypedIf
<1>5. CASE Mark(h)
  <2>1. Leaves(h)
    BY <1>0, <1>5, MarkMoves, GoesLeaves DEF Becomes, AtItsStep
  <2>2. status' \in [Requests -> Statuses]
    BY <1>0, <1>5, MarkMoves, SameIsTyped, RowIsTyped DEF Statuses
  <2> QED
    BY <1>0, <1>5, <2>1, <2>2, MarkMoves, SameIsTyped, TypedIf
<1>6. CASE Enter(h)
  <2>1. Leaves(h)
    BY <1>0, <1>6, EnterMoves, GoesLeaves, ReturnLeaves DEF Becomes, AtItsStep
  <2> QED
    BY <1>0, <1>6, <2>1, EnterMoves, SameIsTyped, TypedIf
<1>7. CASE Claim(h)
  <2>1. Leaves(h)
    BY <1>0, <1>7, ClaimMoves, GoesLeaves DEF Becomes, AtItsStep
  <2> QED
    BY <1>0, <1>7, <2>1, ClaimMoves, SameIsTyped, TypedIf
<1>8. CASE Conflict(h)
  <2>1. Leaves(h)
    BY <1>0, <1>8, ConflictMoves, GoesLeaves, ReturnLeaves DEF Becomes, AtItsStep
  <2> QED
    BY <1>0, <1>8, <2>1, ConflictMoves, SameIsTyped, TypedIf
<1>9. CASE Submit(h)
  <2>1. CASE Appends(h) /\ Becomes(h, "running", call[h].seen,
                                   Len(steps) + 1, call[h].result)
    <3>1. /\ steps' \in Seq(StepRows) /\ Len(steps') <= MaxSteps
          /\ DOMAIN steps \subseteq DOMAIN steps' /\ Len(steps) + 1 \in DOMAIN steps'
      BY <1>0, <2>1, AppendedStep
    <3>2. Leaves(h)
      BY <2>1, <3>1, GoesLeaves DEF Becomes
    <3>3. UNCHANGED leaseVars
      BY <2>1 DEF Appends
    <3> QED
      BY <1>0, <1>9, <3>1, <3>2, <3>3, SubmitMoves, SameIsTyped, TypedIf
  <2>2. CASE Return(h) /\ UNCHANGED steps /\ Stepping!LeaseTypeOK'
    BY <1>0, <1>9, <2>2, SubmitMoves, ReturnLeaves, SameIsTyped, TypedIf
  <2> QED
    BY <1>0, <1>9, <2>1, <2>2, SubmitMoves
<1>10. CASE Exceed(h)
  <2>1. Leaves(h)
    BY <1>0, <1>10, ExceedMoves, GoesLeaves DEF Becomes, AtItsStep
  <2> QED
    BY <1>0, <1>10, <2>1, ExceedMoves, SameIsTyped, TypedIf
<1>11. CASE RunTool(h)
  <2>1. call[h].step \in DOMAIN steps' /\ UNCHANGED steps
    BY <1>0, <1>11, RunToolMoves DEF Typed, HasItsStep, AtItsStep
  <2>2. Leaves(h)
    BY <1>0, <1>11, <2>1, RunToolMoves, GoesLeaves DEF Becomes
  <2>3. /\ approval' \in [1 .. MaxSteps -> Approvals]
        /\ execution' \in {"RUNNING", "WAITING_APPROVAL", "ENDED"}
    <3>1. "PENDING" \in Approvals /\ approval \in [1 .. MaxSteps -> Approvals]
      BY <1>0 DEF Approvals, TypeOK
    <3>2. UNCHANGED <<execution, approval>> \/
          (execution' = "WAITING_APPROVAL" /\ approval' = [approval EXCEPT ![call[h].step] = "PENDING"])
      BY <1>0, <1>11, RunToolMoves
    <3> QED
      BY <1>0, <3>1, <3>2, SameIsTyped
  <2> QED
    BY <1>0, <1>11, <2>1, <2>2, <2>3, RunToolMoves, SameIsTyped, TypedIf
<1>12. CASE Close(h)
  <2>1. /\ call[h].step \in DOMAIN steps /\ call[h].result \in StepStatuses
        /\ Finalize(call[h].step, call[h].result)
    BY <1>0, <1>12, CloseMoves DEF Typed, HasItsStep, AtItsStep, TypeOK
  <2>2. /\ steps' \in Seq(StepRows) /\ Len(steps') <= MaxSteps
        /\ DOMAIN steps \subseteq DOMAIN steps'
        /\ execution' \in {"RUNNING", "WAITING_APPROVAL", "ENDED"}
    BY <1>0, <2>1, FinalizeSteps
  <2>3. Leaves(h)
    BY <1>0, <1>12, CloseMoves, GoesLeaves DEF Becomes, AtItsStep
  <2> QED
    BY <1>0, <1>12, <2>2, <2>3, CloseMoves, SameIsTyped, TypedIf
<1>13. CASE Reconcile(h)
  <2>1. \A i \in DOMAIN steps, result \in {"COMPLETED", "FAILED", "BLOCKED"} :
           Finalize(i, result) =>
              /\ steps' \in Seq(StepRows) /\ Len(steps') <= MaxSteps
              /\ DOMAIN steps \subseteq DOMAIN steps'
              /\ execution' \in {"RUNNING", "WAITING_APPROVAL", "ENDED"}
    <3> TAKE i \in DOMAIN steps, result \in {"COMPLETED", "FAILED", "BLOCKED"}
    <3>1. result \in StepStatuses
      BY DEF StepStatuses
    <3> QED
      BY <1>0, <3>1, FinalizeSteps
  <2>2. /\ steps' \in Seq(StepRows) /\ Len(steps') <= MaxSteps
        /\ DOMAIN steps \subseteq DOMAIN steps'
        /\ execution' \in {"RUNNING", "WAITING_APPROVAL", "ENDED"}
    BY <1>0, <1>13, <2>1, ReconcileStep, SameIsTyped
  <2>3. Leaves(h)
    BY <1>0, <1>13, ReconcileMoves, GoesLeaves DEF Becomes, AtItsStep
  <2> QED
    BY <1>0, <1>13, <2>2, <2>3, ReconcileMoves, SameIsTyped, TypedIf
<1>14. CASE Leave(h)
  <2>1. Leaves(h)
    BY <1>0, <1>14, LeaveMoves, GoesLeaves DEF Becomes, AtItsStep
  <2> QED
    BY <1>0, <1>14, <2>1, LeaveMoves, SameIsTyped, TypedIf
<1>15. CASE Check(h)
  <2>1. Leaves(h)
    BY <1>0, <1>15, CheckMoves, GoesLeaves, ReturnLeaves DEF Becomes, AtItsStep
  <2> QED
    BY <1>0, <1>15, <2>1, CheckMoves, SameIsTyped, TypedIf
<1>16. CASE Reread(h)
  <2>1. Leaves(h)
    BY <1>0, <1>16, RereadMoves, GoesLeaves DEF Becomes, AtItsStep
  <2> QED
    BY <1>0, <1>16, <2>1, RereadMoves, SameIsTyped, TypedIf
<1> QED
  BY <1>1, <1>2, <1>3, <1>4, <1>5, <1>6, <1>7, <1>8, <1>9, <1>10, <1>11, <1>12, <1>13, <1>14,
     <1>15, <1>16 DEF Handle

LEMMA ArriveMoves ==
  ASSUME TypeOK, NEW h \in Handlers, Arrive(h)
  PROVE  /\ UNCHANGED <<rowVars, runtimeVars, leaseVars, ran, faults>>
         /\ call[h].at = "idle"
         /\ call' \in [Handlers -> Calls]
         /\ \A g \in Handlers : g # h => call'[g] = call[g]
         /\ \E q \in Requests, submits \in BOOLEAN :
               /\ call'[h] = CallFor(q, "finding", submits)
               /\ Patient => \A g \in Handlers : call[g].at = "idle" \/ Mine(g) # q
<1>1. PICK q \in Requests, submits \in BOOLEAN :
         /\ Patient => \A g \in Handlers : call[g].at = "idle" \/ Mine(g) # q
         /\ call' = [call EXCEPT ![h] = CallFor(q, "finding", submits)]
  BY DEF Arrive, At
<1>2. CallFor(q, "finding", submits) \in Calls
  <2>1. 0 \in 0 .. MaxSteps
    BY ExternalAssumption
  <2> QED
    BY <2>1 DEF CallFor, Calls, Labels, Statuses, StepStatuses
<1>3. call \in [Handlers -> Calls]
  BY DEF TypeOK, Calls
<1> HIDE DEF CallFor
<1>4. /\ call' \in [Handlers -> Calls] /\ call'[h] = CallFor(q, "finding", submits)
      /\ \A g \in Handlers : g # h => call'[g] = call[g]
  BY <1>1, <1>2, <1>3
<1> QED
  BY <1>1, <1>4 DEF Arrive, At

LEMMA DieMoves ==
  ASSUME TypeOK, NEW h \in Handlers, Die(h)
  PROVE  /\ UNCHANGED <<rowVars, runtimeVars, ran>> /\ Return(h)
         /\ faults' \in 0 .. MaxFaults
         /\ inside' = inside \ {h} /\ Stepping!LeaseTypeOK'
<1>1. UNCHANGED <<rowVars, runtimeVars, ran>> /\ Return(h)
  BY DEF Die
<1>2. faults' \in 0 .. MaxFaults
  BY ExternalAssumption DEF Die, TypeOK
<1>3. inside' = inside \ {h} /\ Stepping!LeaseTypeOK'
  BY DEF Die, Stepping!Die, TypeOK, Stepping!LeaseTypeOK, leaseVars
<1> QED
  BY <1>1, <1>2, <1>3

\* The steps of others leave the calls and the step rows alone.
LEMMA OthersMove ==
  ASSUME TypeOK, (\E i \in 1 .. MaxSteps : Answer(i) \/ RunApproved(i)) \/ Reopen \/ Cancel \/ Expire
  PROVE  /\ UNCHANGED <<rowVars, steps, call, faults, inside>>
         /\ Stepping!LeaseTypeOK'
         /\ execution' \in {"RUNNING", "WAITING_APPROVAL", "ENDED"}
         /\ approval' \in [1 .. MaxSteps -> Approvals]
         /\ ran' \in [Requests -> 0 .. 2]
<1> USE DEF rowVars, leaseVars, TypeOK, Stepping!LeaseTypeOK, Approvals
<1>1. ASSUME NEW i \in 1 .. MaxSteps, Answer(i)
      PROVE  /\ UNCHANGED <<rowVars, steps, call, faults, inside, leaseVars, ran, execution>>
             /\ approval' \in [1 .. MaxSteps -> Approvals]
  BY <1>1 DEF Answer
<1>2. ASSUME NEW i \in 1 .. MaxSteps, RunApproved(i)
      PROVE  /\ UNCHANGED <<rowVars, steps, call, faults, inside, leaseVars>>
             /\ execution' = "RUNNING"
             /\ approval' \in [1 .. MaxSteps -> Approvals]
             /\ ran' \in [Requests -> 0 .. 2]
  <2>1. UNCHANGED ran \/ Once(steps[i].request)
    BY <1>2 DEF RunApproved
  <2>2. ran' \in [Requests -> 0 .. 2]
    BY <2>1, OnceCounts
  <2> QED
    BY <1>2, <2>2 DEF RunApproved
<1>3. CASE Reopen \/ Cancel
  BY <1>3 DEF Reopen, Cancel, runtimeVars
<1>4. CASE Expire
  BY <1>4 DEF Expire, runtimeVars, Stepping!Overrun
<1> QED
  BY <1>1, <1>2, <1>3, <1>4

LEMMA TypedStep == Typed /\ [Next]_vars => Typed'
<1> SUFFICES ASSUME Typed, [Next]_vars PROVE Typed'
  OBVIOUS
<1> USE DEF rowVars, runtimeVars
<1>0. TypeOK
  BY DEF Typed
<1>1. ASSUME NEW h \in Handlers, Arrive(h) PROVE Typed'
  <2>1. Leaves(h)
    <3>1. \A q, submits : CallFor(q, "finding", submits).at = "finding"
      BY DEF CallFor
    <3>2. /\ call' \in [Handlers -> Calls] /\ call'[h].at = "finding"
          /\ \A g \in Handlers : g # h => call'[g] = call[g]
      BY <1>0, <1>1, <3>1, ArriveMoves
    <3> QED
      BY <3>2 DEF Leaves, AtItsStep
  <2>2. UNCHANGED <<rowVars, runtimeVars, leaseVars, ran, faults>>
    BY <1>0, <1>1, ArriveMoves
  <2> QED
    BY <1>0, <2>1, <2>2, SameIsTyped, TypedIf
<1>2. ASSUME NEW h \in Handlers, Die(h) PROVE Typed'
  <2>1. Leaves(h)
    BY <1>0, <1>2, DieMoves, ReturnLeaves
  <2> QED
    BY <1>0, <1>2, <2>1, DieMoves, SameIsTyped, TypedIf
<1>3. ASSUME (\E i \in 1 .. MaxSteps : Answer(i) \/ RunApproved(i)) \/ Reopen \/ Cancel \/ Expire
      PROVE  Typed'
  <2>1. TypeOK'
    <3>1. /\ UNCHANGED <<rowVars, steps, call, faults>>
          /\ Stepping!LeaseTypeOK'
          /\ execution' \in {"RUNNING", "WAITING_APPROVAL", "ENDED"}
          /\ approval' \in [1 .. MaxSteps -> Approvals]
          /\ ran' \in [Requests -> 0 .. 2]
      BY <1>0, <1>3, OthersMove
    <3> QED
      BY <1>0, <3>1 DEF TypeOK
  <2>2. HasItsStep'
    BY <1>0, <1>3, OthersMove DEF Typed, HasItsStep
  <2> QED
    BY <2>1, <2>2 DEF Typed
<1>4. CASE UNCHANGED vars
  BY <1>4 DEF vars, leaseVars, Typed, TypeOK, HasItsStep, Stepping!LeaseTypeOK
<1> QED
  BY <1>1, <1>2, <1>3, <1>4, TypedHandle DEF Next

LEMMA TypedAlways == Spec => []Typed
  BY TypedInit, TypedStep, PTL DEF Spec

\* Rows, steps, approvals, lease and calls keep their types, with any clients.
THEOREM TypeCorrect == Spec => []TypeOK
<1>1. Typed => TypeOK
  BY DEF Typed
<1> QED
  BY <1>1, TypedAlways, PTL

-----------------------------------------------------------------------------
(* The inductive invariant.  RetriesRunOnce relates the runs of a tool to    *)
(* the steps only: what ties both together is where a request is decided.    *)
(* A request is decided by one step at most; while one of its calls submits, *)
(* none of its steps is; nobody but that call writes its row; and, unless a  *)
(* step was orphaned, each run is the run of one of its steps.               *)

OwnTools == \A p, q \in Requests : Tool[p] = Tool[q] => p = q

Decided(i) == steps[i].status # "PENDING"
StepsOf(q) == {i \in DOMAIN steps : steps[i].request = q}
UndecidedYet(q) == \A i \in StepsOf(q) : ~Decided(i)

UnderTheLease == {"claimed", "running", "closing", "leaving"}
Submitting == {"entering", "claiming", "claimed", "running", "closing", "leaving", "applying"}
Reconciling == {"entering", "claiming", "claimed", "leaving", "rereading", "searching", "syncing"}
BeforeItsDecision ==
    {"inserting", "marking", "entering", "claiming", "claimed", "running", "closing"}

\* A client that waits has one live call.
OneCallEach ==
    \A g, h \in Handlers :
        call[g].at # "idle" /\ call[h].at # "idle" /\ Mine(g) = Mine(h) => g = h

DecidedOnce ==
    \A i, j \in DOMAIN steps :
        Decided(i) /\ Decided(j) /\ steps[i].request = steps[j].request => i = j

StepInv(i) ==
    /\ steps[i].status = "COMPLETED" \/ approval[i] = "EXECUTED" => ran[steps[i].request] > 0
    /\ steps[i].status = "BLOCKED" => approval[i] \in {"NONE", "REJECTED"}

StepsInv ==
    /\ DecidedOnce
    /\ \A i \in 1 .. MaxSteps : approval[i] # "NONE" => i \in DOMAIN steps
    /\ \A i \in DOMAIN steps : StepInv(i)

\* What a handler knows of its request's row: nobody else writes it.
Held(h) == IF ~call[h].reconciles /\ call[h].at \in Submitting THEN "PROCESSING" ELSE call[h].seen

RowIsHeld(h) ==
    /\ call[h].at \notin {"idle", "finding"} => status[Mine(h)] = Held(h)
    /\ call[h].at = "inserting" => call[h].seen = "NONE"
    /\ call[h].at = "marking" => call[h].seen \in {"RECEIVED", "PROCESSING"}
    /\ call[h].at = "checking" \/ call[h].reconciles => call[h].seen = "WAITING_APPROVAL"
    /\ call[h].at \in {"searching", "syncing"} /\ ~call[h].reconciles =>
          call[h].seen \in {"RECEIVED", "PROCESSING"}
    /\ call[h].reconciles => call[h].at \in Reconciling
    /\ call[h].at = "rereading" => call[h].reconciles

\* The step that a handler holds, and what it says of it.
StepIsKnown(h) ==
    /\ call[h].step # 0 => call[h].step \in StepsOf(Mine(h))
    /\ call[h].step # 0 => (call[h].at \in AtItsStep <=> ~Decided(call[h].step))
    /\ call[h].at \in AtItsStep => call[h].step # 0 /\ ~call[h].reconciles
    /\ call[h].at = "running" => approval[call[h].step] = "NONE"
    /\ call[h].at = "closing" /\ call[h].result # "WAITING_APPROVAL" => approval[call[h].step] = "NONE"
    /\ call[h].at = "closing" /\ call[h].result = "COMPLETED" => ran[Mine(h)] > 0

ResultIsKnown(h) ==
    call[h].at = "syncing" \/ (~call[h].reconciles /\ call[h].at \in {"leaving", "applying"}) =>
        /\ call[h].result # "FAILED" => call[h].step # 0
        /\ call[h].result \in {"COMPLETED", "BLOCKED"} => steps[call[h].step].status = call[h].result

\* A submission on its way has no decided step to find.
Fresh(h) == ~call[h].reconciles /\ call[h].at \in BeforeItsDecision => UndecidedYet(Mine(h))

CallInv(h) ==
    /\ RowIsHeld(h) /\ StepIsKnown(h) /\ ResultIsKnown(h) /\ Fresh(h)
    /\ call[h].at \in UnderTheLease <=> h \in inside

RowInv(q) ==
    /\ parked[q] # 0 => parked[q] \in StepsOf(q) /\ Decided(parked[q])
    /\ status[q] = "NONE" => UndecidedYet(q)
    /\ status[q] = "EXECUTED" => ran[q] > 0
    /\ status[q] = "BLOCKED" => \E i \in StepsOf(q) : steps[i].status = "BLOCKED"

\* The tool ran for this step, or failed.
HasRun(i) ==
    \/ approval[i] \in {"EXECUTED", "FAILED"}
    \/ /\ approval[i] = "NONE"
       /\ \/ steps[i].status \in {"COMPLETED", "FAILED"}
          \/ \E h \in Handlers : /\ call[h].at = "closing" /\ call[h].step = i
                                 /\ call[h].result \in {"COMPLETED", "FAILED"}

\* Unless a step was orphaned, a run is the run of a step.
Ledger(q) ==
    \/ Orphaned(q)
    \/ ran[q] <= 1 /\ (ran[q] > 0 => \E i \in StepsOf(q) : HasRun(i))

RequestsInv ==
    /\ Typed
    /\ OneCallEach
    /\ StepsInv
    /\ \A h \in Handlers : CallInv(h)
    /\ \A q \in Requests : RowInv(q) /\ Ledger(q)

LEMMA RequestsInit == Init => RequestsInv
<1> SUFFICES ASSUME Init PROVE RequestsInv
  OBVIOUS
<1>1. Typed
  BY TypedInit
<1>2. /\ \A h \in Handlers : call[h] = NoCall
      /\ DOMAIN steps = {} /\ inside = {}
      /\ \A i \in 1 .. MaxSteps : approval[i] = "NONE"
      /\ \A q \in Requests : status[q] = "NONE" /\ parked[q] = 0 /\ ran[q] = 0
  BY DEF Init, Stepping!LeaseInit
<1>3. \A h \in Handlers : call[h].at = "idle" /\ call[h].step = 0 /\ call[h].reconciles = FALSE
  BY <1>2, NoCallType
<1>4. OneCallEach /\ StepsInv
  BY <1>2, <1>3 DEF OneCallEach, StepsInv, DecidedOnce
<1>5. ASSUME NEW h \in Handlers PROVE CallInv(h)
  BY <1>2, <1>3
  DEF CallInv, RowIsHeld, StepIsKnown, ResultIsKnown, Fresh, AtItsStep, UnderTheLease, Submitting,
      BeforeItsDecision
<1>6. ASSUME NEW q \in Requests PROVE RowInv(q) /\ Ledger(q)
  BY <1>2 DEF RowInv, Ledger, UndecidedYet, StepsOf
<1> QED
  BY <1>1, <1>4, <1>5, <1>6 DEF RequestsInv

\* A step that is not decided belongs to the call that is at it, or is
\* orphaned.
LEMMA OwnerOfStep ==
  ASSUME RequestsInv, NEW q \in Requests, ~Orphaned(q), NEW i \in StepsOf(q), ~Decided(i)
  PROVE  \E h \in Handlers : /\ call[h].at \in AtItsStep /\ call[h].step = i
                             /\ Mine(h) = q
<1>1. i \in DOMAIN steps /\ i # 0 /\ steps[i] = [request |-> q, status |-> "PENDING"]
  BY StepRow DEF RequestsInv, Typed, StepsOf, Decided, StepRows
<1>2. PICK h \in Handlers : h \in inside /\ call[h].step = i
  BY <1>1 DEF Orphaned
<1>3. CallInv(h)
  BY DEF RequestsInv
<1> QED
  BY <1>1, <1>2, <1>3 DEF CallInv, StepIsKnown, StepsOf

LEMMA OneStepEach ==
  ASSUME RequestsInv, NEW q \in Requests, ~Orphaned(q), NEW i \in StepsOf(q), NEW j \in StepsOf(q)
  PROVE  i = j
<1>1. CASE Decided(i) /\ Decided(j)
  BY <1>1 DEF RequestsInv, StepsInv, DecidedOnce, StepsOf
<1>2. ASSUME NEW a \in StepsOf(q), ~Decided(a)
      PROVE  /\ UndecidedYet(q)
             /\ \E h \in Handlers : call[h].at \in AtItsStep /\ call[h].step = a /\ Mine(h) = q
  <2>1. PICK h \in Handlers : call[h].at \in AtItsStep /\ call[h].step = a /\ Mine(h) = q
    BY <1>2, OwnerOfStep
  <2>2. Fresh(h) /\ StepIsKnown(h)
    BY DEF RequestsInv, CallInv
  <2> QED
    BY <2>1, <2>2 DEF Fresh, StepIsKnown, AtItsStep, BeforeItsDecision
<1>3. CASE ~Decided(i) \/ ~Decided(j)
  <2>1. ~Decided(i) /\ ~Decided(j)
    BY <1>2, <1>3 DEF UndecidedYet
  <2>2. PICK g \in Handlers : call[g].at \in AtItsStep /\ call[g].step = i /\ Mine(g) = q
    BY <1>2, <2>1
  <2>3. PICK h \in Handlers : call[h].at \in AtItsStep /\ call[h].step = j /\ Mine(h) = q
    BY <1>2, <2>1
  <2>4. g = h
    BY <2>2, <2>3 DEF RequestsInv, OneCallEach, AtItsStep
  <2> QED
    BY <2>2, <2>3, <2>4
<1> QED
  BY <1>1, <1>3

LEMMA RunOnce == RequestsInv => RetriesRunOnce
<1> SUFFICES ASSUME RequestsInv, NEW q \in Requests, ran[q] > 1 PROVE Orphaned(q)
  BY DEF RetriesRunOnce
<1>1. Ledger(q) /\ ran[q] \in 0 .. 2
  BY DEF RequestsInv, Typed, TypeOK
<1> QED
  BY <1>1 DEF Ledger

LEMMA TrueOutcomes == RequestsInv => OutcomesAreTrue
<1> SUFFICES ASSUME RequestsInv, NEW q \in Requests
             PROVE  /\ status[q] = "EXECUTED" => ran[q] > 0
                    /\ status[q] = "BLOCKED" => ran[q] = 0 \/ Orphaned(q)
  BY DEF OutcomesAreTrue
<1>1. status[q] = "EXECUTED" => ran[q] > 0
  BY DEF RequestsInv, RowInv
<1>2. ASSUME status[q] = "BLOCKED", ~Orphaned(q), ran[q] # 0 PROVE FALSE
  <2>1. PICK i \in StepsOf(q) : steps[i].status = "BLOCKED"
    BY <1>2 DEF RequestsInv, RowInv
  <2>2. PICK j \in StepsOf(q) : HasRun(j)
    <3>1. Ledger(q) /\ ran[q] \in 0 .. 2
      BY DEF RequestsInv, Typed, TypeOK
    <3> QED
      BY <1>2, <3>1 DEF Ledger
  <2>3. i = j
    BY <1>2, OneStepEach
  <2>4. approval[i] \in {"NONE", "REJECTED"} /\ i # 0 /\ i \in DOMAIN steps
    BY <2>1, StepRow DEF RequestsInv, StepsInv, StepInv, StepsOf, Typed
  <2>5. PICK h \in Handlers : call[h].at = "closing" /\ call[h].step = i
    BY <2>1, <2>2, <2>3, <2>4 DEF HasRun
  <2>6. ~Decided(i)
    BY <2>4, <2>5 DEF RequestsInv, CallInv, StepIsKnown, AtItsStep
  <2> QED
    BY <2>1, <2>6 DEF Decided
<1> QED
  BY <1>1, <1>2

-----------------------------------------------------------------------------
(* What a step of h leaves alone: the calls and rows of other requests.      *)

\* Rows only grow, a decision stands, and only h's request is decided.
Advance(h) ==
    /\ \A i \in DOMAIN steps :
          /\ i \in DOMAIN steps' /\ steps'[i].request = steps[i].request
          /\ Decided(i) => steps'[i].status # "PENDING"
          /\ steps[i].status \in {"COMPLETED", "BLOCKED", "FAILED"} => steps'[i].status = steps[i].status
    /\ \A i \in DOMAIN steps' :
          steps'[i].status # "PENDING" =>
              i \in DOMAIN steps /\ (Decided(i) \/ steps[i].request = Mine(h))

\* Nothing that counts for others changes but in h's own steps.
Apart(h) ==
    /\ \A g \in Handlers : g # h => call'[g] = call[g] /\ (g \in inside' <=> g \in inside)
    /\ \A q \in Requests : q # Mine(h) => status'[q] = status[q] /\ parked'[q] = parked[q]
    /\ \A q \in Requests : ran[q] > 0 => ran'[q] > 0
    /\ \A i \in DOMAIN steps :
          steps[i].request # Mine(h) /\ approval[i] = "NONE" => approval'[i] = "NONE"
    /\ Advance(h)

LEMMA OtherRequest ==
  ASSUME RequestsInv, NEW h \in Handlers, NEW q \in Requests, q # Mine(h), Apart(h)
  PROVE  /\ UndecidedYet(q) => UndecidedYet(q)'
         /\ RowInv(q)'
<1>1. RowInv(q)
  BY DEF RequestsInv
<1>2. UndecidedYet(q) => UndecidedYet(q)'
  BY DEF Apart, Advance, UndecidedYet, StepsOf, Decided
<1>3. \A i \in StepsOf(q) : /\ i \in StepsOf(q)' /\ (Decided(i) => Decided(i)')
                            /\ steps[i].status = "BLOCKED" => steps'[i].status = "BLOCKED"
  BY DEF Apart, Advance, StepsOf, Decided
<1>4. status'[q] = status[q] /\ parked'[q] = parked[q] /\ (ran[q] > 0 => ran'[q] > 0)
  BY DEF Apart
<1>5. parked'[q] # 0 => parked'[q] \in StepsOf(q)' /\ steps'[parked'[q]].status # "PENDING"
  BY <1>1, <1>3, <1>4 DEF RowInv, Decided
<1>6. status'[q] = "BLOCKED" => \E i \in StepsOf(q)' : steps'[i].status = "BLOCKED"
  BY <1>1, <1>3, <1>4 DEF RowInv
<1> QED
  BY <1>1, <1>2, <1>4, <1>5, <1>6 DEF RowInv, Decided

LEMMA OtherCall ==
  ASSUME RequestsInv, NEW h \in Handlers, NEW g \in Handlers, g # h, Apart(h),
         call[g].at = "idle" \/ Mine(g) # Mine(h),
         call[g].at \in AtItsStep => steps'[call[g].step] = steps[call[g].step]
  PROVE  CallInv(g)'
<1>1. CallInv(g)
  BY DEF RequestsInv
<1>2. call'[g] = call[g] /\ (g \in inside' <=> g \in inside) /\ Mine(g) \in Requests
      /\ Mine(g)' = Mine(g)
  BY DEF Apart, RequestsInv, Typed, TypeOK, Mine
<1>3. call[g].at # "idle" => /\ status'[Mine(g)] = status[Mine(g)]
                             /\ UndecidedYet(Mine(g)) => UndecidedYet(Mine(g))'
  BY <1>2, OtherRequest DEF Apart
<1>4. RowIsHeld(g)'
  BY <1>1, <1>2, <1>3 DEF CallInv, RowIsHeld, Held, Reconciling
<1>5. StepIsKnown(g)'
  <2> DEFINE i == call[g].step
  <2>1. i # 0 => i \in DOMAIN steps /\ steps[i].request = Mine(g)
    BY <1>1 DEF CallInv, StepIsKnown, StepsOf
  <2>2. i # 0 => i \in StepsOf(Mine(g))' /\ (Decided(i) => steps'[i].status # "PENDING")
    BY <1>2, <2>1 DEF Apart, Advance, StepsOf
  <2>3. i # 0 => (call[g].at \in AtItsStep <=> ~(steps'[i].status # "PENDING"))
    BY <1>1, <2>2 DEF CallInv, StepIsKnown, Decided
  <2>4. call[g].at \in AtItsStep => i # 0 /\ ~call[g].reconciles
    BY <1>1 DEF CallInv, StepIsKnown
  <2>5. call[g].at \in AtItsStep /\ approval[i] = "NONE" => approval'[i] = "NONE"
    BY <2>1, <2>4 DEF Apart, AtItsStep
  <2>6. ran[Mine(g)] > 0 => ran'[Mine(g)] > 0
    BY <1>2 DEF Apart
  <2> QED
    BY <1>1, <1>2, <2>2, <2>3, <2>4, <2>5, <2>6 DEF CallInv, StepIsKnown, Decided, AtItsStep
<1>6. ResultIsKnown(g)'
  <2>1. call[g].step # 0 /\ steps[call[g].step].status \in {"COMPLETED", "BLOCKED"}
           => steps'[call[g].step].status = steps[call[g].step].status
    BY <1>1 DEF CallInv, StepIsKnown, StepsOf, Apart, Advance
  <2> QED
    BY <1>1, <1>2, <2>1 DEF CallInv, ResultIsKnown
<1>7. Fresh(g)'
  BY <1>1, <1>2, <1>3 DEF CallInv, Fresh, BeforeItsDecision
<1> QED
  BY <1>1, <1>2, <1>4, <1>5, <1>6, <1>7 DEF CallInv

\* An orphaned step stays as it is, and nobody takes it up.
LEMMA OrphansStay ==
  ASSUME RequestsInv, NEW q \in Requests, Orphaned(q),
         \A i \in DOMAIN steps :
            ~Decided(i) /\ (\A g \in Handlers : ~(g \in inside /\ call[g].step = i)) =>
               /\ i \in DOMAIN steps' /\ steps'[i] = steps[i]
               /\ \A g \in Handlers : ~(g \in inside' /\ call'[g].step = i)
  PROVE  Orphaned(q)'
<1>1. PICK i \in DOMAIN steps :
         /\ steps[i] = [request |-> q, status |-> "PENDING"]
         /\ \A h \in Handlers : ~(h \in inside /\ call[h].step = i)
  BY DEF Orphaned
<1>2. ~Decided(i)
  BY <1>1 DEF Decided
<1> QED
  BY <1>1, <1>2 DEF Orphaned

LEMMA LedgerStays ==
  ASSUME NEW q \in Requests, Ledger(q), Orphaned(q) => Orphaned(q)',
         ran'[q] = ran[q],
         \A i \in StepsOf(q) : HasRun(i) => (i \in StepsOf(q)' /\ HasRun(i)') \/ Orphaned(q)'
  PROVE  Ledger(q)'
  BY DEF Ledger

\* Most steps of a handler move its call only, and the row of its request.
Quiet(h) ==
    /\ UNCHANGED <<steps, approval, ran>>
    /\ \A g \in Handlers : g # h => call'[g] = call[g] /\ (g \in inside' <=> g \in inside)
    /\ \A q \in Requests : q # Mine(h) => status'[q] = status[q] /\ parked'[q] = parked[q]

Moved(h) == \/ call'[h].at = "idle"
            \/ call'[h].at # "idle" /\ call[h].at # "idle" /\ call'[h].request = call[h].request

LEMMA StillOneCall ==
  ASSUME RequestsInv, NEW h \in Handlers, Moved(h), \A g \in Handlers : g # h => call'[g] = call[g]
  PROVE  OneCallEach'
  BY DEF RequestsInv, OneCallEach, Moved, Mine

LEMMA StepOthersHold ==
  ASSUME RequestsInv, NEW h \in Handlers, call[h].at # "idle", NEW g \in Handlers, g # h
  PROVE  call[g].at = "idle" \/ Mine(g) # Mine(h)
  BY DEF RequestsInv, OneCallEach

LEMMA QuietStep ==
  ASSUME RequestsInv, NEW h \in Handlers, Quiet(h), Typed', OneCallEach',
         call[h].at # "idle", call[h].at \notin AtItsStep, call'[h].at \notin AtItsStep,
         CallInv(h)', \A q \in Requests : q = Mine(h) => RowInv(q)'
  PROVE  RequestsInv'
<1>0. steps' = steps /\ approval' = approval /\ ran' = ran
  BY DEF Quiet
<1>1. StepsInv'
  BY <1>0 DEF RequestsInv, StepsInv, DecidedOnce, StepInv, Decided
<1>2. Apart(h)
  BY <1>0 DEF Quiet, Apart, Advance, Decided
<1>3. ASSUME NEW g \in Handlers PROVE CallInv(g)'
  <2>1. CASE g = h
    BY <2>1
  <2>2. CASE g # h
    BY <1>0, <1>2, <2>2, StepOthersHold, OtherCall
  <2> QED
    BY <2>1, <2>2
<1>4. ASSUME NEW q \in Requests PROVE RowInv(q)'
  BY <1>2, OtherRequest
<1>5. ASSUME NEW i \in DOMAIN steps, ~Decided(i),
             \A g \in Handlers : ~(g \in inside /\ call[g].step = i)
      PROVE  \A g \in Handlers : ~(g \in inside' /\ call'[g].step = i)
  <2> SUFFICES ASSUME NEW g \in Handlers, g \in inside', call'[g].step = i PROVE FALSE
    OBVIOUS
  <2>1. g = h
    BY <1>5 DEF Quiet
  <2>2. i # 0
    BY StepRow DEF RequestsInv, Typed
  <2>3. steps'[i].status # "PENDING"
    BY <2>1, <2>2 DEF CallInv, StepIsKnown, Decided
  <2> QED
    BY <1>0, <1>5, <2>3 DEF Decided
<1>6. ASSUME NEW q \in Requests PROVE Ledger(q)'
  <2>1. Ledger(q)
    BY DEF RequestsInv
  <2>2. Orphaned(q) => Orphaned(q)'
    BY <1>0, <1>5, OrphansStay
  <2>3. \A i \in StepsOf(q) : HasRun(i) => i \in StepsOf(q)' /\ HasRun(i)'
    <3>1. \A g \in Handlers : call[g].at = "closing" => call'[g] = call[g]
      BY DEF Quiet, AtItsStep
    <3> QED
      BY <1>0, <3>1 DEF HasRun, StepsOf
  <2> QED
    BY <1>0, <2>1, <2>2, <2>3, LedgerStays
<1> QED
  BY <1>1, <1>3, <1>4, <1>6 DEF RequestsInv

LEMMA IdleIsFine ==
  ASSUME NEW h \in Handlers, call'[h] = NoCall, h \notin inside'
  PROVE  CallInv(h)'
  BY NoCallType
  DEF CallInv, RowIsHeld, StepIsKnown, ResultIsKnown, Fresh, AtItsStep, UnderTheLease, BeforeItsDecision

LEMMA StepStillKnown ==
  ASSUME RequestsInv, NEW h \in Handlers, UNCHANGED steps, call[h].at \notin AtItsStep,
         NEW label, NEW seen, NEW step, NEW result,
         Goes(h, label, seen, step, result), label \notin AtItsStep,
         \/ step = call[h].step
         \/ step # 0 => step \in StepsOf(Mine(h)) /\ Decided(step)
  PROVE  StepIsKnown(h)'
<1>1. StepIsKnown(h)
  BY DEF RequestsInv, CallInv
<1>2. call'[h].step = step /\ call'[h].at = label /\ Mine(h)' = Mine(h)
  BY DEF Goes, Mine
<1>3. step # 0 => step \in StepsOf(Mine(h)) /\ Decided(step)
  BY <1>1 DEF StepIsKnown
<1>4. label # "running" /\ label # "closing"
  BY DEF AtItsStep
<1> QED
  BY <1>2, <1>3, <1>4 DEF StepIsKnown, StepsOf, Decided

\* The handler has moved on with its call.
LEMMA CallStillFine ==
  ASSUME RequestsInv, NEW h \in Handlers, UNCHANGED steps, call[h].at \notin AtItsStep,
         NEW label, NEW seen, NEW step, NEW result,
         Goes(h, label, seen, step, result), label \notin AtItsStep,
         \/ step = call[h].step
         \/ step # 0 => step \in StepsOf(Mine(h)) /\ Decided(step),
         RowIsHeld(h)', ResultIsKnown(h)',
         ~call'[h].reconciles /\ label \in BeforeItsDecision => UndecidedYet(Mine(h)),
         label \in UnderTheLease <=> h \in inside'
  PROVE  CallInv(h)'
<1>1. StepIsKnown(h)'
  BY StepStillKnown
<1>2. call'[h].at = label /\ Mine(h)' = Mine(h)
  BY DEF Goes, Mine
<1>3. Fresh(h)'
  BY <1>2 DEF Fresh, UndecidedYet, StepsOf, Decided
<1> QED
  BY <1>1, <1>2, <1>3 DEF CallInv

LEMMA RowStillFine ==
  ASSUME RequestsInv, NEW q \in Requests, UNCHANGED <<rowVars, steps, ran>>
  PROVE  RowInv(q)'
  BY DEF RequestsInv, RowInv, rowVars, UndecidedYet, StepsOf, Decided

\* The steps that leave the rows alone.
LEMMA QuietReads ==
  ASSUME RequestsInv, NEW h \in Handlers, Typed',
         UNCHANGED <<rowVars, steps, approval, ran>>,
         \A g \in Handlers : g # h => call'[g] = call[g] /\ (g \in inside' <=> g \in inside),
         Moved(h), call[h].at # "idle", call[h].at \notin AtItsStep, call'[h].at \notin AtItsStep,
         CallInv(h)'
  PROVE  RequestsInv'
<1>1. Quiet(h)
  BY DEF Quiet, rowVars
<1>2. OneCallEach'
  BY StillOneCall
<1>3. \A q \in Requests : RowInv(q)'
  BY RowStillFine
<1> QED
  BY <1>1, <1>2, <1>3, QuietStep

LEMMA ReturnsQuietly ==
  ASSUME RequestsInv, NEW h \in Handlers, Typed',
         UNCHANGED <<rowVars, steps, approval, ran>>, Return(h),
         call[h].at # "idle", call[h].at \notin AtItsStep,
         inside' = inside \ {h}
  PROVE  RequestsInv'
<1>1. call'[h] = NoCall /\ call'[h].at = "idle" /\ \A g \in Handlers : g # h => call'[g] = call[g]
  BY Returns, NoCallType DEF RequestsInv, Typed
<1>2. CallInv(h)'
  BY <1>1, IdleIsFine
<1>3. \A g \in Handlers : g # h => (g \in inside' <=> g \in inside)
  OBVIOUS
<1> QED
  BY <1>1, <1>2, <1>3, QuietReads DEF Moved, AtItsStep

LEMMA FindKeeps ==
  ASSUME RequestsInv, NEW h \in Handlers, Typed', Find(h) PROVE RequestsInv'
<1>0. /\ TypeOK /\ CallInv(h) /\ Mine(h) \in Requests
      /\ UNCHANGED <<rowVars, steps, approval, ran, inside>> /\ call[h].at = "finding"
  BY FindMoves DEF RequestsInv, Typed, TypeOK, Mine, runtimeVars, leaseVars
<1>1. call[h].at # "idle" /\ call[h].at \notin AtItsStep /\ h \notin inside /\ ~call[h].reconciles
  BY <1>0 DEF AtItsStep, CallInv, UnderTheLease, RowIsHeld, Reconciling
<1>2. CASE Return(h)
  BY <1>0, <1>1, <1>2, ReturnsQuietly
<1>3. ASSUME NEW label \in {"inserting", "checking", "searching"},
             Becomes(h, label, status[Mine(h)], parked[Mine(h)], call[h].result),
             label = "inserting" => status[Mine(h)] = "NONE",
             label = "checking" => status[Mine(h)] = "WAITING_APPROVAL",
             label = "searching" => status[Mine(h)] \in {"RECEIVED", "PROCESSING"}
      PROVE  RequestsInv'
  <2>1. /\ call'[h].at = label /\ call'[h].seen = status[Mine(h)] /\ call'[h].request = Mine(h)
        /\ call'[h].reconciles = call[h].reconciles
        /\ \A g \in Handlers : g # h => call'[g] = call[g]
    BY <1>3 DEF Becomes, Goes
  <2>2. label \notin AtItsStep /\ label \notin UnderTheLease
    BY DEF AtItsStep, UnderTheLease
  <2>3. RowInv(Mine(h))
    BY <1>0 DEF RequestsInv
  <2>4. RowIsHeld(h)'
    BY <1>0, <1>1, <1>3, <2>1 DEF RowIsHeld, Held, Submitting, Mine, rowVars
  <2>5. ResultIsKnown(h)'
    BY <2>1 DEF ResultIsKnown
  <2>6. label \in BeforeItsDecision => UndecidedYet(Mine(h))
    BY <1>3, <2>3 DEF RowInv, BeforeItsDecision
  <2>7. parked[Mine(h)] # 0 => parked[Mine(h)] \in StepsOf(Mine(h)) /\ Decided(parked[Mine(h)])
    BY <2>3 DEF RowInv
  <2>8. CallInv(h)'
    BY <1>0, <1>1, <1>3, <2>2, <2>4, <2>5, <2>6, <2>7, CallStillFine DEF Becomes
  <2> QED
    BY <1>0, <1>1, <2>1, <2>2, <2>8, QuietReads DEF Moved, Mine
<1> QED
  BY <1>0, <1>2, <1>3, FindMoves

LEMMA MovesQuietly ==
  ASSUME RequestsInv, NEW h \in Handlers, Typed',
         UNCHANGED <<rowVars, steps, approval, ran>>,
         NEW label, NEW seen, NEW step, NEW result,
         Goes(h, label, seen, step, result),
         call[h].at # "idle", call[h].at \notin AtItsStep, label # "idle", label \notin AtItsStep,
         \/ step = call[h].step
         \/ step # 0 => step \in StepsOf(Mine(h)) /\ Decided(step),
         \A g \in Handlers : g # h => (g \in inside' <=> g \in inside),
         label \in UnderTheLease <=> h \in inside',
         RowIsHeld(h)', ResultIsKnown(h)',
         ~call'[h].reconciles /\ label \in BeforeItsDecision => UndecidedYet(Mine(h))
  PROVE  RequestsInv'
<1>1. CallInv(h)'
  BY CallStillFine DEF Becomes
<1>2. call'[h].at = label /\ call'[h].request = call[h].request
      /\ \A g \in Handlers : g # h => call'[g] = call[g]
  BY DEF Goes, Mine
<1> QED
  BY <1>1, <1>2, QuietReads DEF Moved

\* What is common to the steps that only move the call of h.
LEMMA ReadsOf ==
  ASSUME RequestsInv, NEW h \in Handlers,
         NEW label, NEW seen, NEW step, NEW result,
         Goes(h, label, seen, step, result)
  PROVE  /\ call'[h].at = label /\ call'[h].seen = seen /\ call'[h].request = Mine(h)
         /\ Mine(h)' = Mine(h) /\ Mine(h) \in Requests
         /\ call'[h].step = step /\ call'[h].result = result
         /\ CallInv(h) /\ TypeOK /\ call[h].reconciles \in BOOLEAN
  BY DEF Goes, RequestsInv, Typed, TypeOK, Mine

LEMMA SearchKeeps ==
  ASSUME OwnTools, RequestsInv, NEW h \in Handlers, Typed', Search(h) PROVE RequestsInv'
<1>0. /\ TypeOK /\ CallInv(h)
      /\ UNCHANGED <<rowVars, steps, approval, ran, inside>> /\ call[h].at = "searching"
  BY SearchMoves DEF RequestsInv, Typed, runtimeVars, leaseVars
<1>1. /\ call[h].at # "idle" /\ call[h].at \notin AtItsStep /\ h \notin inside
      /\ Mine(h) \in Requests /\ status[Mine(h)] = call[h].seen
  BY <1>0 DEF AtItsStep, CallInv, UnderTheLease, RowIsHeld, Held, Submitting, TypeOK, Mine
<1>2. CASE Return(h)
  BY <1>0, <1>1, <1>2, ReturnsQuietly
<1>3. CASE /\ ~call[h].reconciles
           /\ \A i \in DOMAIN steps : ~Matches(i, Mine(h))
           /\ Becomes(h, "marking", call[h].seen, call[h].step, call[h].result)
  <2>1. UndecidedYet(Mine(h))
    BY <1>3 DEF UndecidedYet, StepsOf, Matches, Decided
  <2>2. call[h].seen \in {"RECEIVED", "PROCESSING"}
    BY <1>0, <1>3 DEF CallInv, RowIsHeld
  <2>3. RowIsHeld(h)' /\ ResultIsKnown(h)'
    BY <1>0, <1>1, <1>3, <2>2, ReadsOf DEF Becomes, RowIsHeld, ResultIsKnown, Held, Submitting, rowVars
  <2> QED
    BY <1>0, <1>1, <1>3, <2>1, <2>3, MovesQuietly DEF Becomes, AtItsStep, UnderTheLease, BeforeItsDecision
<1>4. ASSUME NEW i \in DOMAIN steps, Matches(i, Mine(h)),
             Becomes(h, "syncing", call[h].seen, i, steps[i].status)
      PROVE  RequestsInv'
  <2>1. i \in StepsOf(Mine(h)) /\ Decided(i) /\ i # 0
    BY <1>0, <1>1, <1>4, StepRow DEF OwnTools, Matches, StepsOf, Decided
  <2>2. RowIsHeld(h)'
    BY <1>0, <1>1, <1>4, ReadsOf DEF Becomes, CallInv, RowIsHeld, Held, Submitting, Reconciling, rowVars
  <2>3. ResultIsKnown(h)'
    BY <1>0, <1>4, <2>1, ReadsOf DEF Becomes, ResultIsKnown
  <2> QED
    BY <1>0, <1>1, <1>4, <2>1, <2>2, <2>3, MovesQuietly DEF Becomes, AtItsStep, UnderTheLease, BeforeItsDecision
<1> QED
  BY <1>0, <1>2, <1>3, <1>4, SearchMoves

LEMMA EnterKeeps ==
  ASSUME RequestsInv, NEW h \in Handlers, Typed', Enter(h) PROVE RequestsInv'
<1>0. /\ TypeOK /\ CallInv(h)
      /\ UNCHANGED <<rowVars, steps, approval, ran, inside>> /\ call[h].at = "entering"
  BY EnterMoves DEF RequestsInv, Typed, runtimeVars, leaseVars
<1>1. /\ call[h].at # "idle" /\ call[h].at \notin AtItsStep /\ h \notin inside
      /\ ~call[h].reconciles => UndecidedYet(Mine(h))
  BY <1>0 DEF AtItsStep, CallInv, UnderTheLease, Fresh, BeforeItsDecision
<1>2. CASE Return(h)
  BY <1>0, <1>1, <1>2, ReturnsQuietly
<1>3. CASE Becomes(h, "claiming", call[h].seen, call[h].step, call[h].result)
  <2>1. RowIsHeld(h)' /\ ResultIsKnown(h)'
    BY <1>0, <1>3, ReadsOf DEF Becomes, CallInv, RowIsHeld, ResultIsKnown, Held, Submitting, Reconciling, rowVars
  <2> QED
    BY <1>0, <1>1, <1>3, <2>1, MovesQuietly DEF Becomes, AtItsStep, UnderTheLease, BeforeItsDecision
<1>4. CASE /\ call[h].reconciles
           /\ Becomes(h, "searching", call[h].seen, call[h].step, call[h].result)
  <2>1. RowIsHeld(h)' /\ ResultIsKnown(h)'
    BY <1>0, <1>4, ReadsOf
    DEF Becomes, CallInv, RowIsHeld, ResultIsKnown, Held, Submitting, Reconciling, rowVars
  <2> QED
    BY <1>0, <1>1, <1>4, <2>1, MovesQuietly DEF Becomes, AtItsStep, UnderTheLease, BeforeItsDecision
<1> QED
  BY <1>0, <1>2, <1>3, <1>4, EnterMoves

LEMMA ClaimKeeps ==
  ASSUME RequestsInv, NEW h \in Handlers, Typed', Claim(h) \/ Conflict(h) PROVE RequestsInv'
<1>0. /\ TypeOK /\ CallInv(h)
      /\ UNCHANGED <<rowVars, steps, approval, ran>> /\ call[h].at = "claiming"
  BY ClaimMoves, ConflictMoves DEF RequestsInv, Typed, runtimeVars
<1>1. /\ call[h].at # "idle" /\ call[h].at \notin AtItsStep /\ h \notin inside
      /\ ~call[h].reconciles => UndecidedYet(Mine(h))
  BY <1>0 DEF AtItsStep, CallInv, UnderTheLease, Fresh, BeforeItsDecision
<1>2. CASE Claim(h)
  <2>0. /\ Becomes(h, "claimed", call[h].seen, call[h].step, call[h].result)
        /\ inside' = inside \cup {h}
    BY <1>0, <1>2, ClaimMoves
  <2>1. RowIsHeld(h)' /\ ResultIsKnown(h)'
    BY <1>0, <2>0, ReadsOf DEF Becomes, CallInv, RowIsHeld, ResultIsKnown, Held, Submitting, Reconciling, rowVars
  <2> QED
    BY <1>0, <1>1, <2>0, <2>1, MovesQuietly DEF Becomes, AtItsStep, UnderTheLease, BeforeItsDecision
<1>3. CASE Conflict(h)
  <2>0. inside' = inside
    BY <1>0, <1>3, ConflictMoves DEF leaseVars
  <2>1. CASE Return(h)
    BY <1>0, <1>1, <2>0, <2>1, ReturnsQuietly
  <2>2. CASE /\ call[h].reconciles
             /\ Becomes(h, "rereading", call[h].seen, call[h].step, call[h].result)
    <3>1. RowIsHeld(h)' /\ ResultIsKnown(h)'
      BY <1>0, <2>2, ReadsOf DEF Becomes, CallInv, RowIsHeld, ResultIsKnown, Held, Submitting, Reconciling, rowVars
    <3> QED
      BY <1>0, <1>1, <2>0, <2>2, <3>1, MovesQuietly DEF Becomes, AtItsStep, UnderTheLease, BeforeItsDecision
  <2> QED
    BY <1>0, <1>3, <2>1, <2>2, ConflictMoves
<1> QED
  BY <1>2, <1>3

LEMMA ExceedKeeps ==
  ASSUME RequestsInv, NEW h \in Handlers, Typed', Exceed(h) PROVE RequestsInv'
<1>0. /\ TypeOK /\ CallInv(h) /\ ~call[h].reconciles
      /\ UNCHANGED <<rowVars, steps, approval, ran, inside>> /\ call[h].at = "claimed"
      /\ Becomes(h, "leaving", call[h].seen, call[h].step, "FAILED")
  BY ExceedMoves DEF RequestsInv, Typed, leaseVars
<1>1. call[h].at # "idle" /\ call[h].at \notin AtItsStep /\ h \in inside
  BY <1>0 DEF AtItsStep, CallInv, UnderTheLease
<1>2. RowIsHeld(h)' /\ ResultIsKnown(h)'
  BY <1>0, ReadsOf DEF Becomes, CallInv, RowIsHeld, ResultIsKnown, Held, Submitting, rowVars
<1> QED
  BY <1>0, <1>1, <1>2, MovesQuietly DEF Becomes, AtItsStep, UnderTheLease, BeforeItsDecision

LEMMA LeaveKeeps ==
  ASSUME RequestsInv, NEW h \in Handlers, Typed', Leave(h) PROVE RequestsInv'
<1>0. /\ TypeOK /\ CallInv(h) /\ inside' = inside \ {h}
      /\ UNCHANGED <<rowVars, steps, approval, ran>> /\ call[h].at = "leaving"
  BY LeaveMoves DEF RequestsInv, Typed, runtimeVars
<1>1. call[h].at # "idle" /\ call[h].at \notin AtItsStep
  BY <1>0 DEF AtItsStep
<1>2. CASE /\ call[h].reconciles
           /\ Becomes(h, "rereading", call[h].seen, call[h].step, call[h].result)
  <2>1. RowIsHeld(h)' /\ ResultIsKnown(h)'
    BY <1>0, <1>2, ReadsOf DEF Becomes, CallInv, RowIsHeld, ResultIsKnown, Held, Submitting, Reconciling, rowVars
  <2> QED
    BY <1>0, <1>1, <1>2, <2>1, MovesQuietly DEF Becomes, AtItsStep, UnderTheLease, BeforeItsDecision
<1>3. CASE /\ ~call[h].reconciles
           /\ Becomes(h, "applying", call[h].seen, call[h].step, call[h].result)
  <2>1. RowIsHeld(h)' /\ ResultIsKnown(h)'
    BY <1>0, <1>3, ReadsOf DEF Becomes, CallInv, RowIsHeld, ResultIsKnown, Held, Submitting, rowVars
  <2> QED
    BY <1>0, <1>1, <1>3, <2>1, MovesQuietly DEF Becomes, AtItsStep, UnderTheLease, BeforeItsDecision
<1> QED
  BY <1>0, <1>2, <1>3, LeaveMoves

LEMMA CheckKeeps ==
  ASSUME RequestsInv, NEW h \in Handlers, Typed', Check(h) PROVE RequestsInv'
<1>0. /\ TypeOK /\ CallInv(h)
      /\ UNCHANGED <<rowVars, steps, approval, ran, inside>> /\ call[h].at = "checking"
  BY CheckMoves DEF RequestsInv, Typed, runtimeVars, leaseVars
<1>1. call[h].at # "idle" /\ call[h].at \notin AtItsStep /\ h \notin inside /\ ~call[h].reconciles
  BY <1>0 DEF AtItsStep, CallInv, UnderTheLease, RowIsHeld, Reconciling
<1>2. CASE Return(h)
  BY <1>0, <1>1, <1>2, ReturnsQuietly
<1>3. CASE Goes(h, "entering", call[h].seen, call[h].step, call[h].result) /\ call'[h].reconciles
  <2>1. RowIsHeld(h)' /\ ResultIsKnown(h)'
    BY <1>0, <1>1, <1>3, ReadsOf DEF Becomes, CallInv, RowIsHeld, ResultIsKnown, Held, Submitting, Reconciling, rowVars
  <2> QED
    BY <1>0, <1>1, <1>3, <2>1, MovesQuietly DEF Becomes, AtItsStep, UnderTheLease, BeforeItsDecision
<1> QED
  BY <1>0, <1>2, <1>3, CheckMoves

LEMMA RereadKeeps ==
  ASSUME RequestsInv, NEW h \in Handlers, Typed', Reread(h) PROVE RequestsInv'
<1>0. /\ TypeOK /\ CallInv(h)
      /\ UNCHANGED <<rowVars, steps, approval, ran, inside>> /\ call[h].at = "rereading"
      /\ Becomes(h, "searching", status[Mine(h)], call[h].step, call[h].result)
  BY RereadMoves DEF RequestsInv, Typed, runtimeVars, leaseVars
<1>1. /\ call[h].at # "idle" /\ call[h].at \notin AtItsStep /\ h \notin inside /\ call[h].reconciles
      /\ status[Mine(h)] = "WAITING_APPROVAL"
  BY <1>0 DEF AtItsStep, CallInv, UnderTheLease, RowIsHeld, Held
<1>2. RowIsHeld(h)' /\ ResultIsKnown(h)'
  BY <1>0, <1>1, ReadsOf DEF Becomes, CallInv, RowIsHeld, ResultIsKnown, Held, Submitting, Reconciling, rowVars
<1> QED
  BY <1>0, <1>1, <1>2, MovesQuietly DEF Becomes, AtItsStep, UnderTheLease, BeforeItsDecision

-----------------------------------------------------------------------------
(* The steps that write the row of the request                               *)

LEMMA RowOf ==
  ASSUME TypeOK, NEW h \in Handlers, NEW value, SetStatus(Mine(h), value)
  PROVE  /\ Mine(h) \in Requests
         /\ status'[Mine(h)] = value
         /\ \A q \in Requests : q # Mine(h) => status'[q] = status[q]
  BY DEF TypeOK, Mine, SetStatus

LEMMA InsertKeeps ==
  ASSUME RequestsInv, NEW h \in Handlers, Typed', Insert(h) PROVE RequestsInv'
<1>0. /\ TypeOK /\ CallInv(h) /\ RowInv(Mine(h)) /\ Mine(h) \in Requests
      /\ UNCHANGED <<parked, steps, approval, ran, inside>> /\ call[h].at = "inserting"
  BY InsertMoves DEF RequestsInv, Typed, TypeOK, Mine, runtimeVars, leaseVars
<1>1. /\ call[h].at # "idle" /\ call[h].at \notin AtItsStep /\ h \notin inside
      /\ ~call[h].reconciles /\ status[Mine(h)] = "NONE" /\ UndecidedYet(Mine(h))
  BY <1>0 DEF AtItsStep, CallInv, UnderTheLease, RowIsHeld, Held, Submitting, Reconciling, RowInv
<1>2. /\ SetStatus(Mine(h), "RECEIVED")
      /\ Becomes(h, "marking", "RECEIVED", call[h].step, call[h].result)
  BY <1>0, <1>1, InsertMoves
<1>3. /\ status'[Mine(h)] = "RECEIVED"
      /\ \A q \in Requests : q # Mine(h) => status'[q] = status[q]
  BY <1>0, <1>2, RowOf
<1>4. /\ call'[h].at = "marking" /\ call'[h].seen = "RECEIVED" /\ Mine(h)' = Mine(h)
      /\ call'[h].reconciles = call[h].reconciles /\ call'[h].request = call[h].request
      /\ \A g \in Handlers : g # h => call'[g] = call[g]
  BY <1>2 DEF Becomes, Goes, Mine
<1>5. RowIsHeld(h)' /\ ResultIsKnown(h)'
  BY <1>1, <1>3, <1>4 DEF RowIsHeld, ResultIsKnown, Held, Submitting
<1>6. CallInv(h)'
  BY <1>0, <1>1, <1>2, <1>5, CallStillFine DEF Becomes, AtItsStep, UnderTheLease
<1>7. \A q \in Requests : q = Mine(h) => RowInv(q)'
  BY <1>0, <1>3 DEF RowInv, StepsOf, Decided
<1>8. Quiet(h) /\ Moved(h) /\ call'[h].at \notin AtItsStep
  BY <1>0, <1>1, <1>3, <1>4 DEF Quiet, Moved, AtItsStep
<1> QED
  BY <1>1, <1>6, <1>7, <1>8, <1>4, StillOneCall, QuietStep

LEMMA MarkKeeps ==
  ASSUME RequestsInv, NEW h \in Handlers, Typed', Mark(h) PROVE RequestsInv'
<1>0. /\ TypeOK /\ CallInv(h) /\ RowInv(Mine(h)) /\ Mine(h) \in Requests
      /\ UNCHANGED <<parked, steps, approval, ran, inside>> /\ call[h].at = "marking"
      /\ Becomes(h, "entering", call[h].seen, call[h].step, call[h].result)
  BY MarkMoves DEF RequestsInv, Typed, TypeOK, Mine, runtimeVars, leaseVars
<1>1. /\ call[h].at # "idle" /\ call[h].at \notin AtItsStep /\ h \notin inside
      /\ ~call[h].reconciles /\ status[Mine(h)] = call[h].seen /\ UndecidedYet(Mine(h))
  BY <1>0
  DEF AtItsStep, CallInv, UnderTheLease, RowIsHeld, Held, Submitting, Reconciling, Fresh, BeforeItsDecision
<1>3. /\ status'[Mine(h)] = "PROCESSING"
      /\ \A q \in Requests : q # Mine(h) => status'[q] = status[q]
  BY <1>0, <1>1, RowOf, MarkMoves
<1>4. /\ call'[h].at = "entering" /\ Mine(h)' = Mine(h)
      /\ call'[h].reconciles = call[h].reconciles /\ call'[h].request = call[h].request
      /\ \A g \in Handlers : g # h => call'[g] = call[g]
  BY <1>0 DEF Becomes, Goes, Mine
<1>5. RowIsHeld(h)' /\ ResultIsKnown(h)'
  BY <1>1, <1>3, <1>4 DEF RowIsHeld, ResultIsKnown, Held, Submitting
<1>6. CallInv(h)'
  BY <1>0, <1>1, <1>5, CallStillFine DEF Becomes, AtItsStep, UnderTheLease
<1>7. \A q \in Requests : q = Mine(h) => RowInv(q)'
  BY <1>0, <1>3 DEF RowInv, StepsOf, Decided
<1>8. Quiet(h) /\ Moved(h) /\ call'[h].at \notin AtItsStep
  BY <1>0, <1>1, <1>3, <1>4 DEF Quiet, Moved, AtItsStep
<1> QED
  BY <1>1, <1>6, <1>7, <1>8, <1>4, StillOneCall, QuietStep

\* The outcome that a row gets is its step's.
LEMMA OutcomeWritten ==
  ASSUME RequestsInv, NEW h \in Handlers, Typed', Return(h),
         call[h].at \in {"syncing", "applying"},
         UNCHANGED <<steps, approval, ran, inside>>,
         status'[Mine(h)] = StatusOf(call[h].result),
         \A q \in Requests : q # Mine(h) => status'[q] = status[q],
         parked' = IF call[h].result = "WAITING_APPROVAL"
                   THEN [parked EXCEPT ![Mine(h)] = call[h].step] ELSE parked
  PROVE  RequestsInv'
<1> DEFINE i == call[h].step
<1>0. /\ TypeOK /\ CallInv(h) /\ RowInv(Mine(h)) /\ Mine(h) \in Requests
  BY DEF RequestsInv, Typed, TypeOK, Mine
<1>1. /\ call[h].at # "idle" /\ call[h].at \notin AtItsStep /\ h \notin inside
      /\ call[h].result \in {"COMPLETED", "WAITING_APPROVAL", "BLOCKED", "FAILED"}
  BY <1>0 DEF AtItsStep, CallInv, UnderTheLease, TypeOK, StepStatuses
<1>2. /\ call[h].result # "FAILED" => i \in StepsOf(Mine(h)) /\ Decided(i)
      /\ call[h].result \in {"COMPLETED", "BLOCKED"} => steps[i].status = call[h].result
  BY <1>0, <1>1 DEF CallInv, ResultIsKnown, StepIsKnown, RowIsHeld, Reconciling
<1>3. parked'[Mine(h)] = (IF call[h].result = "WAITING_APPROVAL" THEN i ELSE parked[Mine(h)])
      /\ \A q \in Requests : q # Mine(h) => parked'[q] = parked[q]
  BY <1>0 DEF TypeOK
<1>4. parked'[Mine(h)] # 0 => parked'[Mine(h)] \in StepsOf(Mine(h)) /\ Decided(parked'[Mine(h)])
  BY <1>0, <1>2, <1>3 DEF RowInv
<1>5. status'[Mine(h)] = "EXECUTED" => ran[Mine(h)] > 0
  <2>1. call[h].result = "COMPLETED" => ran[Mine(h)] > 0
    BY <1>2 DEF RequestsInv, StepsInv, StepInv, StepsOf
  <2> QED
    BY <1>1, <2>1 DEF StatusOf
<1>6. status'[Mine(h)] = "BLOCKED" => \E j \in StepsOf(Mine(h)) : steps[j].status = "BLOCKED"
  BY <1>1, <1>2 DEF StatusOf
<1>7. status'[Mine(h)] # "NONE"
  BY <1>1 DEF StatusOf
<1>8. \A q \in Requests : q = Mine(h) => RowInv(q)'
  BY <1>4, <1>5, <1>6, <1>7 DEF RowInv, StepsOf, Decided
<1>9. call'[h] = NoCall /\ call'[h].at = "idle" /\ \A g \in Handlers : g # h => call'[g] = call[g]
  BY <1>0, Returns, NoCallType
<1>10. CallInv(h)'
  BY <1>1, <1>9, IdleIsFine
<1>11. Quiet(h) /\ Moved(h) /\ call'[h].at \notin AtItsStep
  BY <1>3, <1>9 DEF Quiet, Moved, AtItsStep
<1> QED
  BY <1>1, <1>8, <1>9, <1>10, <1>11, StillOneCall, QuietStep

LEMMA SyncKeeps ==
  ASSUME RequestsInv, NEW h \in Handlers, Typed', Sync(h) PROVE RequestsInv'
<1>0. TypeOK /\ CallInv(h) /\ call[h].at = "syncing" /\ Mine(h) \in Requests
      /\ UNCHANGED <<steps, approval, ran, inside>>
  BY SyncMoves DEF RequestsInv, Typed, TypeOK, Mine, runtimeVars, leaseVars
<1>1. status[Mine(h)] = call[h].seen
  BY <1>0 DEF CallInv, RowIsHeld, Held, Submitting
<1>2. /\ status'[Mine(h)] = StatusOf(call[h].result)
      /\ \A q \in Requests : q # Mine(h) => status'[q] = status[q]
  BY <1>0, <1>1, RowOf, SyncMoves
<1> QED
  BY <1>0, <1>2, SyncMoves, OutcomeWritten

LEMMA ApplyKeeps ==
  ASSUME RequestsInv, NEW h \in Handlers, Typed', Apply(h) PROVE RequestsInv'
<1>0. TypeOK /\ call[h].at = "applying" /\ UNCHANGED <<steps, approval, ran, inside>>
  BY ApplyMoves DEF RequestsInv, Typed, runtimeVars, leaseVars
<1>1. /\ status'[Mine(h)] = StatusOf(call[h].result)
      /\ \A q \in Requests : q # Mine(h) => status'[q] = status[q]
  BY <1>0, RowOf, ApplyMoves
<1> QED
  BY <1>0, <1>1, ApplyMoves, OutcomeWritten

-----------------------------------------------------------------------------
(* The steps under the lease                                                 *)

\* A step of h that may touch its own request's steps and runs.
LEMMA ApartStep ==
  ASSUME RequestsInv, NEW h \in Handlers, Apart(h), Typed', StepsInv',
         call[h].at # "idle", Moved(h), CallInv(h)',
         \A q \in Requests : q = Mine(h) => RowInv(q)' /\ Ledger(q)',
         \A g \in Handlers : g # h /\ call[g].at \in AtItsStep =>
                                steps'[call[g].step] = steps[call[g].step],
         \A q \in Requests : q # Mine(h) => ran'[q] = ran[q],
         \A i \in DOMAIN steps : steps[i].request # Mine(h) => approval'[i] = approval[i],
         \A q \in Requests : q # Mine(h) /\ Orphaned(q) => Orphaned(q)'
  PROVE  RequestsInv'
<1>1. OneCallEach'
  BY StillOneCall DEF Apart
<1>2. ASSUME NEW g \in Handlers PROVE CallInv(g)'
  <2>1. CASE g = h
    BY <2>1
  <2>2. CASE g # h
    BY <2>2, StepOthersHold, OtherCall
  <2> QED
    BY <2>1, <2>2
<1>3. ASSUME NEW q \in Requests PROVE RowInv(q)'
  BY OtherRequest
<1>4. ASSUME NEW q \in Requests, q # Mine(h) PROVE Ledger(q)'
  <2>1. Ledger(q)
    BY DEF RequestsInv
  <2>2. ASSUME NEW i \in StepsOf(q), HasRun(i) PROVE i \in StepsOf(q)' /\ HasRun(i)'
    <3>1. i \in DOMAIN steps /\ steps[i].request = q /\ approval'[i] = approval[i]
      BY <1>4 DEF StepsOf
    <3>2. i \in StepsOf(q)'
      BY <3>1 DEF Apart, Advance, StepsOf
    <3>3. steps[i].status \in {"COMPLETED", "FAILED"} => steps'[i].status \in {"COMPLETED", "FAILED"}
      BY <3>1 DEF Apart, Advance
    <3>4. ASSUME NEW g \in Handlers, call[g].at = "closing", call[g].step = i
          PROVE  call'[g] = call[g]
      <4>1. g # h
        BY <1>4, <3>1, <3>4 DEF RequestsInv, CallInv, StepIsKnown, StepsOf, AtItsStep
      <4> QED
        BY <4>1 DEF Apart
    <3> QED
      BY <2>2, <3>1, <3>2, <3>3, <3>4 DEF HasRun
  <2> QED
    BY <1>4, <2>1, <2>2, LedgerStays
<1> QED
  BY <1>1, <1>2, <1>3, <1>4 DEF RequestsInv

\* What h holds under the lease is its own request's.
LEMMA OwnStep ==
  ASSUME RequestsInv, NEW h \in Handlers, call[h].at \in AtItsStep
  PROVE  /\ TypeOK /\ CallInv(h) /\ RowInv(Mine(h)) /\ Ledger(Mine(h)) /\ Mine(h) \in Requests
         /\ call[h].at # "idle" /\ h \in inside /\ ~call[h].reconciles
         /\ call[h].step \in DOMAIN steps /\ call[h].step # 0
         /\ steps[call[h].step] = [request |-> Mine(h), status |-> "PENDING"]
         /\ steps[call[h].step].status = "PENDING"
         /\ UndecidedYet(Mine(h)) /\ status[Mine(h)] = "PROCESSING"
         /\ \A g \in Handlers : g # h => call[g].at = "idle" \/ Mine(g) # Mine(h)
         /\ \A g \in Handlers : g # h => call[g].step # call[h].step
<1>1. TypeOK /\ CallInv(h) /\ RowInv(Mine(h)) /\ Ledger(Mine(h)) /\ Mine(h) \in Requests
  BY DEF RequestsInv, Typed, TypeOK, Mine
<1>2. call[h].at # "idle" /\ h \in inside
  BY <1>1 DEF AtItsStep, CallInv, UnderTheLease
<1>3. ~call[h].reconciles /\ call[h].step # 0
  BY <1>1 DEF CallInv, StepIsKnown
<1>4. call[h].step \in StepsOf(Mine(h)) /\ ~Decided(call[h].step)
  BY <1>1, <1>3 DEF CallInv, StepIsKnown
<1>5. steps[call[h].step] = [request |-> Mine(h), status |-> "PENDING"]
  BY <1>1, <1>4, StepRow DEF StepsOf, Decided, StepRows
<1>6. UndecidedYet(Mine(h))
  BY <1>1, <1>3 DEF CallInv, Fresh, AtItsStep, BeforeItsDecision
<1>7. status[Mine(h)] = "PROCESSING"
  BY <1>1, <1>3 DEF CallInv, RowIsHeld, Held, AtItsStep, Submitting
<1>8. \A g \in Handlers : g # h => call[g].at = "idle" \/ Mine(g) # Mine(h)
  BY <1>2, StepOthersHold
<1>9. ASSUME NEW g \in Handlers, g # h, call[g].step = call[h].step PROVE FALSE
  <2>1. CallInv(g)
    BY DEF RequestsInv
  <2>2. call[g].step \in StepsOf(Mine(g)) /\ call[g].at \in AtItsStep
    BY <1>3, <1>4, <1>9, <2>1 DEF CallInv, StepIsKnown
  <2> QED
    BY <1>4, <1>8, <1>9, <2>2 DEF StepsOf, AtItsStep
<1> QED
  BY <1>1, <1>2, <1>3, <1>4, <1>5, <1>6, <1>7, <1>8, <1>9 DEF StepsOf, Decided

LEMMA SubmitKeeps ==
  ASSUME RequestsInv, NEW h \in Handlers, Typed', Submit(h) PROVE RequestsInv'
<1>0. /\ TypeOK /\ CallInv(h) /\ RowInv(Mine(h)) /\ Ledger(Mine(h)) /\ Mine(h) \in Requests
      /\ UNCHANGED <<rowVars, status, parked, approval, ran>> /\ call[h].at = "claimed"
      /\ ~call[h].reconciles
  BY SubmitMoves DEF RequestsInv, Typed, TypeOK, Mine, rowVars
<1>1. /\ call[h].at # "idle" /\ call[h].at \notin AtItsStep /\ h \in inside
      /\ UndecidedYet(Mine(h)) /\ status[Mine(h)] = "PROCESSING"
  BY <1>0
  DEF AtItsStep, CallInv, UnderTheLease, RowIsHeld, Held, Submitting, Fresh, BeforeItsDecision
<1>2. CASE Return(h) /\ UNCHANGED steps /\ inside' = inside \ {h}
  BY <1>0, <1>1, <1>2, ReturnsQuietly
<1>3. CASE Appends(h) /\ Becomes(h, "running", call[h].seen, Len(steps) + 1, call[h].result)
  <2>0. PICK n : n = Len(steps) + 1
    OBVIOUS
  <2>1. /\ DOMAIN steps' = DOMAIN steps \cup {n} /\ n \notin DOMAIN steps /\ n \in 1 .. MaxSteps
        /\ steps'[n] = [request |-> Mine(h), status |-> "PENDING"]
        /\ \A j \in DOMAIN steps : steps'[j] = steps[j]
    BY <1>0, <1>3, <2>0, AppendedStep
  <2>2. /\ call'[h].at = "running" /\ call'[h].step = n /\ Mine(h)' = Mine(h)
        /\ call'[h].reconciles = call[h].reconciles /\ call'[h].request = call[h].request
        /\ \A g \in Handlers : g # h => call'[g] = call[g]
    BY <1>3, <2>0 DEF Becomes, Goes, Mine
  <2>3. inside' = inside
    BY <1>3 DEF Appends, leaseVars
  <2>4. n # 0
    BY <2>1
  <2>5. approval[n] = "NONE"
    BY <2>1 DEF RequestsInv, StepsInv
  <2>6. Apart(h)
    BY <1>0, <2>1, <2>2, <2>3 DEF Apart, Advance, Decided
  <2>7. StepsInv'
    <3>1. DecidedOnce'
      BY <2>1 DEF RequestsInv, StepsInv, DecidedOnce, Decided
    <3>2. \A i \in 1 .. MaxSteps : approval'[i] # "NONE" => i \in DOMAIN steps'
      BY <1>0, <2>1 DEF RequestsInv, StepsInv
    <3>3. \A i \in DOMAIN steps : StepInv(i)'
      BY <1>0, <2>1 DEF RequestsInv, StepsInv, StepInv
    <3>4. StepInv(n)'
      BY <1>0, <2>1, <2>5 DEF StepInv
    <3> QED
      BY <2>1, <3>1, <3>2, <3>3, <3>4 DEF StepsInv
  <2>8. UndecidedYet(Mine(h))'
    BY <1>1, <2>1, <2>2 DEF UndecidedYet, StepsOf, Decided
  <2>9. CallInv(h)'
    <3>1. RowIsHeld(h)'
      BY <1>0, <1>1, <2>2 DEF RowIsHeld, Held, Submitting
    <3>2. StepIsKnown(h)'
      BY <1>0, <2>1, <2>2, <2>4, <2>5 DEF StepIsKnown, StepsOf, Decided, AtItsStep
    <3>3. ResultIsKnown(h)' /\ Fresh(h)'
      BY <2>2, <2>8 DEF ResultIsKnown, Fresh
    <3> QED
      BY <1>1, <2>2, <2>3, <3>1, <3>2, <3>3 DEF CallInv, UnderTheLease
  <2>10. ASSUME NEW q \in Requests, Orphaned(q) PROVE Orphaned(q)'
    BY <2>1, <2>2, <2>3, <2>10, OrphansStay
  <2>11. ASSUME NEW q \in Requests, q = Mine(h) PROVE RowInv(q)' /\ Ledger(q)'
    <3>1. RowInv(q)'
      BY <1>0, <1>1, <2>1, <2>11 DEF RowInv, StepsOf, Decided
    <3>2. \A i \in StepsOf(q) : HasRun(i) => i \in StepsOf(q)' /\ HasRun(i)'
      BY <1>0, <2>1, <2>2 DEF HasRun, StepsOf
    <3> QED
      BY <1>0, <2>10, <2>11, <3>1, <3>2, LedgerStays
  <2>12. \A g \in Handlers : g # h /\ call[g].at \in AtItsStep =>
                                steps'[call[g].step] = steps[call[g].step]
    BY <2>1, OwnStep
  <2> QED
    BY <1>0, <1>1, <2>2, <2>6, <2>7, <2>9, <2>10, <2>11, <2>12, ApartStep DEF Moved
<1> QED
  BY <1>0, <1>2, <1>3, SubmitMoves

\* Where the submission is at its step, the tool has not run for its request.
LEMMA NotRunYet ==
  ASSUME RequestsInv, NEW h \in Handlers, call[h].at = "running", ~Orphaned(Mine(h))
  PROVE  ran[Mine(h)] = 0
<1> SUFFICES ASSUME ran[Mine(h)] # 0 PROVE FALSE
  OBVIOUS
<1>0. call[h].at \in AtItsStep
  BY DEF AtItsStep
<1>1. /\ Mine(h) \in Requests /\ Ledger(Mine(h)) /\ ran[Mine(h)] \in 0 .. 2
      /\ steps[call[h].step].status = "PENDING"
      /\ call[h].step \in StepsOf(Mine(h)) /\ approval[call[h].step] = "NONE"
  <2>1. /\ TypeOK /\ CallInv(h) /\ Mine(h) \in Requests /\ Ledger(Mine(h)) /\ call[h].step # 0
        /\ steps[call[h].step] = [request |-> Mine(h), status |-> "PENDING"]
    BY <1>0, OwnStep
  <2>2. ran[Mine(h)] \in 0 .. 2
    BY <2>1 DEF TypeOK
  <2> QED
    BY <2>1, <2>2 DEF CallInv, StepIsKnown
<1>2. PICK i \in StepsOf(Mine(h)) : HasRun(i)
  BY <1>1 DEF Ledger
<1>3. i = call[h].step
  BY <1>1, <1>2, OneStepEach
<1>4. PICK g \in Handlers : call[g].at = "closing" /\ call[g].step = i
  BY <1>1, <1>2, <1>3 DEF HasRun
<1>5. g = h
  BY <1>0, <1>3, <1>4, OwnStep
<1> QED
  BY <1>4, <1>5

LEMMA RunToolKeeps ==
  ASSUME RequestsInv, NEW h \in Handlers, Typed', RunTool(h) PROVE RequestsInv'
<1>0. PICK result \in StepStatuses \ {"PENDING"} :
         /\ Becomes(h, "closing", call[h].seen, call[h].step, result)
         /\ UNCHANGED ran \/ (result \in {"COMPLETED", "FAILED"} /\ Once(Mine(h)))
         /\ result = "COMPLETED" => Once(Mine(h))
         /\ IF result = "WAITING_APPROVAL"
            THEN /\ execution' = "WAITING_APPROVAL"
                 /\ approval' = [approval EXCEPT ![call[h].step] = "PENDING"]
            ELSE UNCHANGED <<execution, approval>>
  BY RunToolMoves DEF RequestsInv, Typed
<1>1. /\ UNCHANGED <<status, parked, steps, inside>> /\ call[h].at = "running"
      /\ call[h].at \in AtItsStep
  BY RunToolMoves DEF RequestsInv, Typed, AtItsStep, rowVars, leaseVars
<1>2. PICK n : n = call[h].step
  OBVIOUS
<1>3. /\ TypeOK /\ CallInv(h) /\ RowInv(Mine(h)) /\ Ledger(Mine(h)) /\ Mine(h) \in Requests
      /\ call[h].at # "idle" /\ h \in inside /\ ~call[h].reconciles
      /\ n \in DOMAIN steps /\ n # 0 /\ n \in 1 .. MaxSteps
      /\ steps[n] = [request |-> Mine(h), status |-> "PENDING"]
      /\ UndecidedYet(Mine(h)) /\ status[Mine(h)] = "PROCESSING" /\ approval[n] = "NONE"
  BY <1>1, <1>2, OwnStep, StepRow DEF CallInv, StepIsKnown
<1>4. /\ call'[h].at = "closing" /\ call'[h].step = n /\ Mine(h)' = Mine(h)
      /\ call'[h].result = result
      /\ call'[h].reconciles = call[h].reconciles /\ call'[h].request = call[h].request
      /\ \A g \in Handlers : g # h => call'[g] = call[g]
  BY <1>0, <1>2 DEF Becomes, Goes, Mine
<1>5. /\ \A q \in Requests : q # Mine(h) => ran'[q] = ran[q]
      /\ ran[Mine(h)] > 0 => ran'[Mine(h)] > 0
      /\ result = "COMPLETED" => ran'[Mine(h)] > 0
      /\ ran'[Mine(h)] <= ran[Mine(h)] + 1
      /\ result \notin {"COMPLETED", "FAILED"} => ran' = ran
  <2>1. ran \in [Requests -> 0 .. 2] /\ ran[Mine(h)] \in 0 .. 2
    BY <1>3 DEF TypeOK
  <2>2. CASE UNCHANGED ran /\ result # "COMPLETED"
    BY <2>1, <2>2
  <2>3. CASE result \in {"COMPLETED", "FAILED"} /\ Once(Mine(h))
    BY <1>3, <2>1, <2>3, OnceCounts
  <2> QED
    BY <1>0, <2>2, <2>3
<1>6. /\ \A i \in 1 .. MaxSteps : i # n => approval'[i] = approval[i]
      /\ result = "WAITING_APPROVAL" => approval'[n] = "PENDING"
      /\ result # "WAITING_APPROVAL" => approval'[n] = "NONE"
  BY <1>0, <1>2, <1>3 DEF TypeOK
<1>7. DOMAIN steps \subseteq 1 .. MaxSteps
  BY <1>3, StepRow
<1>8. Apart(h)
  <2>1. \A i \in DOMAIN steps :
           steps[i].request # Mine(h) /\ approval[i] = "NONE" => approval'[i] = "NONE"
    BY <1>3, <1>6, <1>7
  <2>2. Advance(h)
    BY <1>1 DEF Advance, Decided
  <2> QED
    BY <1>1, <1>4, <1>5, <2>1, <2>2 DEF Apart
<1>9. StepsInv'
  <2>1. DecidedOnce'
    BY <1>1 DEF RequestsInv, StepsInv, DecidedOnce, Decided
  <2>2. \A i \in 1 .. MaxSteps : approval'[i] # "NONE" => i \in DOMAIN steps'
    BY <1>1, <1>3, <1>6 DEF RequestsInv, StepsInv
  <2>3. ASSUME NEW i \in DOMAIN steps PROVE StepInv(i)'
    <3>1. StepInv(i) /\ steps[i].request \in Requests
      BY StepRow DEF RequestsInv, Typed, StepsInv, StepRows
    <3>2. ran[steps[i].request] > 0 => ran'[steps[i].request] > 0
      BY <1>5, <3>1
    <3> QED
      BY <1>1, <1>3, <1>6, <1>7, <3>1, <3>2 DEF StepInv
  <2> QED
    BY <1>1, <2>1, <2>2, <2>3 DEF StepsInv
<1>10. CallInv(h)'
  <2>1. RowIsHeld(h)'
    BY <1>1, <1>3, <1>4 DEF RowIsHeld, Held, Submitting
  <2>2. StepIsKnown(h)'
    BY <1>1, <1>3, <1>4, <1>5, <1>6 DEF StepIsKnown, StepsOf, Decided, AtItsStep
  <2>3. ResultIsKnown(h)'
    BY <1>4 DEF ResultIsKnown
  <2>4. Fresh(h)'
    BY <1>1, <1>3, <1>4 DEF Fresh, UndecidedYet, StepsOf, Decided
  <2> QED
    BY <1>1, <1>3, <1>4, <2>1, <2>2, <2>3, <2>4 DEF CallInv, UnderTheLease
<1>11. ASSUME NEW q \in Requests, Orphaned(q) PROVE Orphaned(q)'
  <2>1. \A g \in Handlers : call'[g].step = call[g].step
    BY <1>2, <1>4
  <2> QED
    BY <1>1, <1>11, <2>1 DEF Orphaned
<1>12. RowInv(Mine(h))'
  BY <1>1, <1>3, <1>4, <1>5 DEF RowInv, StepsOf, Decided, Mine
<1>13. Ledger(Mine(h))'
  <2>1. CASE Orphaned(Mine(h))
    BY <1>3, <1>4, <1>11, <2>1 DEF Ledger, Mine
  <2>2. CASE ~Orphaned(Mine(h))
    <3>1. ran[Mine(h)] = 0
      BY <1>1, <2>2, NotRunYet
    <3>2. n \in StepsOf(Mine(h))'
      BY <1>1, <1>3, <1>4 DEF StepsOf
    <3>3. ran'[Mine(h)] > 0 => result \in {"COMPLETED", "FAILED"}
      BY <1>5, <3>1
    <3>4. result \in {"COMPLETED", "FAILED"} => HasRun(n)'
      BY <1>3, <1>4, <1>6 DEF HasRun
    <3>5. ran'[Mine(h)] <= 1
      BY <1>5, <3>1
    <3> QED
      BY <1>4, <3>2, <3>3, <3>4, <3>5 DEF Ledger
  <2> QED
    BY <2>1, <2>2
<1>14. \A q \in Requests : q = Mine(h) => RowInv(q)' /\ Ledger(q)'
  BY <1>4, <1>12, <1>13
<1>15. \A i \in DOMAIN steps : steps[i].request # Mine(h) => approval'[i] = approval[i]
  BY <1>3, <1>6, <1>7
<1> QED
  BY <1>1, <1>3, <1>4, <1>5, <1>8, <1>9, <1>10, <1>11, <1>14, <1>15, ApartStep DEF Moved

LEMMA CloseKeeps ==
  ASSUME RequestsInv, NEW h \in Handlers, Typed', Close(h) PROVE RequestsInv'
<1>0. /\ UNCHANGED <<status, parked, approval, inside, ran>> /\ call[h].at = "closing"
      /\ call[h].at \in AtItsStep
      /\ Finalize(call[h].step, call[h].result)
      /\ Becomes(h, "leaving", call[h].seen, call[h].step, call[h].result)
  BY CloseMoves DEF RequestsInv, Typed, AtItsStep, rowVars, leaseVars
<1>1. PICK n, result : n = call[h].step /\ result = call[h].result
  OBVIOUS
<1>2. /\ TypeOK /\ CallInv(h) /\ RowInv(Mine(h)) /\ Ledger(Mine(h)) /\ Mine(h) \in Requests
      /\ call[h].at # "idle" /\ h \in inside /\ ~call[h].reconciles
      /\ n \in DOMAIN steps /\ n # 0
      /\ steps[n] = [request |-> Mine(h), status |-> "PENDING"]
      /\ UndecidedYet(Mine(h)) /\ status[Mine(h)] = "PROCESSING"
      /\ \A g \in Handlers : g # h => call[g].step # n
  BY <1>0, <1>1, OwnStep
<1>3. /\ result \in StepStatuses \ {"PENDING"}
      /\ result # "WAITING_APPROVAL" => approval[n] = "NONE"
      /\ result = "COMPLETED" => ran[Mine(h)] > 0
  <2>1. result \in StepStatuses \ {"PENDING"}
    BY <1>1, <1>2 DEF TypeOK
  <2> QED
    BY <1>0, <1>1, <1>2, <2>1 DEF CallInv, StepIsKnown
<1>4. /\ call'[h].at = "leaving" /\ call'[h].step = n /\ Mine(h)' = Mine(h)
      /\ call'[h].result = result
      /\ call'[h].reconciles = call[h].reconciles /\ call'[h].request = call[h].request
      /\ \A g \in Handlers : g # h => call'[g] = call[g]
  BY <1>0, <1>1 DEF Becomes, Goes, Mine
<1>5. /\ DOMAIN steps' = DOMAIN steps
      /\ steps'[n] = [request |-> Mine(h), status |-> result]
      /\ \A j \in DOMAIN steps : j # n => steps'[j] = steps[j]
  BY <1>0, <1>1, <1>2, <1>3, FinalizeSteps
<1>6. Apart(h)
  <2>1. Advance(h)
    BY <1>2, <1>5 DEF Advance, Decided
  <2> QED
    BY <1>0, <1>4, <2>1 DEF Apart
<1>7. StepsInv'
  <2>1. \A j \in DOMAIN steps : j # n /\ steps[j].request = Mine(h) => steps'[j].status = "PENDING"
    BY <1>2, <1>5 DEF UndecidedYet, StepsOf, Decided
  <2>2. DecidedOnce'
    BY <1>2, <1>5, <2>1 DEF RequestsInv, StepsInv, DecidedOnce, Decided
  <2>3. \A i \in 1 .. MaxSteps : approval'[i] # "NONE" => i \in DOMAIN steps'
    BY <1>0, <1>5 DEF RequestsInv, StepsInv
  <2>4. ASSUME NEW i \in DOMAIN steps PROVE StepInv(i)'
    <3>1. StepInv(i)
      BY DEF RequestsInv, StepsInv
    <3>2. CASE i = n
      BY <1>0, <1>2, <1>3, <1>5, <3>1, <3>2 DEF StepInv
    <3>3. CASE i # n
      BY <1>0, <1>5, <3>1, <3>3 DEF StepInv
    <3> QED
      BY <3>2, <3>3
  <2> QED
    BY <1>5, <2>2, <2>3, <2>4 DEF StepsInv
<1>8. CallInv(h)'
  <2>1. RowIsHeld(h)'
    BY <1>0, <1>2, <1>4 DEF RowIsHeld, Held, Submitting
  <2>2. StepIsKnown(h)'
    BY <1>2, <1>3, <1>4, <1>5 DEF StepIsKnown, StepsOf, Decided, AtItsStep
  <2>3. ResultIsKnown(h)'
    BY <1>2, <1>4, <1>5 DEF ResultIsKnown
  <2>4. Fresh(h)'
    BY <1>4 DEF Fresh, BeforeItsDecision
  <2> QED
    BY <1>0, <1>2, <1>4, <2>1, <2>2, <2>3, <2>4 DEF CallInv, UnderTheLease
<1>9. ASSUME NEW q \in Requests, Orphaned(q) PROVE Orphaned(q)'
  <2>1. \A g \in Handlers : call'[g].step = call[g].step
    BY <1>1, <1>4
  <2> QED
    BY <1>0, <1>1, <1>2, <1>5, <1>9, <2>1, OrphansStay
<1>10. RowInv(Mine(h))'
  BY <1>0, <1>2, <1>3, <1>4, <1>5 DEF RowInv, StepsOf, Decided, Mine
<1>11. Ledger(Mine(h))'
  <2>1. ASSUME NEW i \in StepsOf(Mine(h)), HasRun(i) PROVE i \in StepsOf(Mine(h))' /\ HasRun(i)'
    <3>1. i \in DOMAIN steps /\ steps[i].request = Mine(h)
      BY DEF StepsOf
    <3>2. i \in StepsOf(Mine(h))'
      BY <1>2, <1>4, <1>5, <3>1 DEF StepsOf
    <3>0. approval' = approval
      BY <1>0
    <3>3. CASE approval[i] \in {"EXECUTED", "FAILED"}
      BY <3>0, <3>2, <3>3 DEF HasRun
    <3>4. CASE approval[i] = "NONE" /\ steps[i].status \in {"COMPLETED", "FAILED"}
      <4>1. i # n
        BY <1>2, <3>4
      <4> QED
        BY <1>5, <3>0, <3>1, <3>2, <3>4, <4>1 DEF HasRun
    <3>5. ASSUME NEW g \in Handlers, approval[i] = "NONE", call[g].at = "closing", call[g].step = i,
                 call[g].result \in {"COMPLETED", "FAILED"}
          PROVE  HasRun(i)'
      <4>1. CASE g = h
        BY <1>0, <1>1, <1>5, <3>5, <4>1 DEF HasRun
      <4>2. CASE g # h
        BY <1>0, <1>4, <3>5, <4>2 DEF HasRun
      <4> QED
        BY <4>1, <4>2
    <3> QED
      BY <2>1, <3>2, <3>3, <3>4, <3>5 DEF HasRun
  <2>2. \A i \in StepsOf(Mine(h)) : HasRun(i) => i \in StepsOf(Mine(h))' /\ HasRun(i)'
    BY <2>1
  <2>3. ASSUME NEW q \in Requests, q = Mine(h) PROVE Ledger(q)'
    BY <1>0, <1>2, <1>4, <1>9, <2>2, <2>3, LedgerStays DEF StepsOf
  <2> QED
    BY <1>2, <1>4, <2>3
<1>12. \A q \in Requests : q = Mine(h) => RowInv(q)' /\ Ledger(q)'
  BY <1>4, <1>10, <1>11
<1>13. \A g \in Handlers : g # h /\ call[g].at \in AtItsStep =>
                              steps'[call[g].step] = steps[call[g].step]
  BY <1>2, <1>5, OwnStep
<1> QED
  BY <1>0, <1>2, <1>4, <1>6, <1>7, <1>8, <1>9, <1>12, <1>13, ApartStep DEF Moved

\* A step that waited is closed, whoever's it is: it was decided before.
LEMMA ReconcileKeeps ==
  ASSUME RequestsInv, NEW h \in Handlers, Typed', Reconcile(h) PROVE RequestsInv'
<1>0. /\ TypeOK /\ CallInv(h) /\ RowInv(Mine(h)) /\ Mine(h) \in Requests
      /\ UNCHANGED <<rowVars, status, parked, approval, inside, ran>> /\ call[h].at = "claimed"
      /\ call[h].reconciles
      /\ Becomes(h, "leaving", call[h].seen, call[h].step, call[h].result)
  BY ReconcileMoves DEF RequestsInv, Typed, TypeOK, Mine, rowVars, leaseVars
<1>1. /\ call[h].at # "idle" /\ call[h].at \notin AtItsStep /\ h \in inside
      /\ status[Mine(h)] = "WAITING_APPROVAL" /\ call[h].seen = "WAITING_APPROVAL"
  BY <1>0 DEF AtItsStep, CallInv, UnderTheLease, RowIsHeld, Held
<1>2. /\ call'[h].at = "leaving" /\ call'[h].step = call[h].step /\ Mine(h)' = Mine(h)
      /\ call'[h].seen = "WAITING_APPROVAL"
      /\ call'[h].reconciles = call[h].reconciles /\ call'[h].request = call[h].request
      /\ \A g \in Handlers : g # h => call'[g] = call[g]
  BY <1>0, <1>1 DEF Becomes, Goes, Mine
<1>3. RowIsHeld(h)' /\ ResultIsKnown(h)'
  BY <1>0, <1>1, <1>2 DEF RowIsHeld, ResultIsKnown, Held, Reconciling
<1>4. CASE UNCHANGED <<steps, execution>>
  BY <1>0, <1>1, <1>2, <1>3, <1>4, MovesQuietly DEF Becomes, AtItsStep, UnderTheLease, BeforeItsDecision
<1>5. ASSUME NEW n \in DOMAIN steps, NEW result \in {"COMPLETED", "FAILED", "BLOCKED"},
             steps[n].status = "WAITING_APPROVAL",
             result = "COMPLETED" => approval[n] = "EXECUTED",
             result = "BLOCKED" => approval[n] = "REJECTED",
             Finalize(n, result)
      PROVE  RequestsInv'
  <2>1. /\ DOMAIN steps' = DOMAIN steps
        /\ steps'[n] = [request |-> steps[n].request, status |-> result]
        /\ \A j \in DOMAIN steps : j # n => steps'[j] = steps[j]
    <3>1. result \in StepStatuses
      BY DEF StepStatuses
    <3> QED
      BY <1>0, <1>5, <3>1, FinalizeSteps
  <2>2. Decided(n) /\ \A i \in DOMAIN steps : steps'[i].request = steps[i].request
                                              /\ (steps'[i].status # "PENDING" <=> Decided(i))
    BY <1>5, <2>1 DEF Decided
  <2>3. Apart(h)
    <3>1. Advance(h)
      BY <1>5, <2>1, <2>2 DEF Advance
    <3> QED
      BY <1>0, <1>2, <3>1 DEF Apart
  <2>4. StepsInv'
    <3>1. DecidedOnce'
      BY <2>1, <2>2 DEF RequestsInv, StepsInv, DecidedOnce, Decided
    <3>2. \A i \in 1 .. MaxSteps : approval'[i] # "NONE" => i \in DOMAIN steps'
      BY <1>0, <2>1 DEF RequestsInv, StepsInv
    <3>3. ASSUME NEW i \in DOMAIN steps PROVE StepInv(i)'
      <4>1. StepInv(i)
        BY DEF RequestsInv, StepsInv
      <4>2. CASE i = n
        BY <1>0, <1>5, <2>1, <4>1, <4>2 DEF StepInv
      <4>3. CASE i # n
        BY <1>0, <2>1, <4>1, <4>3 DEF StepInv
      <4> QED
        BY <4>2, <4>3
    <3> QED
      BY <2>1, <3>1, <3>2, <3>3 DEF StepsInv
  <2>5. CallInv(h)'
    <3>1. StepIsKnown(h)
      BY <1>0 DEF CallInv
    <3>2. call[h].step # 0 => call[h].step \in DOMAIN steps /\ steps[call[h].step].request = Mine(h)
                              /\ Decided(call[h].step)
      BY <1>1, <3>1 DEF StepIsKnown, StepsOf
    <3>3. call[h].step # 0 => call[h].step \in StepsOf(Mine(h))' /\ steps'[call[h].step].status # "PENDING"
      BY <1>2, <2>1, <2>2, <3>2 DEF StepsOf
    <3>4. StepIsKnown(h)'
      BY <1>2, <3>3 DEF StepIsKnown, Decided, AtItsStep
    <3>5. Fresh(h)'
      BY <1>0, <1>2 DEF Fresh
    <3> QED
      BY <1>0, <1>1, <1>2, <1>3, <3>4, <3>5 DEF CallInv, UnderTheLease
  <2>6. ASSUME NEW q \in Requests, Orphaned(q) PROVE Orphaned(q)'
    <3>1. \A g \in Handlers : call'[g].step = call[g].step
      BY <1>2
    <3> QED
      BY <1>0, <2>1, <2>2, <2>6, <3>1, OrphansStay
  <2>7. RowInv(Mine(h))'
    <3>1. \A i \in StepsOf(Mine(h)) : i \in StepsOf(Mine(h))' /\ (Decided(i) => steps'[i].status # "PENDING")
      BY <1>2, <2>1, <2>2 DEF StepsOf
    <3> QED
      BY <1>0, <1>1, <1>2, <3>1 DEF RowInv, Decided, Mine
  <2>8. Ledger(Mine(h))'
    <3>1. ASSUME NEW i \in StepsOf(Mine(h)), HasRun(i) PROVE i \in StepsOf(Mine(h))' /\ HasRun(i)'
      <4>1. i \in DOMAIN steps /\ steps[i].request = Mine(h) /\ approval' = approval
        BY <1>0 DEF StepsOf
      <4>2. i \in StepsOf(Mine(h))'
        BY <1>2, <2>1, <2>2, <4>1 DEF StepsOf
      <4>3. steps[i].status \in {"COMPLETED", "FAILED"} => steps'[i].status \in {"COMPLETED", "FAILED"}
        BY <1>5, <2>1, <4>1
      <4>4. \A g \in Handlers : call[g].at = "closing" => call'[g] = call[g]
        BY <1>0, <1>2
      <4> QED
        BY <3>1, <4>1, <4>2, <4>3, <4>4 DEF HasRun
    <3>2. \A i \in StepsOf(Mine(h)) : HasRun(i) => i \in StepsOf(Mine(h))' /\ HasRun(i)'
      BY <3>1
    <3>3. ASSUME NEW q \in Requests, q = Mine(h) PROVE Ledger(q)'
      <4>1. Ledger(q)
        BY DEF RequestsInv
      <4> QED
        BY <1>0, <1>2, <2>6, <3>2, <3>3, <4>1, LedgerStays DEF StepsOf
    <3> QED
      BY <1>0, <1>2, <3>3
  <2>9. \A q \in Requests : q = Mine(h) => RowInv(q)' /\ Ledger(q)'
    BY <1>2, <2>7, <2>8
  <2>10. \A g \in Handlers : g # h /\ call[g].at \in AtItsStep =>
                                steps'[call[g].step] = steps[call[g].step]
    <3>1. \A g \in Handlers : call[g].at \in AtItsStep => /\ call[g].step \in DOMAIN steps
                                                          /\ steps[call[g].step].status = "PENDING"
      BY OwnStep
    <3> QED
      BY <1>5, <2>1, <3>1
  <2> QED
    BY <1>0, <1>1, <1>2, <2>3, <2>4, <2>5, <2>6, <2>9, <2>10, ApartStep DEF Moved
<1> QED
  BY <1>0, <1>4, <1>5, ReconcileStep

\* A handler that dies at its step leaves it orphaned.
LEMMA DieKeeps ==
  ASSUME RequestsInv, NEW h \in Handlers, Typed', Die(h) PROVE RequestsInv'
<1>0. /\ TypeOK /\ CallInv(h) /\ call[h].at # "idle" /\ Return(h)
      /\ UNCHANGED <<rowVars, status, parked, steps, approval, ran>> /\ inside' = inside \ {h}
  BY DieMoves DEF RequestsInv, Typed, rowVars, runtimeVars, Die, At
<1>1. CASE call[h].at \notin AtItsStep
  BY <1>0, <1>1, ReturnsQuietly
<1>2. CASE call[h].at \in AtItsStep
  <2>0. PICK n, q : n = call[h].step /\ q = Mine(h)
    OBVIOUS
  <2>1. /\ q \in Requests /\ n \in DOMAIN steps /\ RowInv(q)
        /\ steps[n] = [request |-> q, status |-> "PENDING"]
        /\ \A g \in Handlers : g # h => call[g].step # n
    BY <1>2, <2>0, OwnStep
  <2>2. call'[h] = NoCall /\ call'[h].at = "idle" /\ \A g \in Handlers : g # h => call'[g] = call[g]
    BY <1>0, Returns, NoCallType
  <2>3. CallInv(h)'
    BY <1>0, <2>2, IdleIsFine
  <2>4. Apart(h)
    BY <1>0, <2>2 DEF Apart, Advance, Decided
  <2>5. StepsInv'
    BY <1>0 DEF RequestsInv, StepsInv, DecidedOnce, StepInv, Decided
  <2>6. Orphaned(q)'
    BY <1>0, <2>1, <2>2 DEF Orphaned
  <2>7. RowInv(q)'
    BY <1>0, <2>1, RowStillFine
  <2>8. Ledger(q)'
    BY <2>6 DEF Ledger
  <2>9. ASSUME NEW p \in Requests, Orphaned(p) PROVE Orphaned(p)'
    <3>1. PICK i \in DOMAIN steps :
             /\ steps[i] = [request |-> p, status |-> "PENDING"]
             /\ \A g \in Handlers : ~(g \in inside /\ call[g].step = i)
      BY <2>9 DEF Orphaned
    <3>2. \A g \in Handlers : ~(g \in inside' /\ call'[g].step = i)
      BY <1>0, <2>2, <3>1
    <3> QED
      BY <1>0, <3>1, <3>2 DEF Orphaned
  <2>10. \A p \in Requests : p = Mine(h) => RowInv(p)' /\ Ledger(p)'
    BY <2>0, <2>7, <2>8
  <2>11. Moved(h)
    BY <2>2 DEF Moved
  <2>12. steps' = steps /\ approval' = approval /\ ran' = ran
    BY <1>0
  <2> QED
    BY <1>0, <2>3, <2>4, <2>5, <2>9, <2>10, <2>11, <2>12, ApartStep
<1> QED
  BY <1>1, <1>2

-----------------------------------------------------------------------------
(* Arrivals, and the steps of other sessions                                 *)

LEMMA ArriveKeeps ==
  ASSUME Patient, RequestsInv, NEW h \in Handlers, Typed', Arrive(h) PROVE RequestsInv'
<1>0. /\ TypeOK /\ call[h].at = "idle" /\ UNCHANGED <<status, parked, steps, approval, inside, ran>>
      /\ \A g \in Handlers : g # h => call'[g] = call[g]
  BY ArriveMoves DEF RequestsInv, Typed, rowVars, runtimeVars, leaseVars
<1>1. PICK q \in Requests, submits \in BOOLEAN :
         /\ call'[h] = CallFor(q, "finding", submits)
         /\ Patient => \A g \in Handlers : call[g].at = "idle" \/ Mine(g) # q
  BY <1>0, ArriveMoves
<1>2. call'[h].at = "finding" /\ call'[h].step = 0 /\ ~call'[h].reconciles /\ call'[h].request = q
  BY <1>1 DEF CallFor
<1>3. h \notin inside
  BY <1>0 DEF RequestsInv, CallInv, UnderTheLease
<1>4. OneCallEach'
  BY <1>0, <1>1, <1>2 DEF RequestsInv, OneCallEach, Mine
<1>5. StepsInv'
  BY <1>0 DEF RequestsInv, StepsInv, DecidedOnce, StepInv, Decided
<1>6. CallInv(h)'
  BY <1>0, <1>2, <1>3
  DEF CallInv, RowIsHeld, StepIsKnown, ResultIsKnown, Fresh, AtItsStep, UnderTheLease, BeforeItsDecision
<1>7. ASSUME NEW g \in Handlers, g # h PROVE CallInv(g)'
  <2>1. CallInv(g) /\ call'[g] = call[g]
    BY <1>0, <1>7 DEF RequestsInv
  <2> QED
    BY <1>0, <2>1
    DEF CallInv, RowIsHeld, Held, StepIsKnown, ResultIsKnown, Fresh, UndecidedYet, StepsOf, Decided, Mine
<1>8. ASSUME NEW p \in Requests PROVE RowInv(p)'
  BY <1>0, RowStillFine DEF rowVars
<1>9. ASSUME NEW p \in Requests, Orphaned(p) PROVE Orphaned(p)'
  <2>1. PICK i \in DOMAIN steps :
           /\ steps[i] = [request |-> p, status |-> "PENDING"]
           /\ \A g \in Handlers : ~(g \in inside /\ call[g].step = i)
    BY <1>9 DEF Orphaned
  <2>2. \A g \in Handlers : ~(g \in inside' /\ call'[g].step = i)
    BY <1>0, <1>3, <2>1
  <2> QED
    BY <1>0, <2>1, <2>2 DEF Orphaned
<1>10. ASSUME NEW p \in Requests PROVE Ledger(p)'
  <2>1. Ledger(p) /\ ran'[p] = ran[p]
    BY <1>0 DEF RequestsInv
  <2>2. \A g \in Handlers : call[g].at = "closing" => call'[g] = call[g]
    BY <1>0
  <2>3. \A i \in StepsOf(p) : HasRun(i) => i \in StepsOf(p)' /\ HasRun(i)'
    BY <1>0, <2>2 DEF HasRun, StepsOf
  <2> QED
    BY <1>9, <2>1, <2>3, LedgerStays
<1>11. \A g \in Handlers : CallInv(g)'
  BY <1>6, <1>7
<1> QED
  BY <1>4, <1>5, <1>8, <1>10, <1>11 DEF RequestsInv

\* The steps of others touch approvals and runs only.
LEMMA OthersLeave ==
  ASSUME RequestsInv, UNCHANGED <<rowVars, steps, call, inside>>,
         \A q \in Requests : ran[q] > 0 => ran'[q] > 0,
         \A i \in DOMAIN steps : approval[i] = "NONE" => approval'[i] = "NONE"
  PROVE  /\ OneCallEach'
         /\ \A h \in Handlers : CallInv(h)'
         /\ \A q \in Requests : RowInv(q)' /\ (Orphaned(q) => Orphaned(q)')
<1>0. status' = status /\ parked' = parked /\ steps' = steps /\ call' = call /\ inside' = inside
  BY DEF rowVars
<1>1. OneCallEach'
  BY <1>0 DEF RequestsInv, OneCallEach, Mine
<1>2. ASSUME NEW h \in Handlers PROVE CallInv(h)'
  <2>1. CallInv(h) /\ Mine(h) \in Requests /\ Mine(h)' = Mine(h)
    BY <1>0 DEF RequestsInv, Typed, TypeOK, Mine
  <2>2. RowIsHeld(h)' /\ ResultIsKnown(h)' /\ Fresh(h)'
    BY <1>0, <2>1 DEF CallInv, RowIsHeld, Held, ResultIsKnown, Fresh, UndecidedYet, StepsOf, Decided
  <2>3. ran[Mine(h)] > 0 => ran'[Mine(h)] > 0
    BY <2>1
  <2>4. call[h].step # 0 => call[h].step \in DOMAIN steps
    BY <2>1 DEF CallInv, StepIsKnown, StepsOf
  <2>5. call[h].at \in AtItsStep /\ approval[call[h].step] = "NONE" => approval'[call[h].step] = "NONE"
    BY <2>1, <2>4 DEF CallInv, StepIsKnown
  <2>6. StepIsKnown(h)'
    BY <1>0, <2>1, <2>3, <2>5 DEF CallInv, StepIsKnown, StepsOf, Decided, AtItsStep
  <2> QED
    BY <1>0, <2>1, <2>2, <2>6 DEF CallInv
<1>3. ASSUME NEW q \in Requests PROVE RowInv(q)' /\ (Orphaned(q) => Orphaned(q)')
  <2>1. RowInv(q)'
    BY <1>0 DEF RequestsInv, RowInv, UndecidedYet, StepsOf, Decided
  <2>2. Orphaned(q) => Orphaned(q)'
    BY <1>0 DEF Orphaned
  <2> QED
    BY <2>1, <2>2
<1> QED
  BY <1>1, <1>2, <1>3

LEMMA AnswerKeeps ==
  ASSUME RequestsInv, NEW n \in 1 .. MaxSteps, Typed', Answer(n) PROVE RequestsInv'
<1>0. /\ approval[n] = "PENDING" /\ UNCHANGED <<rowVars, steps, call, inside, ran>>
      /\ approval \in [1 .. MaxSteps -> Approvals]
  BY DEF Answer, leaseVars, RequestsInv, Typed, TypeOK
<1>1. /\ approval'[n] \in {"APPROVED", "REJECTED"}
      /\ \A i \in 1 .. MaxSteps : i # n => approval'[i] = approval[i]
  BY <1>0 DEF Answer
<1>2. DOMAIN steps \subseteq 1 .. MaxSteps
  BY StepRow DEF RequestsInv, Typed
<1>3. /\ OneCallEach'
      /\ \A h \in Handlers : CallInv(h)'
      /\ \A q \in Requests : RowInv(q)' /\ (Orphaned(q) => Orphaned(q)')
  BY <1>0, <1>1, <1>2, OthersLeave
<1>4. StepsInv'
  <2>1. \A i \in DOMAIN steps : StepInv(i)'
    BY <1>0, <1>1, <1>2 DEF RequestsInv, StepsInv, StepInv
  <2>2. DecidedOnce'
    BY <1>0 DEF RequestsInv, StepsInv, DecidedOnce, Decided
  <2>3. \A i \in 1 .. MaxSteps : approval'[i] # "NONE" => i \in DOMAIN steps'
    BY <1>0, <1>1 DEF RequestsInv, StepsInv
  <2> QED
    BY <1>0, <2>1, <2>2, <2>3 DEF StepsInv
<1>5. ASSUME NEW q \in Requests PROVE Ledger(q)'
  <2>1. Ledger(q) /\ ran'[q] = ran[q]
    BY <1>0 DEF RequestsInv
  <2>2. \A i \in StepsOf(q) : HasRun(i) => i \in StepsOf(q)' /\ HasRun(i)'
    BY <1>0, <1>1, <1>2 DEF HasRun, StepsOf
  <2> QED
    BY <1>3, <2>1, <2>2, LedgerStays
<1> QED
  BY <1>3, <1>4, <1>5 DEF RequestsInv

\* An approval that is only approved has not run its tool.
LEMMA RunApprovedKeeps ==
  ASSUME RequestsInv, NEW n \in 1 .. MaxSteps, Typed', RunApproved(n) PROVE RequestsInv'
<1>0. /\ approval[n] = "APPROVED" /\ UNCHANGED <<rowVars, steps, call, inside>>
      /\ approval \in [1 .. MaxSteps -> Approvals] /\ ran \in [Requests -> 0 .. 2]
  BY DEF RunApproved, leaseVars, RequestsInv, Typed, TypeOK
<1>1. /\ n \in DOMAIN steps /\ DOMAIN steps \subseteq 1 .. MaxSteps
      /\ steps[n].request \in Requests /\ StepInv(n)
  BY <1>0, StepRow DEF RequestsInv, Typed, StepsInv, StepRows
<1>2. PICK p \in Requests : p = steps[n].request
  BY <1>1
<1>3. /\ approval'[n] \in {"EXECUTED", "FAILED"}
      /\ \A i \in 1 .. MaxSteps : i # n => approval'[i] = approval[i]
      /\ Once(p) \/ (approval'[n] = "FAILED" /\ UNCHANGED ran)
  BY <1>0, <1>2 DEF RunApproved
<1>4. /\ \A q \in Requests : q # p => ran'[q] = ran[q]
      /\ ran[p] > 0 => ran'[p] > 0
      /\ approval'[n] = "EXECUTED" => ran'[p] > 0
      /\ ran'[p] <= ran[p] + 1
  <2>1. CASE Once(p)
    BY <1>0, <2>1, OnceCounts
  <2>2. CASE approval'[n] = "FAILED" /\ UNCHANGED ran
    <3>1. ran[p] \in 0 .. 2
      BY <1>0
    <3> QED
      BY <2>2, <3>1
  <2> QED
    BY <1>3, <2>1, <2>2
<1>5. /\ OneCallEach'
      /\ \A h \in Handlers : CallInv(h)'
      /\ \A q \in Requests : RowInv(q)' /\ (Orphaned(q) => Orphaned(q)')
  <2>1. \A q \in Requests : ran[q] > 0 => ran'[q] > 0
    BY <1>4
  <2>2. \A i \in DOMAIN steps : approval[i] = "NONE" => approval'[i] = "NONE"
    BY <1>0, <1>1, <1>3
  <2> QED
    BY <1>0, <2>1, <2>2, OthersLeave
<1>6. StepsInv'
  <2>1. ASSUME NEW i \in DOMAIN steps PROVE StepInv(i)'
    <3>1. StepInv(i) /\ steps[i].request \in Requests
      BY StepRow DEF RequestsInv, Typed, StepsInv, StepRows
    <3>2. ran[steps[i].request] > 0 => ran'[steps[i].request] > 0
      BY <1>4, <3>1
    <3>3. CASE i = n
      BY <1>0, <1>2, <1>3, <1>4, <3>1, <3>2, <3>3 DEF StepInv
    <3>4. CASE i # n
      BY <1>0, <1>1, <1>3, <3>1, <3>2, <3>4 DEF StepInv
    <3> QED
      BY <3>3, <3>4
  <2>2. DecidedOnce'
    BY <1>0 DEF RequestsInv, StepsInv, DecidedOnce, Decided
  <2>3. \A i \in 1 .. MaxSteps : approval'[i] # "NONE" => i \in DOMAIN steps'
    BY <1>0, <1>1, <1>3 DEF RequestsInv, StepsInv
  <2> QED
    BY <1>0, <2>1, <2>2, <2>3 DEF StepsInv
<1>7. ASSUME NEW q \in Requests, q # p PROVE Ledger(q)'
  <2>1. Ledger(q) /\ ran'[q] = ran[q]
    BY <1>4, <1>7 DEF RequestsInv
  <2>2. \A i \in StepsOf(q) : i \in DOMAIN steps /\ approval'[i] = approval[i]
    BY <1>1, <1>2, <1>3, <1>7 DEF StepsOf
  <2>3. \A i \in StepsOf(q) : HasRun(i) => i \in StepsOf(q)' /\ HasRun(i)'
    BY <1>0, <2>2 DEF HasRun, StepsOf
  <2> QED
    BY <1>5, <2>1, <2>3, LedgerStays
<1>8. Ledger(p)'
  <2>1. CASE Orphaned(p)
    BY <1>5, <2>1 DEF Ledger
  <2>2. CASE ~Orphaned(p)
    <3>1. n \in StepsOf(p) /\ n \in StepsOf(p)'
      BY <1>0, <1>1, <1>2 DEF StepsOf
    <3>2. ~HasRun(n)
      BY <1>0 DEF HasRun
    <3>3. ran[p] = 0
      <4>1. Ledger(p) /\ ran[p] \in 0 .. 2
        BY <1>0 DEF RequestsInv
      <4>2. \A i \in StepsOf(p) : i = n
        BY <2>2, <3>1, OneStepEach
      <4> QED
        BY <2>2, <3>2, <4>1, <4>2 DEF Ledger
    <3>4. HasRun(n)' /\ ran'[p] <= 1
      BY <1>3, <1>4, <3>3 DEF HasRun
    <3> QED
      BY <3>1, <3>4 DEF Ledger
  <2> QED
    BY <2>1, <2>2
<1>9. \A q \in Requests : Ledger(q)'
  BY <1>7, <1>8
<1> QED
  BY <1>5, <1>6, <1>9 DEF RequestsInv

LEMMA SameKeeps ==
  ASSUME RequestsInv, UNCHANGED <<rowVars, steps, approval, inside, call, ran>>, Typed'
  PROVE  RequestsInv'
<1>0. steps' = steps /\ approval' = approval /\ call' = call /\ ran' = ran
  OBVIOUS
<1>1. /\ OneCallEach'
      /\ \A h \in Handlers : CallInv(h)'
      /\ \A q \in Requests : RowInv(q)' /\ (Orphaned(q) => Orphaned(q)')
  BY <1>0, OthersLeave
<1>2. StepsInv'
  BY <1>0 DEF RequestsInv, StepsInv, DecidedOnce, StepInv, Decided
<1>3. ASSUME NEW q \in Requests PROVE Ledger(q)'
  <2>1. Ledger(q)
    BY DEF RequestsInv
  <2>2. \A i \in StepsOf(q) : HasRun(i) => i \in StepsOf(q)' /\ HasRun(i)'
    BY <1>0 DEF HasRun, StepsOf
  <2> QED
    BY <1>0, <1>1, <2>1, <2>2, LedgerStays
<1> QED
  BY <1>1, <1>2, <1>3 DEF RequestsInv

LEMMA HandleKeeps ==
  ASSUME OwnTools, RequestsInv, NEW h \in Handlers, Typed', Handle(h) PROVE RequestsInv'
<1>1. CASE Find(h) \/ Insert(h) \/ Search(h) \/ Sync(h) \/ Mark(h) \/ Enter(h)
  BY <1>1, FindKeeps, InsertKeeps, SearchKeeps, SyncKeeps, MarkKeeps, EnterKeeps
<1>2. CASE Claim(h) \/ Conflict(h) \/ Submit(h) \/ Exceed(h) \/ RunTool(h) \/ Close(h)
  BY <1>2, ClaimKeeps, SubmitKeeps, ExceedKeeps, RunToolKeeps, CloseKeeps
<1>3. CASE Reconcile(h) \/ Leave(h) \/ Apply(h) \/ Check(h) \/ Reread(h)
  BY <1>3, ReconcileKeeps, LeaveKeeps, ApplyKeeps, CheckKeeps, RereadKeeps
<1> QED
  BY <1>1, <1>2, <1>3 DEF Handle

LEMMA RequestsStep ==
  ASSUME Patient, OwnTools PROVE RequestsInv /\ [Next]_vars => RequestsInv'
<1> SUFFICES ASSUME RequestsInv, [Next]_vars PROVE RequestsInv'
  OBVIOUS
<1>0. Typed'
  BY TypedStep DEF RequestsInv
<1>1. ASSUME NEW h \in Handlers, Arrive(h) \/ Handle(h) \/ Die(h) PROVE RequestsInv'
  BY <1>0, <1>1, ArriveKeeps, HandleKeeps, DieKeeps
<1>2. ASSUME NEW i \in 1 .. MaxSteps, Answer(i) \/ RunApproved(i) PROVE RequestsInv'
  BY <1>0, <1>2, AnswerKeeps, RunApprovedKeeps
<1>3. CASE Reopen \/ Cancel
  <2>1. UNCHANGED <<rowVars, steps, approval, inside, call, ran>>
    BY <1>3 DEF Reopen, Cancel, leaseVars
  <2> QED
    BY <1>0, <2>1, SameKeeps
<1>4. CASE Expire
  <2>1. UNCHANGED <<rowVars, steps, approval, inside, call, ran>>
    BY <1>4 DEF Expire, Stepping!Overrun, runtimeVars
  <2> QED
    BY <1>0, <2>1, SameKeeps
<1>5. CASE UNCHANGED vars
  <2>1. UNCHANGED <<rowVars, steps, approval, inside, call, ran>>
    BY <1>5 DEF vars, runtimeVars, leaseVars
  <2> QED
    BY <1>0, <2>1, SameKeeps
<1> QED
  BY <1>1, <1>2, <1>3, <1>4, <1>5 DEF Next

\* Only a handler that holds its request's row writes it, and a row that it
\* holds has no outcome yet.
LEMMA FinalStep ==
  ASSUME RequestsInv, [Next]_vars, NEW q \in Requests, status[q] \in Terminal
  PROVE  status'[q] = status[q]
<1>0. TypeOK /\ status[q] \notin {"NONE", "RECEIVED", "PROCESSING", "WAITING_APPROVAL"}
  BY DEF RequestsInv, Typed, Terminal
<1>1. ASSUME NEW h \in Handlers, Insert(h) \/ Mark(h) \/ Sync(h) \/ Apply(h)
      PROVE  status'[q] = status[q]
  <2>1. call[h].at \in {"inserting", "marking", "syncing", "applying"} /\ CallInv(h)
    BY <1>1 DEF Insert, Mark, Sync, Apply, At, RequestsInv
  <2>2. status[Mine(h)] \in {"NONE", "RECEIVED", "PROCESSING", "WAITING_APPROVAL"}
    BY <2>1 DEF CallInv, RowIsHeld, Held, Submitting, Reconciling
  <2>3. q # Mine(h)
    BY <1>0, <2>2
  <2>4. status' = status \/ \E value : SetStatus(Mine(h), value)
    BY <1>1 DEF Insert, Mark, Sync, Apply
  <2> QED
    BY <1>0, <2>3, <2>4, RowOf
<1>2. ASSUME NEW h \in Handlers,
             Arrive(h) \/ Die(h) \/ (Handle(h) /\ ~(Insert(h) \/ Mark(h) \/ Sync(h) \/ Apply(h)))
      PROVE  status' = status
  BY <1>2
  DEF Arrive, Die, Handle, Find, Search, Enter, Claim, Conflict, Submit, Exceed, RunTool, Close,
      Reconcile, Leave, Check, Reread, rowVars
<1>3. CASE (\E i \in 1 .. MaxSteps : Answer(i) \/ RunApproved(i)) \/ Reopen \/ Cancel \/ Expire
  BY <1>3 DEF Answer, RunApproved, Reopen, Cancel, Expire, rowVars
<1>4. CASE UNCHANGED vars
  BY <1>4 DEF vars, rowVars
<1> QED
  BY <1>1, <1>2, <1>3, <1>4 DEF Next

LEMMA RequestsAlways ==
  ASSUME Patient, OwnTools PROVE Spec => []RequestsInv
<1>1. RequestsInv /\ [Next]_vars => RequestsInv'
  BY RequestsStep
<1> QED
  BY <1>1, RequestsInit, PTL DEF Spec

\* However often a client repeats its request, the tool runs once, unless a
\* handler died between the run and the end of its step: for clients that
\* wait for one call before the next, and a tool for each request, with any
\* number of requests, handlers, steps and crashes.
THEOREM RequestsRunOnce ==
  ASSUME Patient, OwnTools PROVE Spec => []RetriesRunOnce
<1> QED
  BY RequestsAlways, RunOnce, PTL

\* What a client is told is what became of its tool: a row says EXECUTED only
\* of a tool that ran, and BLOCKED only of one that did not.
THEOREM OutcomesTrue ==
  ASSUME Patient, OwnTools PROVE Spec => []OutcomesAreTrue
<1> QED
  BY RequestsAlways, TrueOutcomes, PTL

\* An outcome that a client may have been told is not taken back: not by the
\* call that resolves the row, nor by any other.
THEOREM OutcomesFinal ==
  ASSUME Patient, OwnTools PROVE Spec => OutcomesAreFinal
<1>1. RequestsInv /\ [Next]_vars
        => [\A q \in Requests : status[q] \in Terminal => status'[q] = status[q]]_status
  BY FinalStep
<1> QED
  BY <1>1, RequestsAlways, PTL DEF Spec, OutcomesAreFinal

=============================================================================
