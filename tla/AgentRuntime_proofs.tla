------------------------ MODULE AgentRuntime_proofs -------------------------
(* For any number of callers, operators, steps and faults: the runtime is an *)
(* environment the approval engine's guarantees hold in, and what its steps  *)
(* say of their tools is true.  Without zombies it carries out what the      *)
(* planner decided at most once and one tool at a time; for one console that *)
(* looks before it calls it completes nothing that was refused.              *)
EXTENDS AgentRuntime, FiniteSetTheorems, TLAPS

-----------------------------------------------------------------------------
(* The inductive invariant                                                   *)

\* What a call holds at each place it may be.
Located(c) ==
    /\ call[c].at = "inserting" => call[c].next \in 1 .. Len(steps) + 1
    /\ call[c].at \in {"calling", "running", "parking"} => call[c].row \in DOMAIN steps
    /\ call[c].at = "running" => call[c].row \in made

\* Without zombies only the owner of the lease is inside, and an overdue lease
\* has nobody inside at all.
Exclusive ==
    /\ inside \subseteq {owner}
    /\ stale => inside = {}

PlannedEffect(i) == steps[i].tool = "effect" /\ steps[i].planned

\* A planner's decision to act stays right until its row is inserted.
DecisionHolds(c) ==
    call[c].at \in {"numbering", "inserting"} /\ call[c].decision = "effect"
            /\ call[c].op # "submit"
        => ~Attempted("effect")

AllLocated == \A c \in Callers : Located(c)
PlannedOnce == \A i, j \in DOMAIN steps : PlannedEffect(i) /\ PlannedEffect(j) => i = j
DecisionsHold == \A c \in Callers : DecisionHolds(c)

RuntimeInv ==
    /\ TypeOK
    /\ AllLocated
    /\ ~Zombies => Exclusive /\ PlannedOnce /\ DecisionsHold

LEMMA RuntimeInit == Init => RuntimeInv
<1> SUFFICES ASSUME Init PROVE RuntimeInv
  OBVIOUS
<1> USE RuntimeAssumption DEF Init, Stepping!LeaseInit
<1>1. Idle \in Calls
  BY DEF Idle, Calls, Labels, Decisions, Tools, Results
<1>2. call \in [Callers -> Calls] /\ \A c \in Callers : call[c].at = "idle"
  BY <1>1 DEF Idle
<1>3. steps \in Seq([tool : Decisions, planned : BOOLEAN, status : StepStatuses]) /\ Len(steps) <= Rows
  OBVIOUS
<1>4. TypeOK
  <2>1. Stepping!LeaseTypeOK
    BY DEF Stepping!LeaseTypeOK
  <2>2. \A c \in Callers : c \in inside <=> call[c].at \notin {"idle", "claiming"}
    BY <1>2
  <2>3. made \subseteq DOMAIN steps /\ ran \subseteq made
    OBVIOUS
  <2>4. announced \in {"NONE", "ALREADY_TERMINAL"} \cup Engine!Finals /\ faults \in 0 .. MaxFaults
    OBVIOUS
  <2>5. ConsoleTypeOK
    BY DEF ConsoleTypeOK
  <2> QED
    BY ONLY <1>2, <1>3, <2>1, <2>2, <2>3, <2>4, <2>5 DEF TypeOK
<1>5. AllLocated
  BY <1>2 DEF AllLocated, Located
<1>6. Exclusive /\ PlannedOnce /\ DecisionsHold
  BY <1>2 DEF Exclusive, PlannedOnce, DecisionsHold, DecisionHolds
<1> QED
  BY <1>4, <1>5, <1>6 DEF RuntimeInv

-----------------------------------------------------------------------------
(* Only its own record changes when a call moves                             *)

Moves(c) == call' = [call EXCEPT ![c] = call'[c]] /\ call'[c] \in Calls

Types == call \in [Callers -> Calls]

LEMMA IdleTypes ==
    /\ Idle \in Calls
    /\ [Idle EXCEPT !.at = "leaving"] \in Calls
    /\ [Idle EXCEPT !.at = "planning", !.op = "resume"] \in Calls
<1>1. Idle \in Calls
  BY RuntimeAssumption DEF Idle, Calls, Labels, Decisions, Tools, Results
<1>2. [Idle EXCEPT !.at = "leaving"] \in Calls
  BY <1>1 DEF Calls, Labels
<1>3. [Idle EXCEPT !.at = "planning", !.op = "resume"] \in Calls
  BY <1>1 DEF Calls, Labels
<1> QED
  BY <1>1, <1>2, <1>3

LEMMA GoHomeMoves ==
    ASSUME Types, NEW c \in Callers, GoHome(c)
    PROVE  Moves(c) /\ call'[c].at = "leaving"
<1>1. call'[c] = [Idle EXCEPT !.at = "leaving"]
  BY DEF GoHome, Types
<1>2. [Idle EXCEPT !.at = "leaving"].at = "leaving"
  BY DEF Idle
<1> QED
  BY <1>1, <1>2, IdleTypes DEF GoHome, Moves, Types

LEMMA GotoMoves ==
    ASSUME Types, NEW c \in Callers, NEW label \in Labels, Goto(c, label)
    PROVE  Moves(c) /\ call'[c].at = label /\ call'[c].row = call[c].row
  BY DEF Goto, Moves, Types, Calls

LEMMA ResultMoves ==
    ASSUME Types, NEW c \in Callers, NEW result \in Results, Result(c, result)
    PROVE  Moves(c) /\ call'[c].at = "finalizing" /\ call'[c].row = call[c].row
  BY DEF Result, Moves, Types, Calls, Labels

\* Where a call stands, in terms of its own record only.
LEMMA EnterMoves ==
    ASSUME Types, NEW c \in Callers, NEW op \in Ops, Enter(c, op)
    PROVE  Moves(c) /\ call'[c].at = "claiming"
<1>1. op \in {"step", "resume", "submit", "reconcile"}
  BY RuntimeAssumption
<1>2. call' = [call EXCEPT ![c].at = "claiming", ![c].op = op]
  BY DEF Enter
<1> QED
  BY <1>1, <1>2 DEF Moves, Types, Calls, Labels

LEMMA RecheckMoves ==
    ASSUME Types, NEW c \in Callers, Recheck(c)
    PROVE  Moves(c) /\ call'[c].at \in {"leaving", "finding", "planning"}
<1>1. CASE execution # "RUNNING" /\ call[c].op # "reconcile"
  BY <1>1, GoHomeMoves DEF Recheck
<1>2. CASE ~(execution # "RUNNING" /\ call[c].op # "reconcile")
  <2> DEFINE label == IF call[c].op \in {"resume", "reconcile"} THEN "finding" ELSE "planning"
  <2>1. Goto(c, label)
    BY <1>2 DEF Recheck
  <2>2. label \in Labels /\ label \in {"leaving", "finding", "planning"}
    BY DEF Labels
  <2> HIDE DEF label
  <2> QED
    BY <2>1, <2>2, GotoMoves
<1> QED
  BY <1>1, <1>2

LEMMA FindMoves ==
    ASSUME Types, NEW c \in Callers, FindPending(c), Len(steps) \in Nat, Len(steps) <= Rows,
           DOMAIN steps = 1 .. Len(steps)
    PROVE  Moves(c) /\ call'[c].at \in {"leaving", "finalizing"}
<1>1. CASE GoHome(c)
  BY <1>1, GoHomeMoves
<1>2. ASSUME NEW i \in LatestWaiting, Resolved(i),
             call' = [call EXCEPT ![c].at = "finalizing", ![c].row = i,
                                  ![c].result = Resolution(i)]
      PROVE  Moves(c) /\ call'[c].at \in {"leaving", "finalizing"}
  <2>1. i \in 0 .. Rows
    BY RuntimeAssumption DEF LatestWaiting
  <2>2. Resolution(i) \in Results
    BY <1>2 DEF Resolved, Resolution, Results
  <2> QED
    BY <1>2, <2>1, <2>2 DEF Moves, Types, Calls, Labels
<1> QED
  BY <1>1, <1>2 DEF FindPending

LEMMA PlanMoves ==
    ASSUME Types, NEW c \in Callers, Plan(c)
    PROVE  /\ Moves(c) /\ call'[c].at = "numbering" /\ call'[c].op = call[c].op
           /\ call[c].op # "submit" /\ call'[c].decision = "effect" => ~Attempted("effect")
<1>1. NextAction \in Decisions /\ (NextAction = "effect" => ~Attempted("effect"))
  BY DEF NextAction, Decisions, Tools
<1>2. PICK decision \in
          IF Len(steps) >= MAX_STEPS THEN {"FAIL"}
          ELSE IF call[c].op = "submit" THEN Tools
          ELSE {NextAction, "FAIL"} :
             call' = [call EXCEPT ![c].at = "numbering", ![c].decision = decision,
                                  ![c].retry = FALSE]
  BY DEF Plan
<1>3. decision \in Decisions
  BY <1>1, <1>2 DEF Decisions, Tools
<1>4. /\ Moves(c) /\ call'[c].at = "numbering" /\ call'[c].op = call[c].op
      /\ call'[c].decision = decision
  BY <1>2, <1>3 DEF Moves, Types, Calls, Labels
<1>5. call[c].op # "submit" /\ decision = "effect" => ~Attempted("effect")
  BY <1>1, <1>2
<1> QED
  BY <1>4, <1>5

LEMMA NumberMoves ==
    ASSUME Types, NEW c \in Callers, ReadMaxSequence(c), Len(steps) \in Nat, Len(steps) <= Rows
    PROVE  /\ Moves(c) /\ call'[c].at = "inserting" /\ call'[c].next = Len(steps) + 1
           /\ call'[c].op = call[c].op /\ call'[c].decision = call[c].decision
<1>1. Len(steps) + 1 \in 0 .. Rows + 1
  BY RuntimeAssumption
<1> QED
  BY <1>1 DEF ReadMaxSequence, Moves, Types, Calls, Labels

LEMMA InsertMoves ==
    ASSUME Types, NEW c \in Callers, InsertStep(c), Len(steps) \in Nat, Located(c)
    PROVE  /\ Moves(c) /\ call'[c].at \in {"leaving", "finalizing", "calling"}
           /\ call'[c].at = "calling" => call'[c].row = call[c].next /\ Len(steps) < Rows
                                         /\ call[c].next \notin DOMAIN steps
<1>1. CASE call[c].next \in DOMAIN steps
  <2>1. CASE call[c].retry
    <3>1. Result(c, "FAILED") /\ "FAILED" \in Results
      BY <1>1, <2>1 DEF InsertStep, Results
    <3> QED
      BY <3>1, ResultMoves
  <2>2. CASE ~call[c].retry
    BY <1>1, <2>2, GoHomeMoves DEF InsertStep
  <2> QED
    BY <2>1, <2>2
<1>2. CASE call[c].next \notin DOMAIN steps
  <2>1. Len(steps) < Rows /\ call[c].next \in 1 .. Rows
    BY <1>2, RuntimeAssumption DEF InsertStep, Located, At
  <2>2. CASE call[c].decision \in Tools
    <3>1. call' = [call EXCEPT ![c].at = "calling", ![c].row = call[c].next, ![c].next = 0]
      BY <1>2, <2>2 DEF InsertStep
    <3> QED
      BY <1>2, <2>1, <3>1, RuntimeAssumption DEF Moves, Types, Calls, Labels
  <2>3. CASE call[c].decision \notin Tools
    <3>1. call' = [call EXCEPT ![c].at = "finalizing", ![c].row = call[c].next,
                               ![c].next = 0, ![c].result = call[c].decision]
      BY <1>2, <2>3 DEF InsertStep
    <3>2. call[c].decision \in Results
      BY <2>3 DEF Types, Calls, Decisions, Results
    <3> QED
      BY <2>1, <3>1, <3>2, RuntimeAssumption DEF Moves, Types, Calls, Labels
  <2> QED
    BY <2>2, <2>3
<1> QED
  BY <1>1, <1>2

LEMMA GatewayMoves ==
    ASSUME Types, NEW c \in Callers, CallGateway(c)
    PROVE  /\ Moves(c) /\ call'[c].at \in {"finalizing", "running", "parking"}
           /\ call'[c].row = call[c].row
<1>1. ASSUME NEW result \in {"BLOCKED", "FAILED"}, Result(c, result)
      PROVE  Moves(c) /\ call'[c].at = "finalizing" /\ call'[c].row = call[c].row
  <2>1. result \in Results
    BY DEF Results
  <2> QED
    BY <1>1, <2>1, ResultMoves
<1>2. ASSUME NEW label \in {"running", "parking"}, Goto(c, label)
      PROVE  Moves(c) /\ call'[c].at = label /\ call'[c].row = call[c].row
  <2>1. label \in Labels
    BY DEF Labels
  <2> QED
    BY <1>2, <2>1, GotoMoves
<1> QED
  BY <1>1, <1>2 DEF CallGateway

LEMMA RunMoves ==
    ASSUME Types, NEW c \in Callers, RunDirectly(c)
    PROVE  Moves(c) /\ call'[c].at = "finalizing"
<1>1. ASSUME NEW result \in {"EXECUTED", "FAILED"}, Result(c, result)
      PROVE  Moves(c) /\ call'[c].at = "finalizing"
  <2>1. result \in Results
    BY DEF Results
  <2> QED
    BY <1>1, <2>1, ResultMoves
<1> QED
  BY <1>1 DEF RunDirectly

LEMMA ParkMoves ==
    ASSUME Types, NEW c \in Callers, Park(c)
    PROVE  Moves(c) /\ call'[c].at = "finalizing"
<1>1. ASSUME NEW result \in {"REQUIRES_APPROVAL", "FAILED"}, Result(c, result)
      PROVE  Moves(c) /\ call'[c].at = "finalizing"
  <2>1. result \in Results
    BY DEF Results
  <2> QED
    BY <1>1, <2>1, ResultMoves
<1> QED
  BY <1>1 DEF Park

LEMMA RetryMoves ==
    ASSUME Types, NEW c \in Callers, Retry(c)
    PROVE  Moves(c) /\ call'[c].at = "numbering" /\ call'[c].decision = "read"
  BY DEF Retry, Retries, Moves, Types, Calls, Labels

LEMMA FinalizeMoves ==
    ASSUME Types, NEW c \in Callers, Finalize(c)
    PROVE  Moves(c) /\ call'[c].at \in {"leaving", "planning"}
<1>1. CASE GoHome(c)
  BY <1>1, GoHomeMoves
<1>2. CASE call' = [call EXCEPT ![c] = [Idle EXCEPT !.at = "planning", !.op = "resume"]]
  <2>1. [Idle EXCEPT !.at = "planning", !.op = "resume"].at = "planning"
    BY DEF Idle
  <2> QED
    BY <1>2, <2>1, IdleTypes DEF Moves, Types
<1> QED
  BY <1>1, <1>2 DEF Finalize

LEMMA ClaimMoves ==
    ASSUME Types, NEW c \in Callers, Claim(c)
    PROVE  Moves(c) /\ call'[c].at = "claimed"
<1>1. Goto(c, "claimed") /\ "claimed" \in Labels
  BY DEF Claim, Labels
<1> QED
  BY <1>1, GotoMoves

LEMMA ReturnMoves ==
    ASSUME Types, NEW c \in Callers, call' = [call EXCEPT ![c] = Idle]
    PROVE  Moves(c) /\ call'[c].at = "idle"
<1>1. Idle.at = "idle"
  BY DEF Idle
<1> QED
  BY <1>1, IdleTypes DEF Moves, Types

-----------------------------------------------------------------------------
(* The rows of the steps                                                     *)

StepRows == [tool : Decisions, planned : BOOLEAN, status : StepStatuses]

LEMMA StepFacts ==
    ASSUME TypeOK
    PROVE  /\ Types /\ steps \in Seq(StepRows)
           /\ Len(steps) \in Nat /\ Len(steps) <= Rows /\ DOMAIN steps = 1 .. Len(steps)
  BY DEF TypeOK, Types, StepRows

\* What an action may do to the steps and their history.
Grows ==
    /\ steps' \in Seq(StepRows)
    /\ Len(steps) <= Len(steps') /\ Len(steps') <= Rows
    /\ made \subseteq made' /\ made' \subseteq DOMAIN steps' /\ ran' \subseteq made'

LEMMA SameStepsGrow == ASSUME TypeOK, UNCHANGED <<steps, made, ran>> PROVE Grows
  BY DEF TypeOK, Grows, StepRows

LEMMA ClosedRow ==
    ASSUME TypeOK, NEW i, NEW status \in StepStatuses, Close(i, status)
    PROVE  /\ steps' \in Seq(StepRows) /\ Len(steps') = Len(steps) /\ DOMAIN steps' = DOMAIN steps
           /\ \A j \in DOMAIN steps : /\ steps'[j].tool = steps[j].tool
                                      /\ steps'[j].planned = steps[j].planned
<1>1. steps \in Seq(StepRows)
  BY StepFacts
<1>2. CASE i \notin DOMAIN steps
  <2>1. steps' = steps
    BY <1>1, <1>2 DEF Close
  <2> QED
    BY <1>1, <2>1
<1>3. CASE i \in DOMAIN steps
  <2>1. [steps[i] EXCEPT !.status = status] \in StepRows
    <3>1. steps[i] \in StepRows
      BY <1>1, <1>3
    <3> QED
      BY <3>1 DEF StepRows
  <2>2. steps' = [steps EXCEPT ![i] = [steps[i] EXCEPT !.status = status]]
    BY <1>3 DEF Close
  <2>3. steps' \in Seq(StepRows) /\ Len(steps') = Len(steps) /\ DOMAIN steps' = DOMAIN steps
    BY <1>1, <1>3, <2>1, <2>2
  <2>4. ASSUME NEW j \in DOMAIN steps
        PROVE  steps'[j].tool = steps[j].tool /\ steps'[j].planned = steps[j].planned
    <3>1. CASE j = i
      <4>1. steps'[j] = [steps[i] EXCEPT !.status = status]
        BY <1>1, <2>2, <3>1
      <4>2. steps[i] \in StepRows
        BY <1>1, <1>3
      <4> QED
        BY <3>1, <4>1, <4>2 DEF StepRows
    <3>2. CASE j # i
      BY <1>1, <2>2, <3>2
    <3> QED
      BY <3>1, <3>2
  <2> QED
    BY <2>3, <2>4
<1> QED
  BY <1>2, <1>3

LEMMA CloseGrows ==
    ASSUME TypeOK, NEW i, NEW status \in StepStatuses, Close(i, status), UNCHANGED <<made, ran>>
    PROVE  Grows
  BY StepFacts, ClosedRow DEF Grows, TypeOK

LEMMA RowType ==
    ASSUME Types, NEW c \in Callers
    PROVE  Row(call[c].decision, call[c].op) \in StepRows
  BY DEF Types, Calls, Row, StepRows, StepStatuses

\* Everything the inductive invariant asks of an action of one caller.
LEMMA CallerKeeps ==
    ASSUME TypeOK, AllLocated, NEW c \in Callers, Moves(c), Grows,
           Stepping!LeaseTypeOK',
           c \in inside' <=> call'[c].at \notin {"idle", "claiming"},
           \A d \in Callers \ {c} : d \in inside' <=> d \in inside,
           announced' \in {"NONE", "ALREADY_TERMINAL"} \cup Engine!Finals,
           faults' \in 0 .. MaxFaults, ConsoleTypeOK',
           Located(c)'
    PROVE  TypeOK' /\ AllLocated'
<1>1. call' \in [Callers -> Calls] /\ \A d \in Callers \ {c} : call'[d] = call[d]
  BY DEF Moves, TypeOK
<1>2. \A d \in Callers : d \in inside' <=> call'[d].at \notin {"idle", "claiming"}
  BY <1>1 DEF TypeOK
<1>3. TypeOK'
  BY <1>1, <1>2 DEF TypeOK, Grows, StepRows
<1>4. ASSUME NEW d \in Callers \ {c} PROVE Located(d)'
  <2>1. Located(d) /\ call'[d] = call[d]
    BY <1>1 DEF AllLocated
  <2>2. DOMAIN steps \subseteq DOMAIN steps' /\ Len(steps) <= Len(steps') /\ made \subseteq made'
        /\ Len(steps) \in Nat /\ Len(steps') \in Nat
    BY StepFacts DEF Grows
  <2> QED
    BY <2>1, <2>2 DEF Located
<1> QED
  BY <1>3, <1>4 DEF AllLocated

-----------------------------------------------------------------------------
(* Every action keeps the types and what a call holds                        *)

\* An action that leaves the lease, the steps and the rest alone, and takes
\* its call from one place inside, or outside, to another.
LEMMA LocalKeeps ==
    ASSUME TypeOK, AllLocated, NEW c \in Callers, Moves(c), Grows,
           UNCHANGED <<leaseVars, faults, consoleVars>>,
           announced' \in {"NONE", "ALREADY_TERMINAL"} \cup Engine!Finals,
           call[c].at \in {"idle", "claiming"} <=> call'[c].at \in {"idle", "claiming"},
           Located(c)'
    PROVE  TypeOK' /\ AllLocated'
<1>1. Stepping!LeaseTypeOK'
  BY DEF leaseVars, TypeOK, Stepping!LeaseTypeOK
<1>2. c \in inside' <=> call'[c].at \notin {"idle", "claiming"}
  BY DEF leaseVars, TypeOK
<1>3. \A d \in Callers \ {c} : d \in inside' <=> d \in inside
  BY DEF leaseVars
<1>4. faults' \in 0 .. MaxFaults
  BY DEF TypeOK
<1>5. ConsoleTypeOK'
  BY DEF TypeOK, ConsoleTypeOK, consoleVars
<1> QED
  BY <1>1, <1>2, <1>3, <1>4, <1>5, CallerKeeps

\* The same for a call that only moves.
LEMMA StayingKeeps ==
    ASSUME TypeOK, AllLocated, NEW c \in Callers, Moves(c),
           UNCHANGED <<leaseVars, stepVars, faults, consoleVars>>,
           call[c].at \in {"idle", "claiming"} <=> call'[c].at \in {"idle", "claiming"},
           Located(c)'
    PROVE  TypeOK' /\ AllLocated'
<1>1. Grows /\ announced' \in {"NONE", "ALREADY_TERMINAL"} \cup Engine!Finals
  BY SameStepsGrow DEF stepVars, TypeOK
<1> QED
  BY <1>1, LocalKeeps

\* A place that asks nothing of what the call holds.
Anywhere == Labels \ {"inserting", "calling", "running", "parking"}

LEMMA AnywhereLocated ==
    ASSUME NEW c \in Callers, call'[c].at \in Anywhere
    PROVE  Located(c)'
  BY DEF Anywhere, Located

LEMMA TicksTypes ==
    ASSUME ConsoleTypeOK, NEW c \in Callers, Ticks(c)
    PROVE  ConsoleTypeOK'
<1>1. CASE c \in Console
  <2>1. shown' = [shown EXCEPT ![c].fresh = FALSE] /\ hasty' = (hasty \/ ~shown[c].fresh)
    BY <1>1 DEF Ticks
  <2>2. shown[c].fresh \in BOOLEAN
    BY <1>1 DEF ConsoleTypeOK
  <2> QED
    BY <2>1, <2>2 DEF ConsoleTypeOK
<1>2. CASE c \notin Console
  BY <1>2 DEF Ticks, ConsoleTypeOK
<1> QED
  BY <1>1, <1>2

LEMMA PollTypes ==
    ASSUME ConsoleTypeOK, NEW c \in Console, Poll(c)
    PROVE  ConsoleTypeOK'
<1>1. PICK b \in BOOLEAN : b = At(c, "idle")
  BY Zenon DEF At
<1>2. Offer \in {"nothing", "step", "resume"}
  BY DEF Offer
<1>3. shown' = [shown EXCEPT ![c] = [next |-> Offer, fresh |-> b]]
  BY <1>1 DEF Poll
<1> QED
  BY <1>2, <1>3 DEF Poll, ConsoleTypeOK

LEMMA EnterKeeps ==
    ASSUME TypeOK, AllLocated, NEW c \in Callers, NEW op \in Ops, Enter(c, op)
    PROVE  TypeOK' /\ AllLocated'
<1>1. Moves(c) /\ call'[c].at = "claiming"
  BY StepFacts, EnterMoves
<1>2. Located(c)'
  BY <1>1, AnywhereLocated DEF Anywhere, Labels
<1>3. ConsoleTypeOK'
  BY TicksTypes DEF Enter, TypeOK
<1>4. Grows /\ UNCHANGED <<announced, faults, inside>>
  BY SameStepsGrow DEF Enter, stepVars, leaseVars
<1>5. Stepping!LeaseTypeOK'
  BY DEF Enter, leaseVars, TypeOK, Stepping!LeaseTypeOK
<1>6. c \notin inside
  BY DEF Enter, At, TypeOK
<1> QED
  BY <1>1, <1>2, <1>3, <1>4, <1>5, <1>6, CallerKeeps DEF TypeOK

LEMMA ConflictKeeps ==
    ASSUME TypeOK, AllLocated, NEW c \in Callers, Conflict(c)
    PROVE  TypeOK' /\ AllLocated'
<1>1. Moves(c) /\ call'[c].at = "idle"
  BY StepFacts, ReturnMoves DEF Conflict
<1>2. Located(c)'
  BY <1>1, AnywhereLocated DEF Anywhere, Labels
<1> QED
  BY <1>1, <1>2, StayingKeeps DEF Conflict, At

LEMMA RecheckKeeps ==
    ASSUME TypeOK, AllLocated, NEW c \in Callers, Recheck(c)
    PROVE  TypeOK' /\ AllLocated'
<1>1. Moves(c) /\ call'[c].at \in {"leaving", "finding", "planning"}
  BY StepFacts, RecheckMoves
<1>2. Located(c)'
  BY <1>1, AnywhereLocated DEF Anywhere, Labels
<1> QED
  BY <1>1, <1>2, StayingKeeps DEF Recheck, At

LEMMA FindKeeps ==
    ASSUME TypeOK, AllLocated, NEW c \in Callers, FindPending(c)
    PROVE  TypeOK' /\ AllLocated'
<1>1. Moves(c) /\ call'[c].at \in {"leaving", "finalizing"}
  BY StepFacts, FindMoves
<1>2. Located(c)'
  BY <1>1, AnywhereLocated DEF Anywhere, Labels
<1> QED
  BY <1>1, <1>2, StayingKeeps DEF FindPending, At

LEMMA PlanKeeps ==
    ASSUME TypeOK, AllLocated, NEW c \in Callers, Plan(c)
    PROVE  TypeOK' /\ AllLocated'
<1>1. Moves(c) /\ call'[c].at = "numbering"
  BY StepFacts, PlanMoves
<1>2. Located(c)'
  BY <1>1, AnywhereLocated DEF Anywhere, Labels
<1> QED
  BY <1>1, <1>2, StayingKeeps DEF Plan, At

LEMMA NumberKeeps ==
    ASSUME TypeOK, AllLocated, NEW c \in Callers, ReadMaxSequence(c)
    PROVE  TypeOK' /\ AllLocated'
<1>1. Moves(c) /\ call'[c].at = "inserting" /\ call'[c].next = Len(steps) + 1
  BY StepFacts, NumberMoves
<1>2. steps' = steps /\ Len(steps) \in Nat
  BY StepFacts DEF ReadMaxSequence, stepVars
<1>3. Located(c)'
  BY <1>1, <1>2 DEF Located
<1> QED
  BY <1>1, <1>3, StayingKeeps DEF ReadMaxSequence, At

LEMMA InsertKeeps ==
    ASSUME TypeOK, AllLocated, NEW c \in Callers, InsertStep(c)
    PROVE  TypeOK' /\ AllLocated'
<1>1. /\ Moves(c) /\ call'[c].at \in {"leaving", "finalizing", "calling"}
      /\ call'[c].at = "calling" => call'[c].row = call[c].next /\ Len(steps) < Rows
                                    /\ call[c].next \notin DOMAIN steps
  BY StepFacts, InsertMoves DEF AllLocated
<1>2. CASE call[c].next \in DOMAIN steps
  <2>1. UNCHANGED <<steps, made, ran>>
    BY <1>2 DEF InsertStep
  <2>2. Grows
    BY <2>1, SameStepsGrow
  <2>3. Located(c)'
    BY <1>1, <1>2 DEF Located
  <2> QED
    BY <1>1, <2>2, <2>3, LocalKeeps DEF InsertStep, At, TypeOK
<1>3. CASE call[c].next \notin DOMAIN steps
  <2>1. steps' = Append(steps, Row(call[c].decision, call[c].op)) /\ Len(steps) < Rows
    BY <1>3 DEF InsertStep
  <2>2. steps' \in Seq(StepRows) /\ Len(steps') = Len(steps) + 1
        /\ DOMAIN steps' = 1 .. Len(steps) + 1
    BY <2>1, StepFacts, RowType
  <2>3. Grows
    BY <2>1, <2>2, StepFacts, RuntimeAssumption DEF InsertStep, Grows, TypeOK
  <2>4. call[c].next \in 1 .. Len(steps) + 1
    BY DEF AllLocated, Located, InsertStep, At
  <2>5. Located(c)'
    BY <1>1, <2>2, <2>4 DEF Located
  <2> QED
    BY <1>1, <2>3, <2>5, LocalKeeps DEF InsertStep, At, TypeOK
<1> QED
  BY <1>2, <1>3

LEMMA GatewayKeeps ==
    ASSUME TypeOK, AllLocated, NEW c \in Callers, CallGateway(c)
    PROVE  TypeOK' /\ AllLocated'
<1>1. /\ Moves(c) /\ call'[c].at \in {"finalizing", "running", "parking"}
      /\ call'[c].row = call[c].row
  BY StepFacts, GatewayMoves
<1>2. call[c].row \in DOMAIN steps
  BY DEF CallGateway, At, AllLocated, Located
<1>3. \/ made' = made \cup {call[c].row}
      \/ made' = made /\ call'[c].at = "finalizing"
  <2>1. CASE Open
    BY <2>1 DEF CallGateway
  <2>2. CASE ~Open
    <3>1. Result(c, "FAILED") /\ "FAILED" \in Results
      BY <2>2 DEF CallGateway, Results
    <3> QED
      BY <2>2, <3>1, ResultMoves, StepFacts DEF CallGateway
  <2> QED
    BY <2>1, <2>2
<1>4. Grows
  BY <1>2, <1>3, StepFacts DEF CallGateway, Grows, TypeOK
<1>5. Located(c)'
  BY <1>1, <1>2, <1>3 DEF Located, CallGateway
<1> QED
  BY <1>1, <1>4, <1>5, LocalKeeps DEF CallGateway, At, TypeOK

LEMMA RunKeeps ==
    ASSUME TypeOK, AllLocated, NEW c \in Callers, RunDirectly(c)
    PROVE  TypeOK' /\ AllLocated'
<1>1. Moves(c) /\ call'[c].at = "finalizing"
  BY StepFacts, RunMoves
<1>2. call[c].row \in made
  BY DEF RunDirectly, At, AllLocated, Located
<1>3. Grows
  BY <1>2, StepFacts DEF RunDirectly, Grows, TypeOK
<1>4. Located(c)'
  BY <1>1, AnywhereLocated DEF Anywhere, Labels
<1> QED
  BY <1>1, <1>3, <1>4, LocalKeeps DEF RunDirectly, At, TypeOK

LEMMA ParkKeeps ==
    ASSUME TypeOK, AllLocated, NEW c \in Callers, Park(c)
    PROVE  TypeOK' /\ AllLocated'
<1>1. Moves(c) /\ call'[c].at = "finalizing"
  BY StepFacts, ParkMoves
<1>2. Located(c)'
  BY <1>1, AnywhereLocated DEF Anywhere, Labels
<1> QED
  BY <1>1, <1>2, StayingKeeps DEF Park, At

LEMMA RetryKeeps ==
    ASSUME TypeOK, AllLocated, NEW c \in Callers, Retry(c)
    PROVE  TypeOK' /\ AllLocated'
<1>1. Moves(c) /\ call'[c].at = "numbering"
  BY StepFacts, RetryMoves
<1>2. Grows
  BY CloseGrows DEF Retry, StepStatuses
<1>3. Located(c)'
  BY <1>1, AnywhereLocated DEF Anywhere, Labels
<1> QED
  BY <1>1, <1>2, <1>3, LocalKeeps DEF Retry, At, TypeOK

LEMMA StepStatusType ==
    ASSUME NEW result \in Results
    PROVE  /\ StepStatus(result) \in StepStatuses
           /\ Ends(result) => StepStatus(result) \in Engine!Finals
  BY DEF Results, StepStatus, StepStatuses, Ends, Engine!Finals

LEMMA FinalizeKeeps ==
    ASSUME TypeOK, AllLocated, NEW c \in Callers, Finalize(c)
    PROVE  TypeOK' /\ AllLocated'
<1>1. Moves(c) /\ call'[c].at \in {"leaving", "planning"}
  BY StepFacts, FinalizeMoves
<1>2. call[c].result \in Results
  BY DEF TypeOK, Calls
<1>3. Grows
  BY <1>2, StepStatusType, CloseGrows DEF Finalize
<1>4. announced' \in {"NONE", "ALREADY_TERMINAL"} \cup Engine!Finals
  BY <1>2, StepStatusType DEF Finalize, TypeOK
<1>5. Located(c)'
  BY <1>1, AnywhereLocated DEF Anywhere, Labels
<1> QED
  BY <1>1, <1>3, <1>4, <1>5, LocalKeeps DEF Finalize, At

LEMMA ClaimKeeps ==
    ASSUME TypeOK, AllLocated, NEW c \in Callers, Claim(c)
    PROVE  TypeOK' /\ AllLocated'
<1>1. Moves(c) /\ call'[c].at = "claimed"
  BY StepFacts, ClaimMoves
<1>2. Grows /\ UNCHANGED <<announced, faults>>
  BY SameStepsGrow DEF Claim, stepVars
<1>3. owner' = c /\ stale' \in BOOLEAN /\ inside' = inside \cup {c}
  BY DEF Claim, Stepping!Acquire
<1>4. Stepping!LeaseTypeOK'
  BY <1>3 DEF TypeOK, Stepping!LeaseTypeOK
<1>5. Located(c)'
  BY <1>1, AnywhereLocated DEF Anywhere, Labels
<1>9. ConsoleTypeOK'
  BY DEF Claim, consoleVars, TypeOK, ConsoleTypeOK
<1> QED
  BY <1>1, <1>2, <1>3, <1>4, <1>5, <1>9, CallerKeeps DEF TypeOK

LEMMA LeaveKeeps ==
    ASSUME TypeOK, AllLocated, NEW c \in Callers, Leave(c)
    PROVE  TypeOK' /\ AllLocated'
<1>1. Moves(c) /\ call'[c].at = "idle"
  BY StepFacts, ReturnMoves DEF Leave
<1>2. Grows /\ UNCHANGED <<announced, faults>>
  BY SameStepsGrow DEF Leave, stepVars
<1>3. Stepping!LeaseTypeOK' /\ inside' = inside \ {c}
  BY DEF Leave, Stepping!Release, TypeOK, Stepping!LeaseTypeOK
<1>4. Located(c)'
  BY <1>1, AnywhereLocated DEF Anywhere, Labels
<1>9. ConsoleTypeOK'
  BY DEF Leave, consoleVars, TypeOK, ConsoleTypeOK
<1> QED
  BY <1>1, <1>2, <1>3, <1>4, <1>9, CallerKeeps DEF TypeOK

LEMMA RaiseKeeps ==
    ASSUME TypeOK, AllLocated, NEW c \in Callers, Raise(c)
    PROVE  TypeOK' /\ AllLocated'
<1>1. Moves(c) /\ call'[c].at = "leaving"
  BY StepFacts, GoHomeMoves DEF Raise
<1>2. Grows /\ UNCHANGED announced
  BY SameStepsGrow DEF Raise, stepVars
<1>3. Stepping!LeaseTypeOK' /\ inside' = inside /\ c \in inside
  BY DEF Raise, leaseVars, TypeOK, Stepping!LeaseTypeOK
<1>4. faults' \in 0 .. MaxFaults
  BY RuntimeAssumption DEF Raise, Fail, TypeOK
<1>5. Located(c)'
  BY <1>1, AnywhereLocated DEF Anywhere, Labels
<1>9. ConsoleTypeOK'
  BY DEF Raise, consoleVars, TypeOK, ConsoleTypeOK
<1> QED
  BY <1>1, <1>2, <1>3, <1>4, <1>5, <1>9, CallerKeeps DEF TypeOK

LEMMA CrashKeeps ==
    ASSUME TypeOK, AllLocated, NEW c \in Callers, Crash(c)
    PROVE  TypeOK' /\ AllLocated'
<1>1. Moves(c) /\ call'[c].at = "idle"
  BY StepFacts, ReturnMoves DEF Crash
<1>2. Grows /\ UNCHANGED announced
  BY SameStepsGrow DEF Crash, stepVars
<1>3. Stepping!LeaseTypeOK' /\ inside' = inside \ {c}
  BY DEF Crash, Stepping!Die, TypeOK, Stepping!LeaseTypeOK
<1>4. faults' \in 0 .. MaxFaults
  BY RuntimeAssumption DEF Crash, Fail, TypeOK
<1>5. Located(c)'
  BY <1>1, AnywhereLocated DEF Anywhere, Labels
<1>9. ConsoleTypeOK'
  BY DEF Crash, consoleVars, TypeOK, ConsoleTypeOK
<1> QED
  BY <1>1, <1>2, <1>3, <1>4, <1>5, <1>9, CallerKeeps DEF TypeOK

\* The clock, the operators, the resolvers and the polls leave the runtime's rows alone.
Elsewhere ==
    \/ Expire \/ Cancel
    \/ \E c \in Console : Poll(c)
    \/ \E i \in Positions : Overrun(i)
    \/ \E r \in Resolvers : Resolve(r) \/ Abandon(r)
    \/ UNCHANGED vars

LEMMA ElsewhereFacts ==
    ASSUME TypeOK, Elsewhere
    PROVE  UNCHANGED <<stepVars, call, inside, owner>> /\ faults' \in 0 .. MaxFaults
           /\ stale' \in BOOLEAN /\ ConsoleTypeOK'
<1>1. CASE Expire
  BY <1>1 DEF Expire, Stepping!Overrun, TypeOK, ConsoleTypeOK, consoleVars
<1>2. CASE UNCHANGED vars
  BY <1>2 DEF vars, leaseVars, TypeOK, Stepping!LeaseTypeOK, ConsoleTypeOK,
     consoleVars
<1>3. CASE Cancel \/ \E i \in Positions : Overrun(i)
  BY <1>3 DEF Cancel, Overrun, leaseVars, TypeOK, Stepping!LeaseTypeOK, ConsoleTypeOK,
     consoleVars
<1>4. CASE \E r \in Resolvers : Resolve(r)
  BY <1>4 DEF Resolve, leaseVars, TypeOK, Stepping!LeaseTypeOK, ConsoleTypeOK,
     consoleVars
<1>5. CASE \E r \in Resolvers : Abandon(r)
  BY <1>5, RuntimeAssumption DEF Abandon, Fail, leaseVars, TypeOK, Stepping!LeaseTypeOK, ConsoleTypeOK,
     consoleVars
<1>6. CASE \E c \in Console : Poll(c)
  BY <1>6, PollTypes DEF Poll, leaseVars, TypeOK, Stepping!LeaseTypeOK
<1> QED
  BY <1>1, <1>2, <1>3, <1>4, <1>5, <1>6 DEF Elsewhere

LEMMA ElsewhereKeeps ==
    ASSUME TypeOK, AllLocated, Elsewhere
    PROVE  TypeOK' /\ AllLocated'
<1>1. UNCHANGED <<steps, made, ran, announced, call, inside, owner>>
      /\ faults' \in 0 .. MaxFaults /\ stale' \in BOOLEAN /\ ConsoleTypeOK'
  BY ElsewhereFacts DEF stepVars
<1>2. TypeOK'
  BY <1>1 DEF TypeOK, Stepping!LeaseTypeOK
<1>3. AllLocated'
  BY <1>1 DEF AllLocated, Located
<1> QED
  BY <1>2, <1>3

LEMMA RuntimeKeeps == TypeOK /\ AllLocated /\ [Next]_vars => TypeOK' /\ AllLocated'
<1> SUFFICES ASSUME TypeOK, AllLocated, [Next]_vars PROVE TypeOK' /\ AllLocated'
  OBVIOUS
<1>1. ASSUME NEW c \in Callers, Advance(c) PROVE TypeOK' /\ AllLocated'
  BY <1>1, ClaimKeeps, ConflictKeeps, RecheckKeeps, FindKeeps, PlanKeeps, NumberKeeps,
     InsertKeeps, GatewayKeeps, RunKeeps, ParkKeeps, RetryKeeps, FinalizeKeeps, LeaveKeeps
     DEF Advance
<1>2. ASSUME NEW c \in Callers, Raise(c) \/ Crash(c) \/ \E op \in Ops : Enter(c, op)
      PROVE  TypeOK' /\ AllLocated'
  BY <1>2, RaiseKeeps, CrashKeeps, EnterKeeps
<1>3. CASE Elsewhere
  BY <1>3, ElsewhereKeeps
<1> QED
  BY <1>1, <1>2, <1>3 DEF Next, Elsewhere

\* The steps, the lease and every call's record stay in their types.
THEOREM TypeCorrect == Spec => []TypeOK
<1>1. Init => TypeOK /\ AllLocated
  BY RuntimeInit DEF RuntimeInv
<1> QED
  BY <1>1, RuntimeKeeps, PTL DEF Spec

-----------------------------------------------------------------------------
(* Without zombies: only the owner is inside                                 *)

LEMMA ExclusiveKeeps ==
    ASSUME TypeOK, ~Zombies, Exclusive, [Next]_vars PROVE Exclusive'
<1>1. CASE UNCHANGED leaseVars
  BY <1>1 DEF leaseVars, Exclusive
<1>2. ASSUME NEW c \in Callers, Claim(c) PROVE Exclusive'
  <2>1. inside = {}
    BY <1>2, RuntimeAssumption DEF Claim, Stepping!Acquire, Exclusive, TypeOK, Stepping!LeaseTypeOK
  <2>2. owner' = c /\ inside' = {c} /\ ~stale'
    BY <1>2, <2>1 DEF Claim, Stepping!Acquire
  <2> QED
    BY <2>2 DEF Exclusive
<1>3. ASSUME NEW c \in Callers, Leave(c) PROVE Exclusive'
  BY <1>3 DEF Leave, Stepping!Release, Exclusive
<1>4. ASSUME NEW c \in Callers, Crash(c) PROVE Exclusive'
  BY <1>4 DEF Crash, Stepping!Die, Exclusive
<1>5. CASE Expire
  BY <1>5 DEF Expire, Stepping!Overrun, Exclusive
<1>6. ASSUME NEW c \in Callers, Advance(c), ~Claim(c), ~Leave(c) PROVE UNCHANGED leaseVars
  BY <1>6 DEF Advance, Conflict, Recheck, FindPending, Plan, ReadMaxSequence, InsertStep,
              CallGateway, RunDirectly, Park, Retry, Finalize
<1>7. ASSUME NEW c \in Callers, Raise(c) \/ \E op \in Ops : Enter(c, op) PROVE UNCHANGED leaseVars
  BY <1>7 DEF Raise, Enter
<1>8. CASE Elsewhere /\ ~Expire
  <2>1. UNCHANGED leaseVars
    BY <1>8 DEF Elsewhere, Cancel, Poll, Overrun, Resolve, Abandon, vars
  <2> QED
    BY <1>1, <2>1
<1> QED
  BY <1>1, <1>2, <1>3, <1>4, <1>5, <1>6, <1>7, <1>8 DEF Next, Elsewhere

-----------------------------------------------------------------------------
(* Without zombies: a planned effect is inserted once                        *)

\* The rows are still for the same tools.
SameTools ==
    /\ DOMAIN steps' = DOMAIN steps
    /\ \A i \in DOMAIN steps : /\ steps'[i].tool = steps[i].tool
                               /\ steps'[i].planned = steps[i].planned

Once == PlannedOnce /\ DecisionsHold

\* A call that moves without a new row, and decides nothing but a read or
\* what it had decided before.
LEMMA MovesKeepOnce ==
    ASSUME TypeOK, Once, SameTools, NEW c \in Callers, Moves(c),
           \/ call'[c].at \notin {"numbering", "inserting"}
           \/ call'[c].decision # "effect"
           \/ call'[c].op # "submit" => ~Attempted("effect")
    PROVE  Once'
<1>1. PlannedOnce'
  BY DEF Once, SameTools, PlannedOnce, PlannedEffect
<1>2. ~Attempted("effect") => ~Attempted("effect")'
  BY DEF SameTools, Attempted
<1>3. DecisionHolds(c)'
  BY <1>2 DEF DecisionHolds
<1>4. ASSUME NEW d \in Callers \ {c} PROVE DecisionHolds(d)'
  <2>1. call'[d] = call[d] /\ DecisionHolds(d)
    BY DEF Moves, TypeOK, Once, DecisionsHold
  <2> QED
    BY <1>2, <2>1 DEF DecisionHolds
<1> QED
  BY <1>1, <1>3, <1>4 DEF Once, DecisionsHold

LEMMA InsertKeepsOnce ==
    ASSUME TypeOK, AllLocated, Exclusive, Once, NEW c \in Callers, InsertStep(c)
    PROVE  Once'
<1>1. Moves(c) /\ call'[c].at \in {"leaving", "finalizing", "calling"}
  BY StepFacts, InsertMoves DEF AllLocated
<1>2. CASE call[c].next \in DOMAIN steps
  <2>1. SameTools
    BY <1>2 DEF InsertStep, SameTools
  <2> QED
    BY <1>1, <2>1, MovesKeepOnce
<1>3. CASE call[c].next \notin DOMAIN steps
  <2> DEFINE row == Row(call[c].decision, call[c].op)
  <2>1. steps' = Append(steps, row)
    BY <1>3 DEF InsertStep
  <2>2. /\ DOMAIN steps = 1 .. Len(steps) /\ DOMAIN steps' = 1 .. Len(steps) + 1
        /\ Len(steps) \in Nat
        /\ \A i \in DOMAIN steps : steps'[i] = steps[i]
        /\ steps'[Len(steps) + 1] = row
    BY <2>1, StepFacts, RowType
  <2>3. row.tool = call[c].decision /\ (row.planned <=> call[c].op # "submit")
    BY DEF Row
  <2>4. row.tool = "effect" /\ row.planned => \A i \in DOMAIN steps : ~PlannedEffect(i)
    <3>1. call[c].at = "inserting" /\ DecisionHolds(c)
      BY DEF InsertStep, At, Once, DecisionsHold
    <3> QED
      BY <2>3, <3>1 DEF DecisionHolds, Attempted, PlannedEffect
  <2>5. PlannedOnce'
    <3> SUFFICES ASSUME NEW i \in DOMAIN steps', NEW j \in DOMAIN steps',
                        PlannedEffect(i)', PlannedEffect(j)'
                 PROVE  i = j
      BY DEF PlannedOnce
    <3> HIDE DEF row
    <3>1. CASE i \in DOMAIN steps /\ j \in DOMAIN steps
      BY <2>2, <3>1 DEF Once, PlannedOnce, PlannedEffect
    <3>2. \A k \in DOMAIN steps' : k \in DOMAIN steps \/ k = Len(steps) + 1
      BY <2>2
    <3>3. CASE i \notin DOMAIN steps
      <4>1. i = Len(steps) + 1 /\ row.tool = "effect" /\ row.planned
        BY <2>2, <3>2, <3>3 DEF PlannedEffect
      <4> QED
        BY <2>2, <2>4, <3>2, <4>1 DEF PlannedEffect
    <3>4. CASE j \notin DOMAIN steps
      <4>1. j = Len(steps) + 1 /\ row.tool = "effect" /\ row.planned
        BY <2>2, <3>2, <3>4 DEF PlannedEffect
      <4> QED
        BY <2>2, <2>4, <3>2, <4>1 DEF PlannedEffect
    <3> QED
      BY <3>1, <3>3, <3>4
  <2>6. ASSUME NEW d \in Callers PROVE DecisionHolds(d)'
    <3>1. CASE d = c
      BY <1>1, <3>1 DEF DecisionHolds
    <3>2. CASE d # c
      <4>1. c \in inside
        BY DEF InsertStep, At, TypeOK
      <4>2. d \notin inside
        BY <3>2, <4>1 DEF Exclusive
      <4>3. call'[d] = call[d] /\ call[d].at \in {"idle", "claiming"}
        BY <1>1, <3>2, <4>2 DEF Moves, TypeOK
      <4> QED
        BY <4>3 DEF DecisionHolds
    <3> QED
      BY <3>1, <3>2
  <2> QED
    BY <2>5, <2>6 DEF Once, DecisionsHold
<1> QED
  BY <1>2, <1>3

LEMMA OnceKeeps ==
    ASSUME TypeOK, AllLocated, Exclusive, Once, [Next]_vars PROVE Once'
<1>1. ASSUME NEW c \in Callers, Plan(c) PROVE Once'
  <2>1. SameTools
    BY <1>1 DEF Plan, stepVars, SameTools
  <2>2. call'[c].op # "submit" /\ call'[c].decision = "effect" => ~Attempted("effect")
    BY <1>1, PlanMoves, StepFacts
  <2> QED
    BY <1>1, <2>1, <2>2, PlanMoves, StepFacts, MovesKeepOnce
<1>2. ASSUME NEW c \in Callers, ReadMaxSequence(c) PROVE Once'
  <2>1. SameTools
    BY <1>2 DEF ReadMaxSequence, stepVars, SameTools
  <2>2. /\ Moves(c) /\ call'[c].op = call[c].op /\ call'[c].decision = call[c].decision
    BY <1>2, NumberMoves, StepFacts
  <2>3. call[c].at = "numbering" /\ DecisionHolds(c)
    BY <1>2 DEF ReadMaxSequence, At, Once, DecisionsHold
  <2>4. call'[c].decision = "effect" /\ call'[c].op # "submit" => ~Attempted("effect")
    BY <2>2, <2>3 DEF DecisionHolds
  <2> QED
    BY <2>1, <2>2, <2>4, MovesKeepOnce
<1>3. ASSUME NEW c \in Callers, Retry(c) PROVE Once'
  <2>1. SameTools
    BY <1>3, ClosedRow DEF Retry, StepStatuses, SameTools
  <2> QED
    BY <1>3, <2>1, RetryMoves, StepFacts, MovesKeepOnce
<1>4. ASSUME NEW c \in Callers, Finalize(c) PROVE Once'
  <2>1. StepStatus(call[c].result) \in StepStatuses
    BY StepStatusType DEF TypeOK, Calls
  <2>2. SameTools
    BY <1>4, <2>1, ClosedRow DEF Finalize, SameTools
  <2> QED
    BY <1>4, <2>2, FinalizeMoves, StepFacts, MovesKeepOnce
<1>5. ASSUME NEW c \in Callers,
             \/ Claim(c) \/ Conflict(c) \/ Recheck(c) \/ FindPending(c) \/ CallGateway(c)
             \/ RunDirectly(c) \/ Park(c) \/ Leave(c) \/ Raise(c) \/ Crash(c)
             \/ \E op \in Ops : Enter(c, op)
      PROVE  Once'
  <2>1. SameTools
    BY <1>5 DEF Claim, Conflict, Recheck, FindPending, CallGateway, RunDirectly, Park, Leave,
                Raise, Crash, Enter, stepVars, SameTools
  <2>2. Moves(c) /\ call'[c].at \notin {"numbering", "inserting"}
    BY <1>5, ClaimMoves, ReturnMoves, RecheckMoves, FindMoves, GatewayMoves, RunMoves,
       ParkMoves, GoHomeMoves, EnterMoves, StepFacts DEF Conflict, Leave, Raise, Crash
  <2> QED
    BY <2>1, <2>2, MovesKeepOnce
<1>6. CASE Elsewhere
  <2>1. UNCHANGED <<steps, call>>
    BY <1>6, ElsewhereFacts DEF stepVars
  <2> QED
    BY <2>1 DEF Once, PlannedOnce, PlannedEffect, DecisionsHold, DecisionHolds, Attempted
<1> QED
  BY <1>1, <1>2, <1>3, <1>4, <1>5, <1>6, InsertKeepsOnce DEF Next, Elsewhere, Advance

LEMMA RuntimeInductive == RuntimeInv /\ [Next]_vars => RuntimeInv'
<1> SUFFICES ASSUME RuntimeInv, [Next]_vars PROVE RuntimeInv'
  OBVIOUS
<1>1. TypeOK /\ AllLocated /\ (~Zombies => Exclusive /\ Once)
  BY DEF RuntimeInv, Once
<1>2. TypeOK' /\ AllLocated'
  BY <1>1, RuntimeKeeps
<1>3. ~Zombies => Exclusive' /\ Once'
  BY <1>1, ExclusiveKeeps, OnceKeeps
<1> QED
  BY <1>2, <1>3 DEF RuntimeInv, Once

LEMMA OnceIsOnce == ASSUME PlannedOnce PROVE NoDoubleStep
<1> DEFINE acted == {i \in DOMAIN steps : steps[i].tool = "effect" /\ steps[i].planned /\ Ran(i)}
<1>1. \A i, j \in acted : i = j
  BY DEF PlannedOnce, PlannedEffect
<1>2. CASE acted = {}
  BY <1>2, FS_EmptySet DEF NoDoubleStep
<1>3. CASE acted # {}
  <2>1. PICK i : acted = {i}
    BY <1>1, <1>3
  <2>2. Cardinality(acted) = 1
    BY <2>1, FS_Singleton
  <2> QED
    BY <2>2 DEF NoDoubleStep
<1> QED
  BY <1>2, <1>3

\* When no call outlives its lease, the tool with side effects that the
\* planner decided on runs at most once, whatever calls race, crash, are
\* retried or resumed: the rows it decides by cannot change under it.
THEOREM OneRun == Spec => [](~Zombies => NoDoubleStep)
<1>1. RuntimeInv => (~Zombies => NoDoubleStep)
  BY OnceIsOnce DEF RuntimeInv
<1> QED
  BY <1>1, RuntimeInit, RuntimeInductive, PTL DEF Spec

-----------------------------------------------------------------------------
(* The runtime is an environment of the approval engine                      *)

\* What the engine sees of a step: one of its own, or nothing.
EngineStep == [Engine!Next]_Engine!vars

LEMMA EngineStands == ASSUME UNCHANGED engineVars PROVE EngineStep
  BY DEF engineVars, EngineStep, Engine!vars, Engine!rows, Engine!calls, Engine!history

LEMMA ParkIsEngineStep ==
    ASSUME TypeOK, AllLocated, NEW c \in Callers, Park(c) PROVE EngineStep
<1>1. call[c].row \in Positions
  BY StepFacts, RuntimeAssumption DEF Park, At, AllLocated, Located, Positions
<1>2. CASE Engine!CreateApproval(call[c].row)
  BY <1>1, <1>2 DEF EngineStep, Engine!Next
<1> QED
  BY <1>2, EngineStands DEF Park

LEMMA FinalizeIsEngineStep ==
    ASSUME TypeOK, NEW c \in Callers, Finalize(c) PROVE EngineStep
<1>1. CASE UNCHANGED engineVars
  BY <1>1, EngineStands
<1>2. CASE ~UNCHANGED engineVars
  <2>1. /\ Ends(call[c].result) /\ Ending /\ execution' = StepStatus(call[c].result)
        /\ UNCHANGED <<approval, request, trail, overdue, pc, subject,
                       approve, seen, outcome, runs, abandoned>>
    BY <1>2 DEF Finalize
  <2>2. call[c].result \in Results
    BY DEF TypeOK, Calls
  <2>3. Engine!Finish
    BY <2>1, <2>2, StepStatusType DEF Ending, Engine!Finish, Engine!calls, Engine!history
  <2> QED
    BY <2>3 DEF EngineStep, Engine!Next
<1> QED
  BY <1>1, <1>2

LEMMA RuntimeStepsTheEngine ==
    TypeOK /\ AllLocated /\ [Next]_vars => EngineStep
<1> SUFFICES ASSUME TypeOK, AllLocated, [Next]_vars PROVE EngineStep
  OBVIOUS
<1>1. ASSUME NEW c \in Callers, Advance(c), ~Park(c), ~Finalize(c) PROVE UNCHANGED engineVars
  BY <1>1 DEF Advance, Claim, Conflict, Recheck, FindPending, Plan, ReadMaxSequence,
              InsertStep, CallGateway, RunDirectly, Retry, Leave
<1>2. ASSUME NEW c \in Callers, Raise(c) \/ Crash(c) \/ \E op \in Ops : Enter(c, op)
      PROVE  UNCHANGED engineVars
  BY <1>2 DEF Raise, Crash, Enter
<1>3. CASE Expire \/ UNCHANGED vars \/ \E c \in Console : Poll(c)
  BY <1>3, EngineStands DEF Expire, Poll, vars
<1>4. CASE Cancel
  BY <1>4 DEF Cancel, EngineStep, Engine!Next
<1>5. ASSUME NEW i \in Positions, Overrun(i) PROVE EngineStep
  BY <1>5 DEF Overrun, EngineStep, Engine!Next
<1>6. ASSUME NEW r \in Resolvers, Resolve(r) \/ Abandon(r) PROVE EngineStep
  BY <1>6 DEF Resolve, Abandon, EngineStep, Engine!Next
<1> QED
  BY <1>1, <1>2, <1>3, <1>4, <1>5, <1>6, EngineStands, ParkIsEngineStep,
     FinalizeIsEngineStep DEF Next

\* Whatever the runtime does with the steps it parks, the approval engine sees
\* requests asked for once, an execution cancelled or finished while it runs,
\* and its own calls: what is proved of the engine holds under the runtime.
THEOREM RuntimeIsAnEnvironment == Spec => ImplementsEngine
<1>1. Init => Engine!Init
  BY DEF Init
<1>2. Init => TypeOK /\ AllLocated
  BY RuntimeInit DEF RuntimeInv
<1>3. TypeOK /\ AllLocated /\ [Next]_vars => [Engine!Next]_Engine!vars
  BY RuntimeStepsTheEngine DEF EngineStep
<1> QED
  BY <1>1, <1>2, <1>3, RuntimeKeeps, PTL DEF Spec, ImplementsEngine, Engine!Spec

-----------------------------------------------------------------------------
(* What is proved of the engine holds under the runtime                      *)

Proved == INSTANCE ApprovalEngine_proofs WITH Requests <- Positions, NoRequest <- 0

LEMMA NoPositionZero == 0 \notin Positions
  BY RuntimeAssumption DEF Positions

LEMMA EngineInitially == Init => Proved!EngineInv /\ Proved!OutcomeIsTrue
<1>1. Init => Proved!Init
  BY DEF Init, Engine!Init, Proved!Init
<1>2. Proved!Init => Proved!EngineInv
  BY NoPositionZero, Proved!EngineInit
<1>3. Proved!Init => Proved!OutcomeIsTrue
  BY DEF Proved!Init, Proved!OutcomeIsTrue
<1> QED
  BY <1>1, <1>2, <1>3

LEMMA SameEngine == EngineStep => [Proved!Next]_Proved!vars
  BY DEF EngineStep, Engine!Next, Proved!Next, Engine!vars, Proved!vars,
     Engine!Cancel, Proved!Cancel, Engine!Finish, Proved!Finish,
     Engine!CreateApproval, Proved!CreateApproval, Engine!Overrun, Proved!Overrun,
     Engine!ReadApproval, Proved!ReadApproval, Engine!ReadClock, Proved!ReadClock,
     Engine!CheckRequest, Proved!CheckRequest, Engine!CheckExecution, Proved!CheckExecution,
     Engine!Claim, Proved!Claim, Engine!ExpireClaim, Proved!ExpireClaim,
     Engine!LoadForExpiry, Proved!LoadForExpiry, Engine!ExpiryChunk, Proved!ExpiryChunk,
     Engine!RejectChunk, Proved!RejectChunk, Engine!Announce, Proved!Announce,
     Engine!Start, Proved!Start, Engine!RunTool, Proved!RunTool,
     Engine!OutcomeChunk, Proved!OutcomeChunk, Engine!Abandon, Proved!Abandon,
     Engine!Proceed, Proved!Proceed, Engine!rows, Proved!rows, Engine!calls, Proved!calls,
     Engine!history, Proved!history, Engine!Admit, Proved!Admit, Engine!Goto, Proved!Goto,
     Engine!Record, Proved!Record, Engine!Return, Proved!Return, Engine!Late, Proved!Late,
     Engine!Claimable, Proved!Claimable, Engine!Resumes, Proved!Resumes,
     Engine!Denied, Proved!Denied, Engine!RecordStart, Proved!RecordStart,
     Engine!Finals, Proved!Finals, Engine!Claimed, Proved!Claimed,
     Engine!Unclaimed, Proved!Unclaimed

\* The engine's own inductive invariants.
EngineHolds == Proved!EngineInv /\ Proved!OutcomeIsTrue

LEMMA EngineKeeps ==
    TypeOK /\ AllLocated /\ EngineHolds /\ [Next]_vars => EngineHolds'
<1> SUFFICES ASSUME TypeOK, AllLocated, EngineHolds, [Next]_vars PROVE EngineHolds'
  OBVIOUS
<1>1. [Proved!Next]_Proved!vars
  BY RuntimeStepsTheEngine, SameEngine
<1>2. Proved!EngineInv'
  BY <1>1, NoPositionZero, Proved!EngineStep DEF EngineHolds
<1>3. Proved!OutcomeIsTrue'
  BY <1>1, NoPositionZero, Proved!OutcomeStep DEF EngineHolds
<1> QED
  BY <1>2, <1>3 DEF EngineHolds

\* Carried out: the engine ran the parked tool, and it succeeded.
CarriedOut(i) == approval[i] = "EXECUTED" /\ request[i] = "EXECUTED"

\* What no step but the one that parks i does to its rows.
Keeps(i) ==
    /\ approval[i] = "NONE" <=> approval'[i] = "NONE"
    /\ approval[i] = "REJECTED" => approval'[i] = "REJECTED"
    /\ CarriedOut(i) => CarriedOut(i)'

LEMMA ElsewhereAnswers == ASSUME Elsewhere PROVE Proved!Answers
<1>1. CASE Expire \/ UNCHANGED vars \/ \E c \in Console : Poll(c)
  <2>1. UNCHANGED engineVars
    BY <1>1 DEF Expire, Poll, vars
  <2> QED
    BY <2>1 DEF engineVars, Proved!Answers, Proved!vars, Proved!rows, Proved!calls, Proved!history
<1>2. CASE ~Expire /\ ~UNCHANGED vars /\ ~\E c \in Console : Poll(c)
  BY <1>2 DEF Elsewhere, Cancel, Overrun, Resolve, Abandon, Proved!Answers,
     Engine!Cancel, Proved!Cancel, Engine!Overrun, Proved!Overrun,
     Engine!ReadApproval, Proved!ReadApproval, Engine!ReadClock, Proved!ReadClock,
     Engine!CheckRequest, Proved!CheckRequest, Engine!CheckExecution, Proved!CheckExecution,
     Engine!Claim, Proved!Claim, Engine!ExpireClaim, Proved!ExpireClaim,
     Engine!LoadForExpiry, Proved!LoadForExpiry, Engine!ExpiryChunk, Proved!ExpiryChunk,
     Engine!RejectChunk, Proved!RejectChunk, Engine!Announce, Proved!Announce,
     Engine!Start, Proved!Start, Engine!RunTool, Proved!RunTool,
     Engine!OutcomeChunk, Proved!OutcomeChunk, Engine!Abandon, Proved!Abandon,
     Engine!Proceed, Proved!Proceed, Engine!rows, Proved!rows, Engine!calls, Proved!calls,
     Engine!history, Proved!history, Engine!Goto, Proved!Goto,
     Engine!Record, Proved!Record, Engine!Return, Proved!Return, Engine!Late, Proved!Late,
     Engine!Claimable, Proved!Claimable, Engine!Resumes, Proved!Resumes,
     Engine!Denied, Proved!Denied, Engine!RecordStart, Proved!RecordStart,
     Engine!Claimed, Proved!Claimed, Engine!Unclaimed, Proved!Unclaimed
<1> QED
  BY <1>1, <1>2

LEMMA ElsewhereSettles ==
    ASSUME EngineHolds, Elsewhere, NEW i \in Positions
    PROVE  Keeps(i) /\ (Proved!Unsettled(i)' => Proved!Unsettled(i))
<1>1. /\ approval[i] = "NONE" <=> approval'[i] = "NONE"
      /\ approval[i] \in {"REJECTED", "EXPIRED", "EXECUTED"} => approval'[i] = approval[i]
      /\ approval[i] = "EXECUTED" => request'[i] = request[i]
      /\ Proved!Unsettled(i)' => Proved!Unsettled(i)
  BY ElsewhereAnswers, NoPositionZero, Proved!AnswersAreFinal DEF EngineHolds
<1> QED
  BY <1>1 DEF Keeps, CarriedOut

-----------------------------------------------------------------------------
(* A call that carries a step out has its row to itself                      *)

Bearing == {"calling", "running", "parking"}

\* The retry of a read still holds the row it is to replace.
Replacing(c) == call[c].at \in {"numbering", "inserting"} /\ call[c].retry

Owned(c) ==
    /\ call[c].row \in 0 .. Len(steps)
    /\ call[c].at \in Bearing \cup {"finalizing"} \/ Replacing(c) => call[c].row \in DOMAIN steps
    /\ call[c].at \in Bearing =>
          /\ steps[call[c].row].status = "PENDING"
          /\ \A d \in Callers \ {c} : call[d].row # call[c].row

AllOwned == \A c \in Callers : Owned(c)

\* A step of one call leaves the rows for their tools, and closes its own only.
Touches(c) ==
    /\ Moves(c)
    /\ DOMAIN steps \subseteq DOMAIN steps' /\ Len(steps) \in Nat /\ Len(steps') \in Nat
    /\ Len(steps) <= Len(steps')
    /\ \A i \in DOMAIN steps : /\ steps'[i].tool = steps[i].tool
                               /\ i # call[c].row => steps'[i].status = steps[i].status

LEMMA OwnedKeeps ==
    ASSUME TypeOK, AllOwned, NEW c \in Callers, Touches(c), Owned(c)',
           \A d \in Callers \ {c} : call[d].at \in Bearing => call'[c].row # call[d].row
    PROVE  AllOwned'
<1> SUFFICES ASSUME NEW d \in Callers \ {c} PROVE Owned(d)'
  BY DEF AllOwned
<1>1. call'[d] = call[d] /\ Owned(d)
  BY DEF Touches, Moves, TypeOK, AllOwned
<1>2. call'[d].row \in 0 .. Len(steps')
  BY <1>1 DEF Owned, Touches
<1>3. call'[d].at \in Bearing \cup {"finalizing"} \/ Replacing(d)' => call'[d].row \in DOMAIN steps'
  BY <1>1 DEF Owned, Replacing, Touches
<1>4. ASSUME call'[d].at \in Bearing
      PROVE  /\ steps'[call'[d].row].status = "PENDING"
             /\ \A e \in Callers \ {d} : call'[e].row # call'[d].row
  <2>1. /\ call[d].row \in DOMAIN steps /\ steps[call[d].row].status = "PENDING"
        /\ \A e \in Callers \ {d} : call[e].row # call[d].row
    BY <1>1, <1>4 DEF Owned
  <2>2. steps'[call[d].row].status = "PENDING"
    BY <2>1 DEF Touches
  <2>3. ASSUME NEW e \in Callers \ {d} PROVE call'[e].row # call[d].row
    <3>1. CASE e = c
      BY <1>1, <1>4, <3>1
    <3>2. CASE e # c
      BY <2>1, <3>2 DEF Touches, Moves, TypeOK
    <3> QED
      BY <3>1, <3>2
  <2> QED
    BY <1>1, <2>2, <2>3
<1> QED
  BY <1>2, <1>3, <1>4 DEF Owned

LEMMA SameStepsTouch ==
    ASSUME TypeOK, NEW c \in Callers, Moves(c), UNCHANGED steps PROVE Touches(c)
  BY StepFacts DEF Touches

LEMMA CloseTouches ==
    ASSUME TypeOK, NEW c \in Callers, Moves(c), NEW status \in StepStatuses,
           Close(call[c].row, status)
    PROVE  Touches(c)
<1> DEFINE i == call[c].row
<1>1. ASSUME NEW j \in DOMAIN steps, j # i PROVE steps'[j].status = steps[j].status
  BY <1>1, StepFacts DEF Close
<1> QED
  BY <1>1, ClosedRow, StepFacts DEF Touches

\* A call that keeps its row, or drops it, takes nobody else's.
LEMMA KeepsItsRow ==
    ASSUME TypeOK, AllOwned, NEW c \in Callers, call'[c].row \in {0, call[c].row}
    PROVE  \A d \in Callers \ {c} : call[d].at \in Bearing => call'[c].row # call[d].row
<1> SUFFICES ASSUME NEW d \in Callers \ {c}, call[d].at \in Bearing
             PROVE  call'[c].row # call[d].row
  OBVIOUS
<1>1. call[d].row \in DOMAIN steps /\ call[c].row # call[d].row
  BY DEF AllOwned, Owned
<1>2. call[d].row # 0
  BY <1>1, StepFacts
<1> QED
  BY <1>1, <1>2

\* The steps that move a call without touching a row or closing one.
Wanders(c) ==
    \/ Claim(c) \/ Conflict(c) \/ Recheck(c) \/ Plan(c) \/ ReadMaxSequence(c) \/ Leave(c)
    \/ Raise(c) \/ Crash(c)
    \/ \E op \in Ops : Enter(c, op)

LEMMA HomeRow ==
    /\ Idle.row = 0 /\ [Idle EXCEPT !.at = "leaving"].row = 0
    /\ [Idle EXCEPT !.at = "planning", !.op = "resume"].row = 0
  BY DEF Idle

\* A step that moves a call out of, or past, the carrying out of a row.
Quiet(c) ==
    /\ Moves(c) /\ call'[c].row \in {0, call[c].row}
    /\ call'[c].at \notin Bearing \cup {"finalizing"}
    /\ Replacing(c)' => Replacing(c) /\ call'[c].row = call[c].row
    /\ UNCHANGED <<engineVars, stepVars>>

LEMMA HomeIsQuiet ==
    ASSUME TypeOK, NEW c \in Callers, GoHome(c), UNCHANGED <<engineVars, stepVars>>
    PROVE  Quiet(c)
<1>1. Moves(c) /\ call'[c].at = "leaving"
  BY StepFacts, GoHomeMoves
<1>2. call'[c].row = 0
  BY StepFacts, HomeRow DEF GoHome, Types
<1> QED
  BY <1>1, <1>2 DEF Quiet, Replacing, Bearing

LEMMA WandersAbout ==
    ASSUME TypeOK, NEW c \in Callers, Wanders(c)
    PROVE  Quiet(c)
<1> USE DEF Quiet, Replacing
<1>1. UNCHANGED <<engineVars, stepVars>>
  BY DEF Wanders, Claim, Conflict, Recheck, Plan, ReadMaxSequence, Leave, Raise, Crash, Enter
<1>2. Types /\ Len(steps) \in Nat /\ Len(steps) <= Rows
  BY StepFacts
<1>3. CASE GoHome(c) \/ call' = [call EXCEPT ![c] = Idle]
  <2>1. Moves(c) /\ call'[c].at \in {"leaving", "idle"}
    BY <1>2, <1>3, GoHomeMoves, ReturnMoves
  <2>2. call'[c].row = 0
    BY <1>2, <1>3, HomeRow DEF GoHome, Types
  <2> QED
    BY <1>1, <2>1, <2>2 DEF Bearing
<1>4. CASE Claim(c)
  BY <1>1, <1>2, <1>4, GotoMoves DEF Claim, Labels, Bearing
<1>5. CASE Recheck(c)
  <2>1. Moves(c) /\ call'[c].at \in {"leaving", "finding", "planning"}
    BY <1>2, <1>5, RecheckMoves
  <2>2. CASE ~GoHome(c)
    BY <1>1, <1>2, <1>5, <2>1, <2>2 DEF Recheck, Goto, Types, Calls, Bearing
  <2> QED
    BY <1>3, <2>2
<1>6. CASE Plan(c)
  <2>1. Moves(c) /\ call'[c].at = "numbering"
    BY <1>2, <1>6, PlanMoves
  <2>2. call'[c].row = call[c].row /\ ~call'[c].retry
    BY <1>2, <1>6 DEF Plan, Types, Calls
  <2> QED
    BY <1>1, <2>1, <2>2 DEF Bearing
<1>7. CASE ReadMaxSequence(c)
  <2>1. Moves(c) /\ call'[c].at = "inserting"
    BY <1>2, <1>7, NumberMoves
  <2>2. /\ call'[c].row = call[c].row /\ call'[c].retry = call[c].retry
        /\ call[c].at = "numbering"
    BY <1>2, <1>7 DEF ReadMaxSequence, At, Types, Calls
  <2> QED
    BY <1>1, <2>1, <2>2 DEF Bearing
<1>8. ASSUME NEW op \in Ops, Enter(c, op) PROVE Moves(c) /\ call'[c].at = "claiming" /\ call'[c].row = call[c].row
  <2>1. Moves(c) /\ call'[c].at = "claiming"
    BY <1>2, <1>8, EnterMoves
  <2>2. call'[c].row = call[c].row
    BY <1>2, <1>8 DEF Enter, Types, Calls
  <2> QED
    BY <2>1, <2>2
<1>9. CASE \E op \in Ops : Enter(c, op)
  BY <1>1, <1>8, <1>9 DEF Bearing
<1>10. Conflict(c) \/ Leave(c) \/ Raise(c) \/ Crash(c) => GoHome(c) \/ call' = [call EXCEPT ![c] = Idle]
  BY DEF Conflict, Leave, Raise, Crash
<1> QED
  BY <1>3, <1>4, <1>5, <1>6, <1>7, <1>9, <1>10 DEF Wanders

LEMMA QuietOwned ==
    ASSUME TypeOK, AllOwned, NEW c \in Callers, Quiet(c) PROVE AllOwned' /\ Touches(c)
<1>1. /\ Moves(c) /\ call'[c].row \in {0, call[c].row}
      /\ call'[c].at \notin Bearing \cup {"finalizing"} /\ steps' = steps
      /\ Replacing(c)' => Replacing(c) /\ call'[c].row = call[c].row
  BY DEF Quiet, stepVars
<1>2. Touches(c)
  BY <1>1, SameStepsTouch
<1>3. Owned(c)'
  BY <1>1, StepFacts DEF AllOwned, Owned
<1> QED
  BY <1>1, <1>2, <1>3, KeepsItsRow, OwnedKeeps

-----------------------------------------------------------------------------
(* What a call is about to record, and what the rows record, is so           *)

Refused(i) == i \notin ran /\ approval[i] \in {"NONE", "REJECTED"}

Believes(c) ==
    LET i == call[c].row
        result == call[c].result
    IN /\ call[c].at \in Bearing => i \notin ran /\ approval[i] = "NONE"
       /\ call[c].at = "finalizing" =>
             /\ result = "EXECUTED" => i \in ran
             /\ result = "RESUMED" => CarriedOut(i)
             /\ result = "COMPLETE" => steps[i].tool \notin Tools
             /\ result = "REQUIRES_APPROVAL" => approval[i] # "NONE"
             /\ result = "BLOCKED" => Refused(i)

RowTells(i) ==
    /\ i \in ran => approval[i] = "NONE"
    /\ steps[i].status = "COMPLETED" /\ steps[i].tool \in Tools => i \in ran \/ CarriedOut(i)
    /\ steps[i].status = "BLOCKED" => Refused(i)
    /\ steps[i].status = "WAITING_APPROVAL" => approval[i] # "NONE"

RowsTell ==
    /\ \A c \in Callers : Believes(c)
    /\ \A i \in DOMAIN steps : RowTells(i)
    /\ \A i \in Positions : approval[i] # "NONE" => i \in DOMAIN steps

\* What befalls a row that is not the stepping call's own.
Spared(i) == Keeps(i) /\ (i \in ran <=> i \in ran')

LEMMA RowsArePositions == ASSUME TypeOK PROVE DOMAIN steps \subseteq Positions
  BY StepFacts, RuntimeAssumption DEF Positions

\* A step of one call, when what it does to its own row, or to a new one, and
\* what it then believes is right.
LEMMA TellingKeeps ==
    ASSUME TypeOK, AllOwned, RowsTell, NEW c \in Callers, Touches(c), Believes(c)',
           \A i \in Positions : Spared(i) \/ (i = call[c].row /\ call[c].at \in Bearing),
           \A i \in DOMAIN steps' : (i \in DOMAIN steps /\ i # call[c].row) \/ RowTells(i)'
    PROVE  RowsTell'
<1>1. ASSUME NEW d \in Callers \ {c} PROVE Believes(d)'
  <2>1. call'[d] = call[d] /\ Believes(d) /\ Owned(d)
    BY DEF Touches, Moves, TypeOK, RowsTell, AllOwned
  <2>2. CASE call[d].at \in Bearing \cup {"finalizing"}
    <3>1. call[d].row \in DOMAIN steps /\ call[d].row \in Positions
      BY <2>1, <2>2, RowsArePositions DEF Owned
    <3>2. Spared(call[d].row)
      <4>1. call[c].at \in Bearing => call[d].row # call[c].row
        BY DEF AllOwned, Owned
      <4> QED
        BY <3>1, <4>1
    <3>3. steps'[call[d].row].tool = steps[call[d].row].tool
      BY <3>1 DEF Touches
    <3> QED
      BY <2>1, <3>2, <3>3 DEF Believes, Spared, Keeps, Refused
  <2>3. CASE call[d].at \notin Bearing \cup {"finalizing"}
    BY <2>1, <2>3 DEF Believes
  <2> QED
    BY <2>2, <2>3
<1>2. ASSUME NEW i \in DOMAIN steps' PROVE RowTells(i)'
  <2>1. CASE i \in DOMAIN steps /\ i # call[c].row
    <3>1. Spared(i) /\ RowTells(i) /\ steps'[i].tool = steps[i].tool
          /\ steps'[i].status = steps[i].status
      BY <2>1, RowsArePositions DEF RowsTell, Touches
    <3> QED
      BY <3>1 DEF RowTells, Spared, Keeps, Refused
  <2> QED
    BY <2>1
<1>3. ASSUME NEW i \in Positions, approval'[i] # "NONE" PROVE i \in DOMAIN steps'
  <2>1. CASE Spared(i)
    BY <1>3, <2>1 DEF Spared, Keeps, RowsTell, Touches
  <2>2. CASE i = call[c].row /\ call[c].at \in Bearing
    BY <2>2 DEF AllOwned, Owned, Touches
  <2> QED
    BY <2>1, <2>2
<1> QED
  BY <1>1, <1>2, <1>3 DEF RowsTell

LEMMA UnchangedSpares ==
    ASSUME UNCHANGED <<approval, request, ran>> PROVE \A i \in Positions : Spared(i)
  BY DEF Spared, Keeps, CarriedOut

LEMMA QuietTells ==
    ASSUME TypeOK, AllOwned, RowsTell, NEW c \in Callers, Quiet(c) PROVE RowsTell'
<1>1. Touches(c) /\ UNCHANGED <<approval, request, ran, steps>>
      /\ call'[c].at \notin Bearing \cup {"finalizing"}
  BY QuietOwned DEF Quiet, engineVars, stepVars
<1>2. Believes(c)'
  BY <1>1 DEF Believes
<1>3. \A i \in DOMAIN steps' : RowTells(i)'
  BY <1>1 DEF RowsTell, RowTells, Refused, CarriedOut
<1> QED
  BY <1>1, <1>2, <1>3, UnchangedSpares, TellingKeeps

LEMMA ElsewhereTells ==
    ASSUME TypeOK, EngineHolds, AllOwned, RowsTell, Elsewhere PROVE AllOwned' /\ RowsTell'
<1>1. UNCHANGED <<steps, call, ran>>
  BY ElsewhereFacts DEF stepVars
<1>2. \A i \in Positions : Spared(i)
  BY <1>1, ElsewhereSettles DEF Spared
<1>3. AllOwned'
  BY <1>1 DEF AllOwned, Owned, Replacing
<1>4. ASSUME NEW c \in Callers PROVE Believes(c)'
  <2>1. Believes(c) /\ Owned(c) /\ call'[c] = call[c]
    BY <1>1 DEF RowsTell, AllOwned
  <2>2. CASE call[c].at \in Bearing \cup {"finalizing"}
    <3>1. Spared(call[c].row)
      BY <1>2, <2>1, <2>2, RowsArePositions DEF Owned
    <3> QED
      BY <1>1, <2>1, <3>1 DEF Believes, Spared, Keeps, Refused
  <2>3. CASE call[c].at \notin Bearing \cup {"finalizing"}
    BY <2>1, <2>3 DEF Believes
  <2> QED
    BY <2>2, <2>3
<1>5. ASSUME NEW i \in DOMAIN steps PROVE RowTells(i)'
  <2>1. Spared(i) /\ RowTells(i)
    BY <1>2, RowsArePositions DEF RowsTell
  <2> QED
    BY <1>1, <2>1 DEF RowTells, Spared, Keeps, Refused
<1>6. \A i \in Positions : approval'[i] # "NONE" => i \in DOMAIN steps'
  BY <1>1, <1>2 DEF Spared, Keeps, RowsTell
<1> QED
  BY <1>1, <1>3, <1>4, <1>5, <1>6 DEF RowsTell

LEMMA FindTells ==
    ASSUME TypeOK, AllOwned, RowsTell, NEW c \in Callers, FindPending(c)
    PROVE  AllOwned' /\ RowsTell'
<1>1. UNCHANGED <<engineVars, stepVars>>
  BY DEF FindPending
<1>2. CASE GoHome(c)
  BY <1>1, <1>2, HomeIsQuiet, QuietOwned, QuietTells
<1>3. ASSUME NEW i \in LatestWaiting, Resolved(i),
             call' = [call EXCEPT ![c].at = "finalizing", ![c].row = i,
                                  ![c].result = Resolution(i)]
      PROVE  AllOwned' /\ RowsTell'
  <2>1. i \in DOMAIN steps /\ steps[i].status = "WAITING_APPROVAL"
    BY DEF LatestWaiting, Waits
  <2>2. /\ call'[c].at = "finalizing" /\ call'[c].row = i /\ call'[c].result = Resolution(i)
        /\ Moves(c)
    <3>1. call'[c].at = "finalizing" /\ call'[c].row = i /\ call'[c].result = Resolution(i)
      BY <1>3, StepFacts DEF Types, Calls
    <3>2. call'[c].at # "leaving"
      BY <3>1
    <3>3. i \in 0 .. Rows
      BY <2>1, StepFacts, RuntimeAssumption
    <3>4. Resolution(i) \in Results
      BY <1>3 DEF Resolved, Resolution, Results
    <3> QED
      BY <1>3, <3>1, <3>3, <3>4, StepFacts DEF Moves, Types, Calls, Labels
  <2>3. Touches(c)
    BY <1>1, <2>2, SameStepsTouch DEF stepVars
  <2>4. Owned(c)'
    BY <1>1, <2>1, <2>2, StepFacts DEF Owned, stepVars, Bearing
  <2>5. \A d \in Callers \ {c} : call[d].at \in Bearing => call'[c].row # call[d].row
    BY <2>1, <2>2 DEF AllOwned, Owned
  <2>6. Resolution(i) = "RESUMED" => CarriedOut(i)
    BY <1>3 DEF Resolved, Resolution, CarriedOut
  <2>7. Resolution(i) = "BLOCKED" => Refused(i)
    <3>1. approval[i] # "NONE" /\ i \notin ran
      BY <1>3, <2>1 DEF Resolved, RowsTell, RowTells
    <3> QED
      BY <1>3, <3>1 DEF Resolved, Resolution, Refused
  <2>8. Resolution(i) \notin {"EXECUTED", "COMPLETE", "REQUIRES_APPROVAL"}
    BY <1>3 DEF Resolved, Resolution
  <2>9. Believes(c)'
    <3>1. UNCHANGED <<approval, request, ran, steps>>
      BY <1>1 DEF engineVars, stepVars
    <3> QED
      BY <2>2, <2>6, <2>7, <2>8, <3>1 DEF Believes, Bearing, Refused, CarriedOut
  <2>10. \A j \in DOMAIN steps' : RowTells(j)'
    BY <1>1 DEF RowsTell, RowTells, Refused, CarriedOut, engineVars, stepVars
  <2>11. \A j \in Positions : Spared(j)
    BY <1>1, UnchangedSpares DEF engineVars, stepVars
  <2> QED
    BY <2>3, <2>4, <2>5, <2>9, <2>10, <2>11, OwnedKeeps, TellingKeeps
<1> QED
  BY <1>2, <1>3 DEF FindPending

\* A call that records what it got from the gateway stays with its row.
LEMMA ResultOwned ==
    ASSUME TypeOK, AllOwned, NEW c \in Callers, NEW result \in Results, Result(c, result),
           call[c].at \in Bearing, UNCHANGED steps
    PROVE  /\ AllOwned' /\ Touches(c)
           /\ call'[c].at = "finalizing" /\ call'[c].row = call[c].row /\ call'[c].result = result
<1>1. Moves(c) /\ call'[c].at = "finalizing" /\ call'[c].row = call[c].row
  BY StepFacts, ResultMoves
<1>2. call'[c].result = result
  BY StepFacts DEF Result, Types, Calls
<1>3. Touches(c)
  BY <1>1, SameStepsTouch
<1>4. Owned(c)'
  BY <1>1 DEF AllOwned, Owned, Bearing
<1> QED
  BY <1>1, <1>2, <1>3, <1>4, KeepsItsRow, OwnedKeeps

LEMMA GatewayTells ==
    ASSUME TypeOK, AllOwned, RowsTell, NEW c \in Callers, CallGateway(c)
    PROVE  AllOwned' /\ RowsTell'
<1>1. UNCHANGED <<approval, request, ran, steps>> /\ call[c].at = "calling"
  BY DEF CallGateway, At, engineVars
<1>2. \A j \in Positions : Spared(j)
  BY <1>1, UnchangedSpares
<1>3. \A j \in DOMAIN steps' : RowTells(j)'
  BY <1>1 DEF RowsTell, RowTells, Refused, CarriedOut
<1>4. call[c].row \notin ran /\ approval[call[c].row] = "NONE"
  BY <1>1 DEF RowsTell, Believes, Bearing
<1>5. ASSUME NEW result \in {"BLOCKED", "FAILED"}, Result(c, result) PROVE AllOwned' /\ RowsTell'
  <2>1. result \in Results
    BY DEF Results
  <2>2. /\ AllOwned' /\ Touches(c)
        /\ call'[c].at = "finalizing" /\ call'[c].row = call[c].row /\ call'[c].result = result
    BY <1>1, <1>5, <2>1, ResultOwned DEF Bearing
  <2>3. Believes(c)'
    BY <1>1, <1>4, <2>2 DEF Believes, Bearing, Refused
  <2> QED
    BY <1>2, <1>3, <2>2, <2>3, TellingKeeps
<1>6. ASSUME NEW label \in {"running", "parking"}, Goto(c, label) PROVE AllOwned' /\ RowsTell'
  <2>1. label \in Labels
    BY DEF Labels
  <2>2. Moves(c) /\ call'[c].at = label /\ call'[c].row = call[c].row
    BY <1>6, <2>1, StepFacts, GotoMoves
  <2>3. Touches(c)
    BY <1>1, <2>2, SameStepsTouch
  <2>4. Owned(c)'
    <3>1. /\ call[c].row \in DOMAIN steps /\ steps[call[c].row].status = "PENDING"
          /\ call[c].row \in 0 .. Len(steps)
          /\ \A d \in Callers \ {c} : call[d].row # call[c].row
      BY <1>1 DEF AllOwned, Owned, Bearing
    <3>2. \A d \in Callers \ {c} : call'[d] = call[d]
      BY <2>2 DEF Moves, TypeOK
    <3> QED
      BY <1>1, <2>2, <3>1, <3>2 DEF Owned
  <2>5. Believes(c)'
    BY <1>1, <1>4, <2>2 DEF Believes
  <2> QED
    BY <1>2, <1>3, <2>2, <2>3, <2>4, <2>5, KeepsItsRow, OwnedKeeps, TellingKeeps
<1> QED
  BY <1>5, <1>6 DEF CallGateway

LEMMA RunTells ==
    ASSUME TypeOK, AllOwned, RowsTell, NEW c \in Callers, RunDirectly(c)
    PROVE  AllOwned' /\ RowsTell'
<1>0. PICK i : i = call[c].row
  OBVIOUS
<1>1. UNCHANGED <<approval, request, steps>> /\ call[c].at = "running" /\ call[c].at \in Bearing
  BY DEF RunDirectly, At, engineVars, Bearing
<1>2. /\ i \notin ran /\ approval[i] = "NONE" /\ i \in DOMAIN steps
      /\ steps[i].status = "PENDING"
  BY <1>0, <1>1 DEF RowsTell, Believes, AllOwned, Owned
<1>3. PICK result \in {"EXECUTED", "FAILED"} :
          /\ Result(c, result)
          /\ ran' = ran \cup {i} \/ (ran' = ran /\ result = "FAILED")
  BY <1>0 DEF RunDirectly
<1>4. result \in Results
  BY DEF Results
<1>5. /\ AllOwned' /\ Touches(c)
      /\ call'[c].at = "finalizing" /\ call'[c].row = i /\ call'[c].result = result
  BY <1>0, <1>1, <1>3, <1>4, ResultOwned
<1>6. Believes(c)'
  BY <1>1, <1>3, <1>5 DEF Believes, Bearing
<1>7. \A j \in Positions : Spared(j) \/ (j = i /\ call[c].at \in Bearing)
  BY <1>1, <1>3 DEF Spared, Keeps, CarriedOut
<1>8. RowTells(i)'
  BY <1>1, <1>2 DEF RowTells
<1>9. \A j \in DOMAIN steps' : (j \in DOMAIN steps /\ j # i) \/ RowTells(j)'
  BY <1>1, <1>8
<1> QED
  BY <1>5, <1>6, <1>7, <1>9, <1>0, TellingKeeps

LEMMA ParkTells ==
    ASSUME TypeOK, EngineHolds, AllOwned, RowsTell, NEW c \in Callers, Park(c)
    PROVE  AllOwned' /\ RowsTell'
<1>0. PICK i : i = call[c].row
  OBVIOUS
<1>1. UNCHANGED <<ran, steps>> /\ call[c].at = "parking" /\ call[c].at \in Bearing
  BY DEF Park, At, stepVars, Bearing
<1>2. /\ i \notin ran /\ approval[i] = "NONE" /\ i \in DOMAIN steps
      /\ steps[i].status = "PENDING" /\ i \in Positions
  BY <1>0, <1>1, RowsArePositions DEF RowsTell, Believes, AllOwned, Owned
<1>3. CASE Engine!CreateApproval(i) /\ Result(c, "REQUIRES_APPROVAL")
  <2>1. "REQUIRES_APPROVAL" \in Results
    BY DEF Results
  <2>2. /\ AllOwned' /\ Touches(c) /\ call'[c].at = "finalizing" /\ call'[c].row = i
        /\ call'[c].result = "REQUIRES_APPROVAL"
    BY <1>0, <1>1, <1>3, <2>1, ResultOwned
  <2>3. /\ approval' = [approval EXCEPT ![i] = "PENDING"]
        /\ request' = [request EXCEPT ![i] = "REQUIRES_APPROVAL"]
    BY <1>3 DEF Engine!CreateApproval
  <2>4. approval \in [Positions -> Proved!ApprovalStatuses]
    BY DEF EngineHolds, Proved!EngineInv, Proved!TypeOK
  <2>5. approval'[i] = "PENDING"
    BY <1>2, <2>3, <2>4
  <2>6. request \in [Positions -> Proved!RequestStatuses]
    BY DEF EngineHolds, Proved!EngineInv, Proved!TypeOK
  <2>7. \A j \in Positions : Spared(j) \/ (j = i /\ call[c].at \in Bearing)
    BY <1>1, <2>3, <2>4, <2>6 DEF Spared, Keeps, CarriedOut
  <2>8. Believes(c)'
    BY <2>2, <2>5 DEF Believes, Bearing
  <2>9. RowTells(i)'
    BY <1>1, <1>2, <2>5 DEF RowTells
  <2>10. \A j \in DOMAIN steps' : (j \in DOMAIN steps /\ j # i) \/ RowTells(j)'
    BY <1>1, <2>9
  <2> QED
    BY <2>2, <2>7, <2>8, <2>10, <1>0, TellingKeeps
<1>4. CASE UNCHANGED engineVars /\ Result(c, "FAILED")
  <2>1. "FAILED" \in Results
    BY DEF Results
  <2>2. /\ AllOwned' /\ Touches(c) /\ call'[c].at = "finalizing" /\ call'[c].row = i
        /\ call'[c].result = "FAILED"
    BY <1>0, <1>1, <1>4, <2>1, ResultOwned
  <2>3. Believes(c)'
    BY <2>2 DEF Believes, Bearing
  <2>4. \A j \in Positions : Spared(j)
    BY <1>1, <1>4, UnchangedSpares DEF engineVars
  <2>5. \A j \in DOMAIN steps' : RowTells(j)'
    BY <1>1, <1>4 DEF RowsTell, RowTells, Refused, CarriedOut, engineVars
  <2> QED
    BY <2>2, <2>3, <2>4, <2>5, TellingKeeps
<1> QED
  BY <1>0, <1>3, <1>4 DEF Park

\* Closing a row records what its call believes.
LEMMA ClosedAs ==
    ASSUME TypeOK, NEW i \in DOMAIN steps, NEW status \in StepStatuses, Close(i, status)
    PROVE  steps'[i].status = status /\ steps'[i].tool = steps[i].tool
<1>1. steps \in Seq(StepRows)
  BY StepFacts
<1>2. steps' = [steps EXCEPT ![i] = [steps[i] EXCEPT !.status = status]]
  BY DEF Close
<1>3. steps'[i] = [steps[i] EXCEPT !.status = status] /\ steps[i] \in StepRows
  BY <1>1, <1>2
<1> QED
  BY <1>3 DEF StepRows

LEMMA CloseTells ==
    ASSUME TypeOK, AllOwned, RowsTell, NEW c \in Callers, call[c].at = "finalizing", Moves(c),
           call'[c].row \in {0, call[c].row}, call'[c].at \notin Bearing \cup {"finalizing"},
           Replacing(c)' => call'[c].row = call[c].row,
           NEW status \in StepStatuses, Close(call[c].row, status),
           UNCHANGED <<approval, request, ran>>,
           \/ status = "FAILED"
           \/ status = StepStatus(call[c].result)
    PROVE  AllOwned' /\ RowsTell'
<1>0. PICK i : i = call[c].row
  OBVIOUS
<1>1. i \in DOMAIN steps /\ Believes(c) /\ RowTells(i)
  BY <1>0 DEF AllOwned, Owned, RowsTell
<1>2. Touches(c)
  BY CloseTouches
<1>3. Owned(c)'
  BY <1>0, <1>1, <1>2, StepFacts DEF Owned, Touches, AllOwned
<1>4. AllOwned'
  BY <1>2, <1>3, KeepsItsRow, OwnedKeeps
<1>5. Believes(c)'
  BY DEF Believes
<1>6. steps'[i].status = status /\ steps'[i].tool = steps[i].tool
  BY <1>0, <1>1, ClosedAs
<1>7. call[c].result \in Results
  BY DEF TypeOK, Calls
<1>8. /\ status = "COMPLETED" => call[c].result \in {"EXECUTED", "RESUMED", "COMPLETE"}
      /\ status = "WAITING_APPROVAL" => call[c].result = "REQUIRES_APPROVAL"
      /\ status = "BLOCKED" => call[c].result = "BLOCKED"
  BY <1>7 DEF StepStatus, Results
<1>9. RowTells(i)'
  BY <1>0, <1>1, <1>6, <1>8 DEF RowTells, Believes, Refused, CarriedOut
<1>10. \A j \in Positions : Spared(j)
  BY UnchangedSpares
<1>11. \A j \in DOMAIN steps' : (j \in DOMAIN steps /\ j # call[c].row) \/ RowTells(j)'
  <2>1. DOMAIN steps' = DOMAIN steps
    BY ClosedRow
  <2> QED
    BY <1>0, <1>9, <2>1
<1> QED
  BY <1>2, <1>4, <1>5, <1>10, <1>11, TellingKeeps

LEMMA RetryTells ==
    ASSUME TypeOK, AllOwned, RowsTell, NEW c \in Callers, Retry(c) PROVE AllOwned' /\ RowsTell'
<1>1. Moves(c) /\ call'[c].at = "numbering"
  BY StepFacts, RetryMoves
<1>2. call'[c].row = call[c].row
  BY StepFacts DEF Retry, Types, Calls
<1>3. UNCHANGED <<approval, request, ran>>
  BY DEF Retry, engineVars
<1> QED
  BY <1>1, <1>2, <1>3, CloseTells DEF Retry, At, StepStatuses, Bearing

LEMMA FinalizeTells ==
    ASSUME TypeOK, AllOwned, RowsTell, NEW c \in Callers, Finalize(c)
    PROVE  AllOwned' /\ RowsTell'
<1>1. Moves(c) /\ call'[c].at \in {"leaving", "planning"}
  BY StepFacts, FinalizeMoves
<1>2. call'[c].row = 0
  BY StepFacts, HomeRow DEF Finalize, GoHome, Types
<1>3. StepStatus(call[c].result) \in StepStatuses
  BY StepStatusType DEF TypeOK, Calls
<1>4. UNCHANGED <<approval, request, ran>>
  BY DEF Finalize, engineVars
<1> QED
  BY <1>1, <1>2, <1>3, <1>4, CloseTells DEF Finalize, At, Bearing, Replacing

LEMMA InsertTells ==
    ASSUME TypeOK, AllLocated, AllOwned, RowsTell, NEW c \in Callers, InsertStep(c)
    PROVE  AllOwned' /\ RowsTell'
<1>1. UNCHANGED <<engineVars, made, ran, announced>> /\ call[c].at = "inserting"
  BY DEF InsertStep, At
<1>2. CASE call[c].next \in DOMAIN steps /\ ~call[c].retry
  BY <1>1, <1>2, HomeIsQuiet, QuietOwned, QuietTells DEF InsertStep, stepVars
<1>3. CASE call[c].next \in DOMAIN steps /\ call[c].retry
  <2>1. Result(c, "FAILED") /\ UNCHANGED steps /\ "FAILED" \in Results
    BY <1>3 DEF InsertStep, Results
  <2>2. Moves(c) /\ call'[c].at = "finalizing" /\ call'[c].row = call[c].row
    BY <2>1, StepFacts, ResultMoves
  <2>3. call'[c].result = "FAILED"
    BY <2>1, StepFacts DEF Result, Types, Calls
  <2>4. call[c].row \in DOMAIN steps
    BY <1>1, <1>3 DEF AllOwned, Owned, Replacing
  <2>5. Touches(c)
    BY <2>1, <2>2, SameStepsTouch
  <2>6. Owned(c)'
    BY <2>1, <2>2, <2>4, StepFacts DEF Owned, Replacing, Bearing, AllOwned
  <2>7. Believes(c)'
    BY <2>2, <2>3 DEF Believes, Bearing
  <2>8. \A j \in Positions : Spared(j)
    BY <1>1, UnchangedSpares DEF engineVars
  <2>9. \A j \in DOMAIN steps' : RowTells(j)'
    BY <1>1, <2>1 DEF RowsTell, RowTells, Refused, CarriedOut, engineVars
  <2> QED
    BY <2>2, <2>5, <2>6, <2>7, <2>8, <2>9, KeepsItsRow, OwnedKeeps, TellingKeeps
<1>4. CASE call[c].next \notin DOMAIN steps
  <2>0. PICK n : n = call[c].next
    OBVIOUS
  <2>1. /\ steps' = Append(steps, Row(call[c].decision, call[c].op))
        /\ n = Len(steps) + 1 /\ n \in Positions
    BY <1>1, <1>4, <2>0, StepFacts, RuntimeAssumption DEF InsertStep, AllLocated, Located, Positions
  <2>2. /\ DOMAIN steps' = DOMAIN steps \cup {n} /\ Len(steps') = n
        /\ \A i \in DOMAIN steps : steps'[i] = steps[i]
        /\ steps'[n] = Row(call[c].decision, call[c].op)
    BY <2>1, StepFacts, RowType
  <2>3. steps'[n].status = "PENDING" /\ steps'[n].tool = call[c].decision
    BY <2>2 DEF Row
  <2>4. n \notin DOMAIN steps /\ n \notin ran /\ approval[n] = "NONE"
    BY <1>4, <2>0, <2>1 DEF RowsTell, TypeOK
  <2>5. Moves(c) /\ call'[c].at \in {"leaving", "finalizing", "calling"}
    BY StepFacts, InsertMoves DEF AllLocated
  <2>6. /\ call'[c].row = n
        /\ \/ call'[c].at = "calling"
           \/ /\ call'[c].at = "finalizing" /\ call'[c].result = call[c].decision
              /\ call[c].decision \notin Tools
    BY <1>4, <2>0, StepFacts DEF InsertStep, Types, Calls
  <2>7. Touches(c)
    BY <2>2, <2>5, <2>1, StepFacts DEF Touches
  <2>8. \A d \in Callers \ {c} : call[d].row # n /\ call'[d] = call[d]
    BY <2>1, <2>5, StepFacts DEF AllOwned, Owned, Moves, TypeOK
  <2>9. Owned(c)'
    BY <2>1, <2>2, <2>3, <2>6, <2>8, StepFacts DEF Owned, Replacing, Bearing
  <2>10. AllOwned'
    BY <2>6, <2>7, <2>8, <2>9, OwnedKeeps
  <2>11. call[c].decision \in Decisions
    BY DEF TypeOK, Calls
  <2>12. Believes(c)'
    BY <1>1, <2>3, <2>4, <2>6, <2>11 DEF Believes, Bearing, Decisions, Tools, engineVars
  <2>13. \A j \in Positions : Spared(j)
    BY <1>1, UnchangedSpares DEF engineVars
  <2>14. ASSUME NEW j \in DOMAIN steps' PROVE RowTells(j)'
    <3>1. CASE j = n
      BY <1>1, <2>3, <2>4, <3>1 DEF RowTells, engineVars
    <3>2. CASE j # n
      <4>1. j \in DOMAIN steps /\ steps'[j] = steps[j] /\ RowTells(j)
        BY <2>2, <3>2 DEF RowsTell
      <4> QED
        BY <1>1, <4>1 DEF RowTells, Refused, CarriedOut, engineVars
    <3> QED
      BY <3>1, <3>2
  <2> QED
    BY <2>7, <2>10, <2>12, <2>13, <2>14, TellingKeeps
<1> QED
  BY <1>2, <1>3, <1>4

\* The rows of an execution and what its calls hold, next to the engine's.
StoryInv == TypeOK /\ AllLocated /\ EngineHolds /\ AllOwned /\ RowsTell

LEMMA StoryInit == Init => StoryInv
<1> SUFFICES ASSUME Init PROVE StoryInv
  OBVIOUS
<1>1. TypeOK /\ AllLocated /\ EngineHolds
  BY RuntimeInit, EngineInitially DEF RuntimeInv, EngineHolds
<1>2. \A c \in Callers : call[c].at = "idle" /\ call[c].row = 0
  BY DEF Init, Idle
<1>3. Len(steps) = 0 /\ DOMAIN steps = {}
  BY DEF Init
<1>4. AllOwned
  BY <1>2, <1>3 DEF AllOwned, Owned, Replacing, Bearing
<1>5. \A i \in Positions : approval[i] = "NONE"
  BY DEF Init, Engine!Init
<1>6. RowsTell
  BY <1>2, <1>3, <1>5 DEF RowsTell, Believes, Bearing
<1> QED
  BY <1>1, <1>4, <1>6 DEF StoryInv

LEMMA StoryStep == StoryInv /\ [Next]_vars => StoryInv'
<1> SUFFICES ASSUME StoryInv, [Next]_vars PROVE StoryInv'
  OBVIOUS
<1>0. TypeOK /\ AllLocated /\ EngineHolds /\ AllOwned /\ RowsTell
  BY DEF StoryInv
<1>1. TypeOK' /\ AllLocated' /\ EngineHolds'
  BY <1>0, RuntimeKeeps, EngineKeeps
<1>2. ASSUME NEW c \in Callers, Wanders(c) PROVE AllOwned' /\ RowsTell'
  BY <1>0, <1>2, WandersAbout, QuietOwned, QuietTells
<1>3. ASSUME NEW c \in Callers,
             \/ FindPending(c) \/ InsertStep(c) \/ CallGateway(c) \/ RunDirectly(c)
             \/ Park(c) \/ Retry(c) \/ Finalize(c)
      PROVE  AllOwned' /\ RowsTell'
  BY <1>0, <1>3, FindTells, InsertTells, GatewayTells, RunTells, ParkTells, RetryTells,
     FinalizeTells
<1>4. Elsewhere => AllOwned' /\ RowsTell'
  BY <1>0, ElsewhereTells
<1>5. AllOwned' /\ RowsTell'
  BY <1>2, <1>3, <1>4 DEF Next, Advance, Wanders, Elsewhere
<1> QED
  BY <1>1, <1>5 DEF StoryInv

LEMMA StoryIsTrue == ASSUME StoryInv PROVE StepsTellTheTruth
<1> SUFFICES ASSUME NEW i \in DOMAIN steps, steps[i].tool \in Tools
             PROVE  /\ steps[i].status = "COMPLETED" => (i \in ran <=> runs[i] # 1) /\ runs[i] < 2
                    /\ steps[i].status = "BLOCKED" => ~Ran(i)
                    /\ steps[i].status = "WAITING_APPROVAL" => approval[i] # "NONE"
                    /\ i \in ran => approval[i] = "NONE"
  BY DEF StepsTellTheTruth
<1>1. RowTells(i) /\ i \in Positions
  BY RowsArePositions DEF StoryInv, RowsTell
<1>2. /\ approval[i] \notin {"APPROVED", "EXECUTED"} => runs[i] = 0
      /\ runs[i] <= 1 /\ runs[i] \in 0 .. 2
      /\ request[i] = "EXECUTED" => runs[i] > 0
  BY <1>1 DEF StoryInv, EngineHolds, Proved!EngineInv, Proved!AllRowsAgree, Proved!RowsAgree,
              Proved!OutcomeIsTrue, Proved!TypeOK
<1> QED
  BY <1>1, <1>2 DEF RowTells, Refused, CarriedOut, Ran

\* Whatever calls race, outlive their lease, retry, crash or resume, and
\* whatever becomes of the approvals, a step that is recorded as COMPLETED ran
\* its tool exactly once, a BLOCKED one never did, one that waits was parked,
\* and none ran both from the gateway and from the engine.
THEOREM StepsAreTrue == Spec => []StepsTellTheTruth
<1> QED
  BY StoryInit, StoryStep, StoryIsTrue, PTL DEF Spec

-----------------------------------------------------------------------------
(* Without zombies: one tool of the execution at a time                      *)

\* While the gateway runs a tool, no approval of the execution is open.
RunsAlone == \A c \in Callers : At(c, "running") => \A i \in Positions : ~Proved!Unsettled(i)

LEMMA OpenMeansSettled ==
    ASSUME EngineHolds, Open PROVE \A i \in Positions : ~Proved!Unsettled(i)
  BY DEF EngineHolds, Proved!EngineInv, Proved!Waits, Open

\* Only the owner of the lease is anywhere inside.
LEMMA OneInside ==
    ASSUME TypeOK, Exclusive, NEW c \in Callers, NEW d \in Callers,
           call[c].at \notin {"idle", "claiming"}, call[d].at \notin {"idle", "claiming"}
    PROVE  c = d
  BY DEF TypeOK, Exclusive

LEMMA AloneKeeps ==
    ASSUME StoryInv, Exclusive, RunsAlone, [Next]_vars PROVE RunsAlone'
<1>0. TypeOK /\ AllLocated /\ EngineHolds /\ AllOwned
  BY DEF StoryInv
<1>1. ASSUME NEW c \in Callers, Moves(c), call'[c].at # "running", UNCHANGED <<approval, request>>
      PROVE  RunsAlone'
  <2>1. \A d \in Callers : At(d, "running")' => At(d, "running")
    BY <1>0, <1>1 DEF Moves, TypeOK, At
  <2> QED
    BY <1>1, <2>1 DEF RunsAlone, Proved!Unsettled
<1>2. ASSUME NEW c \in Callers, CallGateway(c) PROVE RunsAlone'
  <2>1. UNCHANGED <<approval, request>>
    BY <1>2 DEF CallGateway, engineVars
  <2>2. CASE Open
    BY <1>0, <2>1, <2>2, OpenMeansSettled DEF RunsAlone, Proved!Unsettled
  <2>3. CASE ~Open
    <3>1. Result(c, "FAILED") /\ "FAILED" \in Results
      BY <1>2, <2>3 DEF CallGateway, Results
    <3> QED
      BY <1>0, <1>1, <2>1, <3>1, StepFacts, ResultMoves
  <2> QED
    BY <2>2, <2>3
<1>3. ASSUME NEW c \in Callers, Park(c) PROVE RunsAlone'
  <2>1. Moves(c) /\ call'[c].at = "finalizing" /\ call[c].at = "parking"
    BY <1>0, <1>3, StepFacts, ParkMoves DEF Park, At
  <2>2. ASSUME NEW d \in Callers PROVE ~At(d, "running")'
    <3>1. CASE d = c
      BY <2>1, <3>1 DEF At
    <3>2. CASE d # c
      <4>1. call'[d] = call[d]
        BY <1>0, <2>1, <3>2 DEF Moves, TypeOK
      <4>2. call[d].at \in {"idle", "claiming"}
        BY <1>0, <2>1, <3>2, OneInside
      <4> QED
        BY <4>1, <4>2 DEF At
    <3> QED
      BY <3>1, <3>2
  <2> QED
    BY <2>2 DEF RunsAlone
<1>4. ASSUME NEW c \in Callers, Wanders(c) PROVE RunsAlone'
  <2>1. Moves(c) /\ call'[c].at # "running" /\ UNCHANGED <<approval, request>>
    BY <1>0, <1>4, WandersAbout DEF Quiet, Bearing, engineVars
  <2> QED
    BY <1>1, <2>1
<1>5. ASSUME NEW c \in Callers, FindPending(c) \/ InsertStep(c) \/ RunDirectly(c) PROVE RunsAlone'
  <2>1. Moves(c) /\ call'[c].at # "running"
    BY <1>0, <1>5, StepFacts, FindMoves, InsertMoves, RunMoves DEF AllLocated
  <2>2. UNCHANGED <<approval, request>>
    BY <1>5 DEF FindPending, InsertStep, RunDirectly, engineVars
  <2> QED
    BY <1>1, <2>1, <2>2
<1>6. ASSUME NEW c \in Callers, Retry(c) \/ Finalize(c) PROVE RunsAlone'
  <2>1. Moves(c) /\ call'[c].at # "running"
    BY <1>0, <1>6, StepFacts, RetryMoves, FinalizeMoves
  <2>2. UNCHANGED <<approval, request>>
    BY <1>6 DEF Retry, Finalize, engineVars
  <2> QED
    BY <1>1, <2>1, <2>2
<1>7. Elsewhere => RunsAlone'
  <2> SUFFICES ASSUME Elsewhere PROVE RunsAlone'
    OBVIOUS
  <2>1. call' = call /\ \A i \in Positions : Proved!Unsettled(i)' => Proved!Unsettled(i)
    BY <1>0, ElsewhereFacts, ElsewhereSettles
  <2> QED
    BY <2>1 DEF RunsAlone, At
<1> QED
  BY <1>2, <1>3, <1>4, <1>5, <1>6, <1>7 DEF Next, Advance, Wanders, Elsewhere

\* What all of the runtime's guarantees without zombies rest on.
AloneInv == StoryInv /\ RuntimeInv /\ (~Zombies => RunsAlone)

LEMMA AloneInit == Init => AloneInv
<1> SUFFICES ASSUME Init PROVE AloneInv
  OBVIOUS
<1>1. \A c \in Callers : call[c].at = "idle"
  BY DEF Init, Idle
<1> QED
  BY <1>1, StoryInit, RuntimeInit DEF AloneInv, RunsAlone, At

LEMMA AloneStep == AloneInv /\ [Next]_vars => AloneInv'
<1> SUFFICES ASSUME AloneInv, [Next]_vars PROVE AloneInv'
  OBVIOUS
<1>1. ~Zombies => RunsAlone'
  BY AloneKeeps DEF AloneInv, RuntimeInv
<1> QED
  BY <1>1, StoryStep, RuntimeInductive DEF AloneInv

LEMMA AtMostOne ==
    ASSUME NEW S, \A x, y \in S : x = y
    PROVE  Cardinality(S) \in {0, 1} /\ (S = {} => Cardinality(S) = 0)
<1>1. CASE S = {}
  BY <1>1, FS_EmptySet
<1>2. CASE S # {}
  <2>1. PICK x : S = {x}
    BY <1>2
  <2> QED
    BY <2>1, FS_Singleton
<1> QED
  BY <1>1, <1>2

LEMMA AloneIsOne == ASSUME AloneInv, ~Zombies PROVE OneToolAtATime
<1> DEFINE direct == {c \in Callers : At(c, "running")}
           approved == {r \in Resolvers : pc[r] = "running"}
<1>1. TypeOK /\ Exclusive /\ RunsAlone /\ EngineHolds
  BY DEF AloneInv, RuntimeInv, StoryInv
<1>2. \A c, d \in direct : c = d
  BY <1>1, OneInside DEF At
<1>3. ASSUME NEW r \in approved
      PROVE  subject[r] \in Positions /\ Proved!Unsettled(subject[r]) /\ pc[r] \in Proved!Claimed
  <2>1. pc[r] \in Proved!Claimed /\ pc[r] = "running"
    BY DEF Proved!Claimed
  <2>2. subject[r] \in Positions /\ approval[subject[r]] = Proved!StatusAt(pc[r])
    BY <1>1, <2>1, NoPositionZero, Proved!ClaimFacts DEF EngineHolds, Proved!Owns
  <2>3. Proved!StatusAt(pc[r]) = "APPROVED"
    BY <2>1 DEF Proved!StatusAt
  <2> QED
    BY <2>1, <2>2, <2>3 DEF Proved!Unsettled
<1>4. \A r, s \in approved : r = s
  BY <1>1, <1>3 DEF EngineHolds, Proved!EngineInv, Proved!OneQuestion, Proved!OneOwner
<1>5. direct = {} \/ approved = {}
  BY <1>1, <1>3 DEF RunsAlone
<1>6. /\ Cardinality(direct) \in {0, 1} /\ (direct = {} => Cardinality(direct) = 0)
      /\ Cardinality(approved) \in {0, 1} /\ (approved = {} => Cardinality(approved) = 0)
  BY <1>2, <1>4, AtMostOne
<1>7. Cardinality(direct) + Cardinality(approved) <= 1
  BY <1>5, <1>6
<1> QED
  BY <1>7 DEF OneToolAtATime

\* When no call outlives its lease, one tool of an execution runs at a time,
\* whether the gateway runs it for a step or the engine after an approval: the
\* lease keeps the gateway's runs apart, and the wait of the execution for an
\* answer keeps them from the engine's.
THEOREM OneAtATime == Spec => [](~Zombies => OneToolAtATime)
<1>1. AloneInv => (~Zombies => OneToolAtATime)
  BY AloneIsOne
<1> QED
  BY <1>1, AloneInit, AloneStep, PTL DEF Spec

-----------------------------------------------------------------------------
(* One console that looks before it calls                                    *)

\* useAutoStep runs in one browser.
OneConsole == \E c : Console = {c}

\* A row that neither waits nor was refused.
ClearRow(i) ==
    /\ steps[i].status \notin {"WAITING_APPROVAL", "BLOCKED"}
    /\ approval[i] = "NONE" \/ CarriedOut(i)

Clear == \A i \in DOMAIN steps : ClearRow(i)
ClearBefore == \A i \in DOMAIN steps : i # Len(steps) => ClearRow(i)
LastWaits == ClearBefore /\ Waits(Len(steps))

NoneOpen == \A i \in Positions : ~Proved!Unsettled(i)

\* The execution has ended otherwise than as COMPLETED, for good.
Gone == execution \in {"FAILED", "BLOCKED", "CANCELLED"} /\ NoneOpen

\* Only the latest step is ever in doubt, and the console answers for it first.
Attends(c) ==
    /\ call[c].at \in {"idle", "leaving"} => Clear \/ LastWaits
    /\ call[c].at \in {"claiming", "claimed"} =>
          \/ call[c].op = "step" /\ Clear
          \/ call[c].op = "resume" /\ LastWaits
    /\ call[c].at = "finding" => LastWaits /\ NoneOpen
    /\ call[c].at \in {"planning", "numbering", "inserting"} \cup Bearing => Clear
    /\ call[c].at \in Bearing => call[c].row = Len(steps)
    /\ call[c].at = "finalizing" =>
          CASE call[c].result = "REQUIRES_APPROVAL" -> ClearBefore /\ call[c].row = Len(steps)
            [] call[c].result = "RESUMED" ->
                  ClearBefore /\ call[c].row = Len(steps) /\ CarriedOut(Len(steps))
            [] call[c].result \in {"BLOCKED", "FAIL"} -> NoneOpen
            [] OTHER -> Clear
    /\ execution = "COMPLETED" => call[c].at \in {"idle", "leaving"} /\ Clear

\* What a console has polled since its last call agrees with the latest step: that
\* step is the console's own, and it does not call meanwhile.
Looks(c) ==
    shown[c].fresh =>
        /\ call[c].at = "idle"
        /\ shown[c].next = "step" => ~Waits(Len(steps))
        /\ shown[c].next = "resume" => Waits(Len(steps))

Undisturbed ==
    /\ \A c \in Callers \ Console : call[c].at = "idle"
    /\ \A c \in Console : Attends(c) /\ Looks(c)

ConsoleInv == faults = 0 /\ ~hasty => Gone \/ Undisturbed

LEMMA ClearIsSettled == ASSUME StoryInv, Clear PROVE NoneOpen
<1> SUFFICES ASSUME NEW i \in Positions PROVE ~Proved!Unsettled(i)
  BY DEF NoneOpen
<1>1. approval[i] \in {"NONE", "EXECUTED"}
  BY DEF StoryInv, RowsTell, Clear, ClearRow, CarriedOut
<1> QED
  BY <1>1 DEF Proved!Unsettled

LEMMA SameRowsSameDoubt ==
    ASSUME UNCHANGED <<approval, request, steps>>
    PROVE  /\ Clear' <=> Clear
           /\ ClearBefore' <=> ClearBefore
           /\ LastWaits' <=> LastWaits
           /\ NoneOpen' <=> NoneOpen
           /\ \A i : CarriedOut(i)' <=> CarriedOut(i)
  BY DEF Clear, ClearBefore, LastWaits, ClearRow, CarriedOut, Waits, NoneOpen, Proved!Unsettled

\* An execution that is not running, with nothing open and not completed, is gone.
LEMMA EndedIsGone ==
    ASSUME StoryInv, NoneOpen, execution \notin {"RUNNING", "COMPLETED"} PROVE Gone
<1>1. execution # "WAITING_APPROVAL"
  BY DEF StoryInv, EngineHolds, Proved!EngineInv, Proved!Waits, NoneOpen
<1>2. execution \in Proved!ExecutionStatuses
  BY DEF StoryInv, EngineHolds, Proved!EngineInv, Proved!TypeOK
<1> QED
  BY <1>1, <1>2 DEF Gone, Proved!ExecutionStatuses, Proved!Finals

\* The engine, the clock and the operators do not complete an execution.
LEMMA ElsewhereCompletesNothing ==
    ASSUME Elsewhere, execution' = "COMPLETED" PROVE execution = "COMPLETED"
<1>1. CASE Expire \/ UNCHANGED vars \/ \E c \in Console : Poll(c)
  BY <1>1 DEF Expire, Poll, vars, engineVars
<1>2. CASE Cancel \/ \E i \in Positions : Overrun(i)
  BY <1>2 DEF Cancel, Overrun, Engine!Cancel, Engine!Overrun, Engine!rows
<1>3. ASSUME NEW r \in Resolvers, Resolve(r) \/ Abandon(r)
      PROVE  execution' \in {execution, "RUNNING"}
  BY <1>3 DEF Resolve, Abandon, Engine!ReadApproval, Engine!Proceed, Engine!ReadClock,
     Engine!CheckRequest, Engine!CheckExecution, Engine!Claim, Engine!ExpireClaim,
     Engine!LoadForExpiry, Engine!ExpiryChunk, Engine!RejectChunk, Engine!Announce,
     Engine!Start, Engine!RunTool, Engine!OutcomeChunk, Engine!Abandon, Engine!rows
<1> QED
  BY <1>1, <1>2, <1>3 DEF Elsewhere

LEMMA GoneStays == ASSUME StoryInv, Gone, [Next]_vars PROVE Gone'
<1>0. TypeOK /\ EngineHolds /\ NoneOpen /\ execution \in {"FAILED", "BLOCKED", "CANCELLED"}
  BY DEF StoryInv, Gone
<1>1. CASE UNCHANGED <<approval, request, execution>>
  BY <1>0, <1>1 DEF Gone, NoneOpen, Proved!Unsettled
<1>2. ASSUME NEW c \in Callers, Advance(c) PROVE UNCHANGED <<approval, request, execution>>
  <2>1. CASE Park(c)
    BY <1>0, <2>1 DEF Park, Engine!CreateApproval, Engine!Admit, engineVars
  <2>2. CASE Finalize(c)
    BY <1>0, <2>2 DEF Finalize, Ending, engineVars
  <2>3. CASE ~Park(c) /\ ~Finalize(c)
    BY <1>2, <2>3 DEF Advance, Claim, Conflict, Recheck, FindPending, Plan, ReadMaxSequence,
              InsertStep, CallGateway, RunDirectly, Retry, Leave, engineVars
  <2> QED
    BY <2>1, <2>2, <2>3
<1>3. ASSUME NEW c \in Callers, Raise(c) \/ Crash(c) \/ \E op \in Ops : Enter(c, op)
      PROVE  UNCHANGED <<approval, request, execution>>
  BY <1>3 DEF Raise, Crash, Enter, engineVars
<1>4. Elsewhere => Gone'
  <2> SUFFICES ASSUME Elsewhere PROVE Gone'
    OBVIOUS
  <2>1. NoneOpen'
    BY <1>0, ElsewhereSettles DEF NoneOpen
  <2>2. execution' = execution
    BY <1>0, ElsewhereAnswers, NoPositionZero, Proved!OnlyTheOpenMove DEF EngineHolds, NoneOpen
  <2> QED
    BY <1>0, <2>1, <2>2 DEF Gone
<1> QED
  BY <1>1, <1>2, <1>3, <1>4 DEF Next, Elsewhere

LEMMA EnterAttends ==
    ASSUME StoryInv, NEW c \in Console, Attends(c), Looks(c), NEW op \in Ops, Enter(c, op),
           ~hasty'
    PROVE  Attends(c)'
<1>0. c \in Callers
  BY RuntimeAssumption
<1>1. UNCHANGED <<approval, request, steps, execution>> /\ call[c].at = "idle"
  BY DEF Enter, At, engineVars, stepVars
<1>2. /\ (Clear' <=> Clear) /\ (LastWaits' <=> LastWaits)
  BY <1>1, SameRowsSameDoubt
<1>3. call'[c].at = "claiming" /\ call'[c].op = op
  BY <1>0, StepFacts DEF Enter, Types, Calls, StoryInv
<1>4. shown[c].fresh /\ op = shown[c].next
  BY DEF Enter, Ticks, Chosen
<1>5. op \in {"step", "resume"}
  BY <1>4, RuntimeAssumption DEF StoryInv, TypeOK, ConsoleTypeOK
<1>6. execution = "RUNNING"
  BY <1>5 DEF Enter, Accepts
<1>7. Clear \/ LastWaits
  BY <1>1 DEF Attends
<1>8. (Clear => ~Waits(Len(steps))) /\ (LastWaits => Waits(Len(steps)))
  BY DEF Clear, ClearRow, Waits, LastWaits
<1>9. (op = "step" /\ Clear) \/ (op = "resume" /\ LastWaits)
  BY <1>4, <1>5, <1>7, <1>8 DEF Looks
<1> QED
  BY <1>1, <1>2, <1>3, <1>6, <1>9 DEF Attends, Bearing

LEMMA ClaimAttends ==
    ASSUME StoryInv, NEW c \in Callers, Attends(c), Claim(c) PROVE Attends(c)'
<1>1. UNCHANGED <<approval, request, steps, execution>> /\ call[c].at = "claiming"
  BY DEF Claim, At, engineVars, stepVars
<1>2. /\ (Clear' <=> Clear) /\ (LastWaits' <=> LastWaits)
  BY <1>1, SameRowsSameDoubt
<1>3. call'[c].at = "claimed" /\ call'[c].op = call[c].op
  BY StepFacts DEF Claim, Goto, Types, Calls, StoryInv
<1> QED
  BY <1>1, <1>2, <1>3 DEF Attends, Bearing

\* A call that goes home, or returns, leaves the latest step in doubt at most.
LEMMA HomeAttends ==
    ASSUME StoryInv, NEW c \in Callers, Attends(c), UNCHANGED <<approval, request, steps, execution>>,
           call'[c].at \in {"idle", "leaving"}, Clear \/ LastWaits,
           execution = "COMPLETED" => Clear
    PROVE  Attends(c)'
<1>1. /\ (Clear' <=> Clear) /\ (LastWaits' <=> LastWaits)
  BY SameRowsSameDoubt
<1> QED
  BY <1>1 DEF Attends, Bearing

LEMMA ReturnAttends ==
    ASSUME StoryInv, NEW c \in Callers, Attends(c), Conflict(c) \/ Leave(c) PROVE Attends(c)'
<1>1. /\ UNCHANGED <<approval, request, steps, execution>> /\ call[c].at \in {"claiming", "leaving"}
      /\ call'[c].at = "idle"
  BY StepFacts, ReturnMoves DEF Conflict, Leave, At, engineVars, stepVars, StoryInv
<1>2. (Clear \/ LastWaits) /\ (execution = "COMPLETED" => Clear)
  BY <1>1 DEF Attends
<1> QED
  BY <1>1, <1>2, HomeAttends

LEMMA RecheckAttends ==
    ASSUME StoryInv, NEW c \in Callers, Attends(c), Recheck(c) PROVE Attends(c)'
<1>1. UNCHANGED <<approval, request, steps, execution>> /\ call[c].at = "claimed"
  BY DEF Recheck, At, engineVars, stepVars
<1>2. /\ execution # "COMPLETED"
      /\ \/ call[c].op = "step" /\ Clear
         \/ call[c].op = "resume" /\ LastWaits
  BY <1>1 DEF Attends
<1>3. CASE execution # "RUNNING"
  <2>1. GoHome(c)
    BY <1>2, <1>3 DEF Recheck
  <2>2. call'[c].at = "leaving"
    BY <2>1, StepFacts, GoHomeMoves DEF StoryInv
  <2> QED
    BY <1>1, <1>2, <2>2, HomeAttends
<1>4. CASE execution = "RUNNING"
  <2>1. NoneOpen
    BY <1>4, OpenMeansSettled DEF StoryInv, Open, NoneOpen
  <2>2. \/ call[c].op = "step" /\ Goto(c, "planning")
        \/ call[c].op = "resume" /\ Goto(c, "finding")
    BY <1>2, <1>4 DEF Recheck
  <2>3. \/ call[c].op = "step" /\ call'[c].at = "planning"
        \/ call[c].op = "resume" /\ call'[c].at = "finding"
    BY <2>2, StepFacts, GotoMoves DEF StoryInv, Labels
  <2>4. (Clear' <=> Clear) /\ (LastWaits' <=> LastWaits) /\ (NoneOpen' <=> NoneOpen)
    BY <1>1, SameRowsSameDoubt
  <2> QED
    BY <1>1, <1>2, <2>1, <2>3, <2>4 DEF Attends, Bearing
<1> QED
  BY <1>3, <1>4

LEMMA FindAttends ==
    ASSUME StoryInv, NEW c \in Callers, Attends(c), FindPending(c) PROVE Attends(c)'
<1>1. UNCHANGED <<approval, request, steps, execution>> /\ call[c].at = "finding"
  BY DEF FindPending, At, engineVars, stepVars
<1>2. execution # "COMPLETED" /\ LastWaits /\ NoneOpen
  BY <1>1 DEF Attends
<1>3. CASE GoHome(c)
  <2>1. call'[c].at = "leaving"
    BY <1>3, StepFacts, GoHomeMoves DEF StoryInv
  <2> QED
    BY <1>1, <1>2, <2>1, HomeAttends
<1>4. ASSUME NEW i \in LatestWaiting, Resolved(i),
             call' = [call EXCEPT ![c].at = "finalizing", ![c].row = i,
                                  ![c].result = Resolution(i)]
      PROVE  Attends(c)'
  <2>1. call'[c].at = "finalizing" /\ call'[c].row = i /\ call'[c].result = Resolution(i)
    BY <1>4, StepFacts DEF Types, Calls, StoryInv
  <2>2. i = Len(steps)
    <3>1. /\ Waits(Len(steps)) /\ i \in DOMAIN steps
          /\ \A j \in DOMAIN steps : j > i => ~Waits(j)
      BY <1>2 DEF LastWaits, LatestWaiting
    <3>2. Len(steps) \in DOMAIN steps /\ i <= Len(steps) /\ i \in Nat
      BY <3>1, StepFacts DEF Waits, StoryInv
    <3> QED
      BY <3>1, <3>2, StepFacts DEF StoryInv
  <2>3. Resolution(i) \in {"BLOCKED", "FAIL"} \/ (Resolution(i) = "RESUMED" /\ CarriedOut(i))
    BY <1>4 DEF Resolved, Resolution, CarriedOut
  <2>4. /\ (ClearBefore' <=> ClearBefore) /\ (NoneOpen' <=> NoneOpen)
        /\ (CarriedOut(i)' <=> CarriedOut(i))
    BY <1>1, SameRowsSameDoubt
  <2>5. ClearBefore
    BY <1>2 DEF LastWaits
  <2>6. CASE Resolution(i) \in {"BLOCKED", "FAIL"}
    BY <1>1, <1>2, <2>1, <2>4, <2>6 DEF Attends, Bearing
  <2>7. CASE Resolution(i) = "RESUMED" /\ CarriedOut(i)
    BY <1>1, <1>2, <2>1, <2>2, <2>4, <2>5, <2>7 DEF Attends, Bearing
  <2> QED
    BY <2>3, <2>6, <2>7
<1> QED
  BY <1>3, <1>4 DEF FindPending

\* A call that goes on with nothing in doubt.
LEMMA OnwardAttends ==
    ASSUME StoryInv, NEW c \in Callers, Attends(c), UNCHANGED <<approval, request, steps, execution>>,
           call[c].at \in {"planning", "numbering", "inserting"} \cup Bearing,
           \/ call'[c].at \in {"planning", "numbering", "inserting", "leaving"}
           \/ call'[c].at \in Bearing /\ call'[c].row = Len(steps)
           \/ /\ call'[c].at = "finalizing"
              /\ call'[c].result \in {"EXECUTED", "FAILED", "COMPLETE", "BLOCKED", "FAIL"}
    PROVE  Attends(c)'
<1>1. Clear /\ execution # "COMPLETED"
  BY DEF Attends, Bearing
<1>2. Clear' /\ NoneOpen'
  BY <1>1, SameRowsSameDoubt, ClearIsSettled
<1>3. CASE call'[c].at \in {"planning", "numbering", "inserting", "leaving"}
  BY <1>1, <1>2, <1>3 DEF Attends, Bearing
<1>4. CASE call'[c].at \in Bearing /\ call'[c].row = Len(steps)
  BY <1>1, <1>2, <1>4 DEF Attends, Bearing
<1>5. CASE call'[c].at = "finalizing"
  BY <1>1, <1>2, <1>5 DEF Attends, Bearing
<1> QED
  BY <1>3, <1>4, <1>5

LEMMA PlanAttends ==
    ASSUME StoryInv, NEW c \in Callers, Attends(c), Plan(c) \/ ReadMaxSequence(c)
    PROVE  Attends(c)'
<1>1. UNCHANGED <<approval, request, steps, execution>>
      /\ call[c].at \in {"planning", "numbering"}
  BY DEF Plan, ReadMaxSequence, At, engineVars, stepVars
<1>2. call'[c].at \in {"numbering", "inserting"}
  BY StepFacts, PlanMoves, NumberMoves DEF StoryInv
<1> QED
  BY <1>1, <1>2, OnwardAttends

LEMMA GatewayAttends ==
    ASSUME StoryInv, NEW c \in Callers, Attends(c), CallGateway(c) \/ RunDirectly(c)
    PROVE  Attends(c)'
<1>1. UNCHANGED <<approval, request, steps, execution>> /\ call[c].at \in Bearing
  BY DEF CallGateway, RunDirectly, At, engineVars, stepVars, Bearing
<1>2. call[c].row = Len(steps)
  BY <1>1 DEF Attends
<1>3. ASSUME NEW result \in {"BLOCKED", "FAILED", "EXECUTED"}, Result(c, result) PROVE Attends(c)'
  <2>1. result \in Results
    BY DEF Results
  <2>2. call'[c].at = "finalizing"
    BY <1>3, <2>1, StepFacts, ResultMoves DEF StoryInv
  <2>3. call'[c].result = result
    BY <1>3, StepFacts DEF Result, Types, Calls, StoryInv
  <2> QED
    BY <1>1, <2>2, <2>3, OnwardAttends
<1>4. ASSUME NEW label \in {"running", "parking"}, Goto(c, label) PROVE Attends(c)'
  <2>1. label \in Labels
    BY DEF Labels
  <2>2. call'[c].at = label /\ call'[c].row = call[c].row
    BY <1>4, <2>1, StepFacts, GotoMoves DEF StoryInv
  <2> QED
    BY <1>1, <1>2, <2>2, OnwardAttends DEF Bearing
<1> QED
  BY <1>3, <1>4 DEF CallGateway, RunDirectly

LEMMA InsertAttends ==
    ASSUME StoryInv, NEW c \in Callers, Attends(c), InsertStep(c) PROVE Attends(c)'
<1>0. TypeOK /\ AllLocated /\ Types
  BY StepFacts DEF StoryInv
<1>1. UNCHANGED <<approval, request, execution>> /\ call[c].at = "inserting"
  BY DEF InsertStep, At, engineVars
<1>2. CASE call[c].next \in DOMAIN steps
  <2>1. UNCHANGED steps
    BY <1>2 DEF InsertStep
  <2>2. CASE call[c].retry
    <3>1. Result(c, "FAILED") /\ "FAILED" \in Results
      BY <1>2, <2>2 DEF InsertStep, Results
    <3>2. call'[c].at = "finalizing"
      BY <1>0, <3>1, ResultMoves
    <3>3. call'[c].result = "FAILED"
      BY <1>0, <3>1 DEF Result, Types, Calls
    <3> QED
      BY <1>1, <2>1, <3>2, <3>3, OnwardAttends
  <2>3. CASE ~call[c].retry
    <3>1. GoHome(c)
      BY <1>2, <2>3 DEF InsertStep
    <3>2. call'[c].at = "leaving"
      BY <1>0, <3>1, GoHomeMoves
    <3> QED
      BY <1>1, <2>1, <3>2, OnwardAttends
  <2> QED
    BY <2>2, <2>3
<1>3. CASE call[c].next \notin DOMAIN steps
  <2>0. PICK n : n = call[c].next
    OBVIOUS
  <2>1. /\ steps' = Append(steps, Row(call[c].decision, call[c].op))
        /\ n = Len(steps) + 1 /\ n \in Positions
    BY <1>0, <1>1, <1>3, <2>0, StepFacts, RuntimeAssumption
       DEF InsertStep, AllLocated, Located, Positions
  <2>2. /\ DOMAIN steps' = DOMAIN steps \cup {n} /\ Len(steps') = n
        /\ \A i \in DOMAIN steps : steps'[i] = steps[i]
        /\ steps'[n] = Row(call[c].decision, call[c].op)
    BY <1>0, <2>1, StepFacts, RowType
  <2>3. steps'[n].status = "PENDING"
    BY <2>2 DEF Row
  <2>4. approval[n] = "NONE"
    BY <1>3, <2>0, <2>1 DEF StoryInv, RowsTell
  <2>5. Clear /\ execution # "COMPLETED"
    BY <1>1 DEF Attends
  <2>6. NoneOpen'
    BY <1>1, <2>5, ClearIsSettled DEF NoneOpen, Proved!Unsettled
  <2>7. ASSUME NEW i \in DOMAIN steps' PROVE ClearRow(i)'
    <3>1. CASE i = n
      BY <1>1, <2>3, <2>4, <3>1 DEF ClearRow
    <3>2. CASE i # n
      <4>1. i \in DOMAIN steps /\ steps'[i] = steps[i]
        BY <2>2, <3>2
      <4>2. ClearRow(i)
        BY <2>5, <4>1 DEF Clear
      <4> QED
        BY <1>1, <4>1, <4>2 DEF ClearRow, CarriedOut
    <3> QED
      BY <3>1, <3>2
  <2>8. Clear'
    BY <2>7 DEF Clear
  <2>9. CASE call[c].decision \in Tools
    <3>1. call'[c].at = "calling" /\ call'[c].row = n
      BY <1>0, <1>3, <2>0, <2>9 DEF InsertStep, Types, Calls
    <3> QED
      BY <1>1, <2>2, <2>5, <2>8, <3>1 DEF Attends, Bearing
  <2>10. CASE call[c].decision \notin Tools
    <3>1. call'[c].at = "finalizing" /\ call'[c].result = call[c].decision
      BY <1>0, <1>3, <2>10 DEF InsertStep, Types, Calls
    <3>2. call[c].decision \in {"COMPLETE", "FAIL"}
      BY <1>0, <2>10 DEF Types, Calls, Decisions
    <3> QED
      BY <1>1, <2>5, <2>6, <2>8, <3>1, <3>2 DEF Attends, Bearing
  <2> QED
    BY <2>9, <2>10
<1> QED
  BY <1>2, <1>3

LEMMA ParkAttends ==
    ASSUME StoryInv, NEW c \in Callers, Attends(c), Park(c) PROVE Attends(c)'
<1>0. TypeOK /\ Types /\ EngineHolds
  BY StepFacts DEF StoryInv
<1>1. UNCHANGED steps /\ call[c].at = "parking" /\ call[c].at \in Bearing
  BY DEF Park, At, stepVars, Bearing
<1>2. call[c].row = Len(steps) /\ Clear /\ execution # "COMPLETED"
  BY <1>1 DEF Attends, Bearing
<1>3. CASE Engine!CreateApproval(call[c].row) /\ Result(c, "REQUIRES_APPROVAL")
  <2>1. call'[c].at = "finalizing" /\ call'[c].row = call[c].row
    BY <1>0, <1>3, ResultMoves DEF Results
  <2>2. call'[c].result = "REQUIRES_APPROVAL"
    BY <1>0, <1>3 DEF Result, Types, Calls
  <2>3. /\ approval' = [approval EXCEPT ![Len(steps)] = "PENDING"]
        /\ request' = [request EXCEPT ![Len(steps)] = "REQUIRES_APPROVAL"]
        /\ execution' = "WAITING_APPROVAL"
    BY <1>2, <1>3 DEF Engine!CreateApproval
  <2>4. ASSUME NEW i \in DOMAIN steps, i # Len(steps) PROVE ClearRow(i)'
    <3>1. ClearRow(i) /\ i \in Positions
      BY <1>0, <1>2, RowsArePositions DEF Clear
    <3>2. approval'[i] = approval[i] /\ request'[i] = request[i]
      BY <1>0, <2>3, <2>4, <3>1 DEF EngineHolds, Proved!EngineInv, Proved!TypeOK
    <3> QED
      BY <1>1, <3>1, <3>2 DEF ClearRow, CarriedOut
  <2>5. ClearBefore'
    BY <1>1, <2>4 DEF ClearBefore
  <2> QED
    BY <1>1, <1>2, <2>1, <2>2, <2>3, <2>5 DEF Attends, Bearing
<1>4. CASE UNCHANGED engineVars /\ Result(c, "FAILED")
  <2>1. call'[c].at = "finalizing"
    BY <1>0, <1>4, ResultMoves DEF Results
  <2>2. call'[c].result = "FAILED"
    BY <1>0, <1>4 DEF Result, Types, Calls
  <2>3. UNCHANGED <<approval, request, execution>>
    BY <1>4 DEF engineVars
  <2> QED
    BY <1>1, <2>1, <2>2, <2>3, OnwardAttends
<1> QED
  BY <1>3, <1>4 DEF Park

\* Closing the latest row leaves the ones before it as they were.
LEMMA ClosedBefore ==
    ASSUME TypeOK, NEW c \in Callers, Moves(c), NEW status \in StepStatuses,
           Close(call[c].row, status), UNCHANGED <<approval, request>>
    PROVE  /\ Len(steps') = Len(steps) /\ DOMAIN steps' = DOMAIN steps
           /\ \A i \in DOMAIN steps : i # call[c].row /\ ClearRow(i) => ClearRow(i)'
           /\ call[c].row \in DOMAIN steps => steps'[call[c].row].status = status
<1>1. Len(steps') = Len(steps) /\ DOMAIN steps' = DOMAIN steps
  BY ClosedRow
<1>2. Touches(c)
  BY CloseTouches
<1>3. ASSUME NEW i \in DOMAIN steps, i # call[c].row, ClearRow(i) PROVE ClearRow(i)'
  BY <1>2, <1>3 DEF Touches, ClearRow, CarriedOut
<1>4. call[c].row \in DOMAIN steps => steps'[call[c].row].status = status
  BY ClosedAs
<1> QED
  BY <1>1, <1>3, <1>4

LEMMA CloseClears ==
    ASSUME TypeOK, Clear, NEW c \in Callers, Moves(c),
           NEW status \in StepStatuses \ {"WAITING_APPROVAL", "BLOCKED"},
           Close(call[c].row, status), UNCHANGED <<approval, request>>
    PROVE  Clear'
<1>0. PICK n : n = call[c].row
  OBVIOUS
<1>1. /\ DOMAIN steps' = DOMAIN steps
      /\ \A i \in DOMAIN steps : i # n /\ ClearRow(i) => ClearRow(i)'
      /\ n \in DOMAIN steps => steps'[n].status = status
  BY <1>0, ClosedBefore
<1>2. n \in DOMAIN steps => ClearRow(n)'
  BY <1>1 DEF Clear, ClearRow, CarriedOut
<1> QED
  BY <1>1, <1>2 DEF Clear

LEMMA RetryAttends ==
    ASSUME StoryInv, NEW c \in Callers, Attends(c), Retry(c) PROVE Attends(c)'
<1>0. TypeOK
  BY DEF StoryInv
<1>1. Moves(c) /\ call'[c].at = "numbering"
  BY <1>0, StepFacts, RetryMoves
<1>2. UNCHANGED <<approval, request, execution>> /\ Close(call[c].row, "FAILED")
      /\ call[c].at = "finalizing" /\ call[c].result = "FAILED"
  BY DEF Retry, Retries, At, engineVars
<1>3. Clear /\ execution # "COMPLETED"
  BY <1>2 DEF Attends
<1>4. Clear'
  BY <1>0, <1>1, <1>2, <1>3, CloseClears DEF StepStatuses
<1> QED
  BY <1>1, <1>2, <1>3, <1>4 DEF Attends, Bearing

LEMMA FinalizeAttends ==
    ASSUME StoryInv, NEW c \in Callers, Attends(c), Finalize(c) PROVE Gone' \/ Attends(c)'
<1>0. TypeOK /\ Types
  BY StepFacts DEF StoryInv
<1>1. Moves(c) /\ call'[c].at \in {"leaving", "planning"}
  BY <1>0, StepFacts, FinalizeMoves
<1>2. PICK result : result = call[c].result
  OBVIOUS
<1>3. /\ UNCHANGED <<approval, request>> /\ call[c].at = "finalizing"
      /\ Close(call[c].row, StepStatus(result)) /\ result \in Results
      /\ call'[c].at = "planning" => result = "RESUMED"
  <2>1. result = "RESUMED" \/ call'[c].at = "leaving"
    BY <1>0, <1>2, GoHomeMoves DEF Finalize
  <2> QED
    BY <1>0, <1>2, <2>1 DEF Finalize, At, engineVars, Types, Calls
<1>4. /\ ~Ends(result) => UNCHANGED execution
      /\ Ends(result) /\ Ending => execution' = StepStatus(result)
      /\ Ends(result) /\ ~Ending => UNCHANGED execution
  BY <1>2 DEF Finalize, engineVars
<1>5. execution # "COMPLETED"
  BY <1>3 DEF Attends
<1>6. StepStatus(result) \in StepStatuses
  BY <1>3, StepStatusType
<1>7. (NoneOpen' <=> NoneOpen)
  BY <1>3 DEF NoneOpen, Proved!Unsettled
<1>8. CASE result = "REQUIRES_APPROVAL"
  <2>1. ClearBefore /\ call[c].row = Len(steps)
    BY <1>2, <1>3, <1>8 DEF Attends
  <2>2. StepStatus(result) = "WAITING_APPROVAL" /\ ~Ends(result)
    BY <1>8 DEF StepStatus, Ends
  <2>3. call[c].row \in DOMAIN steps
    BY <1>3 DEF StoryInv, AllOwned, Owned
  <2>4. /\ Len(steps') = Len(steps) /\ DOMAIN steps' = DOMAIN steps
        /\ \A i \in DOMAIN steps : i # call[c].row /\ ClearRow(i) => ClearRow(i)'
        /\ steps'[call[c].row].status = "WAITING_APPROVAL"
    BY <1>0, <1>1, <1>3, <1>6, <2>2, <2>3, ClosedBefore
  <2>5. ClearBefore'
    BY <2>1, <2>4 DEF ClearBefore
  <2>6. Waits(Len(steps))'
    BY <2>1, <2>3, <2>4 DEF Waits
  <2> QED
    BY <1>1, <1>3, <1>4, <1>5, <1>8, <2>2, <2>5, <2>6 DEF Attends, LastWaits, Bearing
<1>9. CASE result = "RESUMED"
  <2>1. ClearBefore /\ call[c].row = Len(steps) /\ CarriedOut(Len(steps))
    BY <1>2, <1>3, <1>9 DEF Attends
  <2>2. StepStatus(result) = "COMPLETED" /\ ~Ends(result)
    BY <1>9 DEF StepStatus, Ends
  <2>3. /\ Len(steps') = Len(steps) /\ DOMAIN steps' = DOMAIN steps
        /\ \A i \in DOMAIN steps : i # call[c].row /\ ClearRow(i) => ClearRow(i)'
        /\ call[c].row \in DOMAIN steps => steps'[call[c].row].status = "COMPLETED"
    BY <1>0, <1>1, <1>3, <1>6, <2>2, ClosedBefore
  <2>4. ASSUME NEW i \in DOMAIN steps' PROVE ClearRow(i)'
    <3>1. CASE i = Len(steps)
      BY <1>3, <2>1, <2>3, <3>1 DEF ClearRow, CarriedOut
    <3>2. CASE i # Len(steps)
      BY <2>1, <2>3, <3>2 DEF ClearBefore
    <3> QED
      BY <3>1, <3>2
  <2>5. Clear'
    BY <2>4 DEF Clear
  <2> QED
    BY <1>1, <1>4, <1>5, <2>2, <2>5 DEF Attends, Bearing
<1>10. CASE result \in {"BLOCKED", "FAIL"}
  <2>1. NoneOpen
    BY <1>2, <1>3, <1>10 DEF Attends
  <2>2. Ends(result) /\ StepStatus(result) \in {"BLOCKED", "FAILED"}
    BY <1>10 DEF Ends, StepStatus
  <2>3. CASE Ending
    BY <1>4, <1>7, <2>1, <2>2, <2>3 DEF Gone
  <2>4. CASE ~Ending
    <3>1. Gone
      BY <1>5, <2>1, <2>4, EndedIsGone DEF Ending
    <3> QED
      BY <1>4, <1>7, <2>2, <2>4, <3>1 DEF Gone
  <2> QED
    BY <2>3, <2>4
<1>11. CASE result \in {"EXECUTED", "COMPLETE", "FAILED"}
  <2>1. Clear
    BY <1>2, <1>3, <1>11 DEF Attends
  <2>2. StepStatus(result) \in StepStatuses \ {"WAITING_APPROVAL", "BLOCKED"}
    BY <1>11 DEF StepStatus, StepStatuses
  <2>3. Clear'
    BY <1>0, <1>1, <1>3, <2>1, <2>2, CloseClears
  <2>4. call'[c].at = "leaving"
    BY <1>1, <1>3, <1>11
  <2> QED
    BY <2>3, <2>4 DEF Attends, Bearing
<1> QED
  BY <1>3, <1>8, <1>9, <1>10, <1>11 DEF Results

LEMMA ElsewhereAttends ==
    ASSUME StoryInv, NEW c \in Callers, Attends(c), Elsewhere PROVE Attends(c)'
<1>0. TypeOK /\ EngineHolds
  BY DEF StoryInv
<1>1. UNCHANGED <<steps, call>>
  BY <1>0, ElsewhereFacts DEF stepVars
<1>2. \A i \in Positions : Keeps(i) /\ (Proved!Unsettled(i)' => Proved!Unsettled(i))
  BY <1>0, ElsewhereSettles
<1>3. NoneOpen => NoneOpen'
  BY <1>2 DEF NoneOpen
<1>4. ASSUME NEW i \in DOMAIN steps
      PROVE  (ClearRow(i) => ClearRow(i)') /\ (CarriedOut(i) => CarriedOut(i)')
  <2>1. Keeps(i)
    BY <1>0, <1>2, RowsArePositions
  <2> QED
    BY <1>1, <2>1 DEF ClearRow, Keeps
<1>5. /\ Clear => Clear'
      /\ ClearBefore => ClearBefore'
      /\ LastWaits => LastWaits'
  <2>1. Clear => Clear'
    BY <1>1, <1>4 DEF Clear
  <2>2. ClearBefore => ClearBefore'
    BY <1>1, <1>4 DEF ClearBefore
  <2>3. LastWaits => LastWaits'
    BY <1>1, <2>2 DEF LastWaits, Waits
  <2> QED
    BY <2>1, <2>2, <2>3
<1>6. call[c].at = "finalizing" /\ call[c].row = Len(steps) /\ CarriedOut(Len(steps))
        => CarriedOut(Len(steps))'
  <2>1. call[c].at = "finalizing" => call[c].row \in DOMAIN steps
    BY DEF StoryInv, AllOwned, Owned
  <2> QED
    BY <1>1, <1>4, <2>1
<1>7. execution' = "COMPLETED" => execution = "COMPLETED"
  BY ElsewhereCompletesNothing
<1> QED
  BY <1>1, <1>3, <1>5, <1>6, <1>7 DEF Attends

\* A call that goes on has begun, and touches no record but its own.
LEMMA AdvanceApart ==
    ASSUME Types, NEW c \in Callers, Advance(c)
    PROVE  /\ call[c].at # "idle" /\ UNCHANGED <<shown, hasty, faults>>
           /\ \A d \in Callers \ {c} : call'[d] = call[d]
<1>1. call[c].at # "idle"
  BY DEF Advance, Claim, Conflict, Recheck, FindPending, Plan, ReadMaxSequence, InsertStep,
         CallGateway, RunDirectly, Park, Retry, Finalize, Leave, At
<1>2. UNCHANGED <<shown, hasty, faults>>
  BY DEF Advance, Claim, Conflict, Recheck, FindPending, Plan, ReadMaxSequence, InsertStep,
         CallGateway, RunDirectly, Park, Retry, Finalize, Leave, consoleVars
<1>3. \A d \in Callers \ {c} : call'[d] = call[d]
  <2>1. \E record : call' = [call EXCEPT ![c] = record]
    <3> USE DEF GoHome, Goto, Result, Types
    <3>1. CASE Claim(c) \/ Conflict(c) \/ Recheck(c) \/ FindPending(c) \/ Leave(c)
      BY <3>1 DEF Claim, Conflict, Recheck, FindPending, Leave
    <3>2. CASE Plan(c) \/ ReadMaxSequence(c) \/ InsertStep(c)
      BY <3>2 DEF Plan, ReadMaxSequence, InsertStep
    <3>3. CASE CallGateway(c) \/ RunDirectly(c) \/ Park(c)
      BY <3>3 DEF CallGateway, RunDirectly, Park
    <3>4. CASE Retry(c) \/ Finalize(c)
      BY <3>4 DEF Retry, Finalize
    <3> QED
      BY <3>1, <3>2, <3>3, <3>4 DEF Advance
  <2> QED
    BY <2>1 DEF Types
<1> QED
  BY <1>1, <1>2, <1>3

\* Only a poll makes a look fresh, and what it shows stays so until the next call.
LEMMA ElsewhereLooks ==
    ASSUME TypeOK, NEW c \in Console, Looks(c), Elsewhere PROVE Looks(c)'
<1>1. UNCHANGED <<steps, call>> /\ (Waits(Len(steps))' <=> Waits(Len(steps)))
  BY ElsewhereFacts DEF stepVars, Waits
<1>2. CASE UNCHANGED shown
  BY <1>1, <1>2 DEF Looks
<1>3. ASSUME NEW d \in Console, Poll(d) PROVE Looks(c)'
  <2>1. CASE d = c
    <3>0. PICK idle \in BOOLEAN : idle = (call[c].at = "idle")
      BY Zenon
    <3>1. shown'[c] = [next |-> Offer, fresh |-> idle]
      <4>1. idle = At(c, "idle")
        BY <3>0 DEF At
      <4>2. shown' = [shown EXCEPT ![c] = [next |-> Offer, fresh |-> idle]]
        BY <1>3, <2>1, <4>1, Zenon DEF Poll
      <4> QED
        BY <4>2 DEF TypeOK, ConsoleTypeOK
    <3>2. Offer = "step" => ~Waits(Len(steps))
      BY DEF Offer
    <3>3. Offer = "resume" => Waits(Len(steps))
      BY DEF Offer
    <3> QED
      <4>1. shown'[c].next = Offer /\ shown'[c].fresh = idle
        BY <3>1
      <4>2. call'[c].at = call[c].at
        BY <1>1
      <4>3. ASSUME shown'[c].fresh
            PROVE  /\ call'[c].at = "idle"
                   /\ shown'[c].next = "step" => ~Waits(Len(steps))'
                   /\ shown'[c].next = "resume" => Waits(Len(steps))'
        <5>1. call'[c].at = "idle"
          BY <3>0, <4>1, <4>2, <4>3
        <5>2. shown'[c].next = "step" => ~Waits(Len(steps))'
          BY <1>1, <3>2, <4>1
        <5>3. shown'[c].next = "resume" => Waits(Len(steps))'
          BY <1>1, <3>3, <4>1
        <5> QED
          BY <5>1, <5>2, <5>3
      <4> QED
        BY <4>3 DEF Looks
  <2>2. CASE d # c
    BY <1>1, <1>3, <2>2 DEF Poll, Looks, TypeOK, ConsoleTypeOK
  <2> QED
    BY <2>1, <2>2
<1>4. Elsewhere /\ (\A d \in Console : ~Poll(d)) => UNCHANGED shown
  BY DEF Elsewhere, Expire, Cancel, Overrun, Resolve, Abandon, consoleVars, vars
<1> QED
  BY <1>2, <1>3, <1>4

\* What nobody can do without a fault or a call on an older look.
LEMMA QuietSteps ==
    ASSUME TypeOK, [Next]_vars, faults' = 0, ~hasty'
    PROVE  /\ faults = 0 /\ ~hasty
           /\ \A c \in Callers : ~Raise(c) /\ ~Crash(c)
           /\ \A c \in Callers \ Console, op \in Ops : ~Enter(c, op)
<1>0. faults \in Nat /\ hasty \in BOOLEAN
  BY RuntimeAssumption DEF TypeOK, ConsoleTypeOK
<1>1. ~Fail
  BY <1>0 DEF Fail
<1>2. \A c \in Callers : ~Raise(c) /\ ~Crash(c)
  BY <1>1 DEF Raise, Crash
<1>3. \A c \in Callers \ Console, op \in Ops : ~Enter(c, op)
  BY DEF Enter, Ticks
<1>4. ASSUME NEW c \in Callers, Advance(c) PROVE UNCHANGED <<faults, hasty>>
  BY <1>4, AdvanceApart, StepFacts
<1>5. ASSUME NEW c \in Callers, NEW op \in Ops, Enter(c, op) PROVE UNCHANGED faults /\ ~hasty
  BY <1>5, <1>3 DEF Enter, Ticks
<1>6. Elsewhere => UNCHANGED <<faults, hasty>>
  BY <1>1 DEF Elsewhere, Expire, Cancel, Poll, Overrun, Resolve, Abandon, consoleVars, vars
<1>7. Elsewhere \/ \E c \in Callers : Advance(c) \/ \E op \in Ops : Enter(c, op)
  BY <1>2 DEF Next, Elsewhere
<1> QED
  BY <1>2, <1>3, <1>4, <1>5, <1>6, <1>7

LEMMA ConsoleStep ==
    ASSUME OneConsole, StoryInv, ConsoleInv, [Next]_vars PROVE ConsoleInv'
<1> SUFFICES ASSUME faults' = 0, ~hasty' PROVE (Gone \/ Undisturbed)'
  BY DEF ConsoleInv
<1>0. TypeOK /\ Types /\ Console \subseteq Callers
  BY StepFacts, RuntimeAssumption DEF StoryInv
<1>1. /\ faults = 0 /\ ~hasty
      /\ \A c \in Callers : ~Raise(c) /\ ~Crash(c)
      /\ \A c \in Callers \ Console, op \in Ops : ~Enter(c, op)
  BY <1>0, QuietSteps
<1>2. CASE Gone
  BY <1>2, GoneStays
<1>3. CASE Undisturbed
  <2>0. PICK c : Console = {c}
    BY DEF OneConsole
  <2>1. c \in Callers /\ Attends(c) /\ Looks(c)
    BY <1>0, <1>3, <2>0 DEF Undisturbed
  <2>2. CASE Advance(c)
    <3>1. Gone' \/ Attends(c)'
      BY <2>1, <2>2, ClaimAttends, ReturnAttends, RecheckAttends, FindAttends, PlanAttends,
         InsertAttends, GatewayAttends, ParkAttends, RetryAttends, FinalizeAttends DEF Advance
    <3>2. Looks(c)' /\ \A d \in Callers \ {c} : call'[d] = call[d]
      BY <1>0, <2>1, <2>2, AdvanceApart DEF Looks
    <3> QED
      BY <1>3, <2>0, <3>1, <3>2 DEF Undisturbed
  <2>3. ASSUME NEW op \in Ops, Enter(c, op) PROVE Undisturbed'
    <3>1. Attends(c)'
      BY <2>0, <2>1, <2>3, EnterAttends
    <3>2. ~shown'[c].fresh
      BY <1>0, <2>0, <2>3 DEF Enter, Ticks, TypeOK, ConsoleTypeOK
    <3>3. \A d \in Callers \ {c} : call'[d] = call[d]
      BY <1>0, <2>3 DEF Enter, Types
    <3> QED
      BY <1>3, <2>0, <3>1, <3>2, <3>3 DEF Undisturbed, Looks
  <2>4. CASE Elsewhere
    <3>1. Attends(c)' /\ Looks(c)' /\ UNCHANGED call
      BY <1>0, <2>0, <2>1, <2>4, ElsewhereAttends, ElsewhereLooks, ElsewhereFacts
    <3> QED
      BY <1>3, <2>0, <3>1 DEF Undisturbed
  <2>5. ASSUME NEW d \in Callers, d # c PROVE ~Advance(d)
    BY <1>0, <1>3, <2>0, <2>5, AdvanceApart DEF Undisturbed
  <2>6. Elsewhere \/ Advance(c) \/ \E op \in Ops : Enter(c, op)
    BY <1>1, <2>0, <2>5 DEF Next, Elsewhere
  <2> QED
    BY <2>2, <2>3, <2>4, <2>6
<1> QED
  BY <1>1, <1>2, <1>3 DEF ConsoleInv

LEMMA ConsoleInit == Init => ConsoleInv
<1> SUFFICES ASSUME Init PROVE Undisturbed
  BY DEF ConsoleInv
<1>1. execution = "RUNNING" /\ DOMAIN steps = {} /\ \A c \in Callers : call[c].at = "idle"
  BY DEF Init, Idle, Engine!Init
<1>2. Clear
  BY <1>1 DEF Clear
<1>3. \A c \in Console : ~shown[c].fresh
  BY DEF Init
<1> QED
  BY <1>1, <1>2, <1>3, RuntimeAssumption DEF Undisturbed, Attends, Looks, Bearing

LEMMA RefusedIsGone == ASSUME OneConsole, StoryInv, ConsoleInv PROVE RefusalIsHeeded
<1> SUFFICES ASSUME faults = 0, ~hasty, execution = "COMPLETED", NEW i \in DOMAIN steps
             PROVE  /\ steps[i].status \notin {"BLOCKED", "WAITING_APPROVAL"}
                    /\ approval[i] \notin {"REJECTED", "EXPIRED"}
  BY DEF RefusalIsHeeded
<1>1. PICK c \in Console : Attends(c)
  BY DEF OneConsole, ConsoleInv, Undisturbed, Gone
<1>2. ClearRow(i)
  BY <1>1 DEF Attends, Clear
<1> QED
  BY <1>2 DEF ClearRow, CarriedOut

\* One console works an execution, no fault cuts a call short, and every call is made
\* on a look taken since the console's last one: then the execution does not end as
\* COMPLETED once a human refused what it wanted to do or left it unanswered, whatever
\* the operators and the clock do between the look, the call and its end.  Only the
\* latest step is ever in doubt, and the console resolves it before it takes another.
THEOREM RefusedIsNeverDone ==
    ASSUME OneConsole PROVE Spec => []RefusalIsHeeded
<1>1. Init => StoryInv /\ ConsoleInv
  BY StoryInit, ConsoleInit
<1>2. StoryInv /\ ConsoleInv /\ [Next]_vars => (StoryInv /\ ConsoleInv)'
  BY StoryStep, ConsoleStep
<1>3. StoryInv /\ ConsoleInv => RefusalIsHeeded
  BY RefusedIsGone
<1> QED
  BY <1>1, <1>2, <1>3, PTL DEF Spec

=============================================================================
