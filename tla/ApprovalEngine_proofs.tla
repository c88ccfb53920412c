----------------------- MODULE ApprovalEngine_proofs ------------------------
(* The approval engine is the gate it promises to be, and the status of the  *)
(* execution and the audit trail can be trusted, for any number of requests  *)
(* and calls.                                                                *)
EXTENDS ApprovalEngine, TLAPS

-----------------------------------------------------------------------------
(* The inductive invariant.  A claim makes its call the only owner of the    *)
(* approval: what the rows say of it follows from where that call is, and    *)
(* nobody else can change it.                                                *)

\* The status each claimed call left in its approval's row.
StatusAt(label) ==
    CASE label \in {"expired", "denying"} -> "EXPIRED"
      [] label = "rejected" -> "REJECTED"
      [] OTHER -> "APPROVED"

Owns(r) ==
    /\ approval[subject[r]] = StatusAt(pc[r])
    /\ request[subject[r]] = "REQUIRES_APPROVAL"
    /\ pc[r] \in {"approved", "announced", "running"} => runs[subject[r]] = 0

\* What an expiry loaded is still true unless the execution was cancelled.
SeenIsFresh(r) ==
    \/ seen[r] = execution
    \/ seen[r] = "WAITING_APPROVAL" /\ execution = "CANCELLED"

RowsAgree(q) ==
    /\ approval[q] = "NONE" => request[q] = "REQUESTED"
    /\ approval[q] = "PENDING" => request[q] = "REQUIRES_APPROVAL"
    /\ approval[q] = "APPROVED" => request[q] = "REQUIRES_APPROVAL"
    /\ approval[q] \notin {"APPROVED", "EXECUTED"} => runs[q] = 0
    /\ runs[q] <= 1

CallsKnowARow == \A r \in Resolvers : pc[r] # "idle" => approval[subject[r]] # "NONE"
ClaimsOwn == \A r \in Resolvers : pc[r] \in Claimed => Owns(r)
LoadsAreFresh == \A r \in Resolvers : pc[r] = "denying" => SeenIsFresh(r)
OneOwner ==
    \A r, s \in Resolvers :
        pc[r] \in Claimed /\ pc[s] \in Claimed /\ subject[r] = subject[s] => r = s
AllRowsAgree == \A q \in Requests : RowsAgree(q)
OneQuestion == \A p, q \in Requests : Unsettled(p) /\ Unsettled(q) => p = q
Waits ==
    /\ \A q \in Requests : Unsettled(q) => execution \in {"WAITING_APPROVAL", "CANCELLED"}
    /\ execution = "WAITING_APPROVAL" => \E q \in Requests : Unsettled(q)

EngineInv ==
    /\ TypeOK
    /\ CallsKnowARow
    /\ ClaimsOwn
    /\ LoadsAreFresh
    /\ OneOwner
    /\ AllRowsAgree
    /\ OneQuestion
    /\ Waits

LEMMA EngineInit == Init => EngineInv
<1> USE DEF Init
<1>1. Init => TypeOK
  BY ApprovalAssumption DEF TypeOK, ApprovalStatuses, RequestStatuses, ExecutionStatuses, Finals,
     Unclaimed, Claimed
<1>2. Init => CallsKnowARow /\ ClaimsOwn /\ LoadsAreFresh /\ OneOwner
  BY DEF CallsKnowARow, ClaimsOwn, LoadsAreFresh, OneOwner, Claimed
<1>3. Init => AllRowsAgree /\ OneQuestion /\ Waits
  BY DEF AllRowsAgree, RowsAgree, OneQuestion, Waits, Unsettled
<1> QED
  BY <1>1, <1>2, <1>3 DEF EngineInv

LEMMA EngineTypes == TypeOK /\ [Next]_vars => TypeOK'
<1> SUFFICES ASSUME TypeOK, [Next]_vars PROVE TypeOK'
  OBVIOUS
<1> USE ApprovalAssumption
    DEF TypeOK, ApprovalStatuses, RequestStatuses, ExecutionStatuses, Finals, Events,
        Unclaimed, Claimed, Goto, Record, rows, calls, history, vars
<1>1. CASE Cancel
  BY <1>1 DEF Cancel
<1>2. CASE Finish
  BY <1>2 DEF Finish
<1>3. ASSUME NEW q \in Requests, CreateApproval(q) PROVE TypeOK'
  BY <1>3 DEF CreateApproval, Admit
<1>4. ASSUME NEW q \in Requests, Overrun(q) PROVE TypeOK'
  BY <1>4 DEF Overrun
<1>5. ASSUME NEW r \in Resolvers, ReadApproval(r) PROVE TypeOK'
  BY <1>5 DEF ReadApproval
<1>6. ASSUME NEW r \in Resolvers, ReadClock(r) PROVE TypeOK'
  BY <1>6 DEF ReadClock
<1>7. ASSUME NEW r \in Resolvers, CheckRequest(r) PROVE TypeOK'
  <2>1. CASE request[subject[r]] = "REQUIRES_APPROVAL"
    BY <1>7, <2>1 DEF CheckRequest
  <2>2. CASE ~(request[subject[r]] = "REQUIRES_APPROVAL")
    <3>1. Return(r) /\ UNCHANGED <<rows, overdue, history>>
      BY <1>7, <2>2 DEF CheckRequest
    <3> QED
      BY <3>1 DEF Return
  <2> QED
    BY <2>1, <2>2
<1>8. ASSUME NEW r \in Resolvers, CheckExecution(r) PROVE TypeOK'
  <2>1. CASE execution = "WAITING_APPROVAL"
    BY <1>8, <2>1 DEF CheckExecution
  <2>2. CASE ~(execution = "WAITING_APPROVAL")
    <3>1. Return(r) /\ UNCHANGED <<rows, overdue, history>>
      BY <1>8, <2>2 DEF CheckExecution
    <3> QED
      BY <3>1 DEF Return
  <2> QED
    BY <2>1, <2>2
<1>9. ASSUME NEW r \in Resolvers, Claim(r) PROVE TypeOK'
  <2>1. CASE Claimable(subject[r])
    BY <1>9, <2>1 DEF Claim
  <2>2. CASE ~(Claimable(subject[r]))
    <3>1. Return(r) /\ UNCHANGED <<rows, overdue, history>>
      BY <1>9, <2>2 DEF Claim
    <3> QED
      BY <3>1 DEF Return
  <2> QED
    BY <2>1, <2>2
<1>10. ASSUME NEW r \in Resolvers, ExpireClaim(r) PROVE TypeOK'
  <2>1. CASE Claimable(subject[r])
    BY <1>10, <2>1 DEF ExpireClaim
  <2>2. CASE ~(Claimable(subject[r]))
    <3>1. Return(r) /\ UNCHANGED <<rows, overdue, history>>
      BY <1>10, <2>2 DEF ExpireClaim
    <3> QED
      BY <3>1 DEF Return
  <2> QED
    BY <2>1, <2>2
<1>11. ASSUME NEW r \in Resolvers, LoadForExpiry(r) PROVE TypeOK'
  BY <1>11 DEF LoadForExpiry
<1>12. ASSUME NEW r \in Resolvers, ExpiryChunk(r) PROVE TypeOK'
  BY <1>12 DEF ExpiryChunk, Denied, Resumes, Return
<1>13. ASSUME NEW r \in Resolvers, RejectChunk(r) PROVE TypeOK'
  BY <1>13 DEF RejectChunk, Return
<1>14. ASSUME NEW r \in Resolvers, Announce(r) PROVE TypeOK'
  BY <1>14 DEF Announce
<1>15. ASSUME NEW r \in Resolvers, Start(r) PROVE TypeOK'
  BY <1>15 DEF Start, RecordStart
<1>16. ASSUME NEW r \in Resolvers, RunTool(r) PROVE TypeOK'
  BY <1>16 DEF RunTool
<1>17. ASSUME NEW r \in Resolvers, OutcomeChunk(r) PROVE TypeOK'
  BY <1>17 DEF OutcomeChunk, Return
<1>18. ASSUME NEW r \in Resolvers, Abandon(r) PROVE TypeOK'
  BY <1>18 DEF Abandon, Return
<1>19. CASE UNCHANGED vars
  BY <1>19
<1> QED
  BY <1>1, <1>2, <1>3, <1>4, <1>5, <1>6, <1>7, <1>8, <1>9, <1>10, <1>11, <1>12, <1>13, <1>14, <1>15, <1>16, <1>17, <1>18, <1>19 DEF Next, Proceed

-----------------------------------------------------------------------------
(* The kinds of steps a call takes, and what each does to the invariant.     *)

BeforeRun == {"approved", "announced", "running"}

\* What a claim says of its label and its rows, in the form the steps use.
LEMMA ClaimFacts ==
  ASSUME EngineInv, NEW r \in Resolvers, pc[r] \in Claimed
  PROVE  /\ subject[r] \in Requests
         /\ Owns(r)
         /\ Unsettled(subject[r])
         /\ execution \in {"WAITING_APPROVAL", "CANCELLED"}
         /\ \A q \in Requests : Unsettled(q) => q = subject[r]
<1>1. subject[r] \in Requests /\ Owns(r)
  BY DEF EngineInv, TypeOK, ClaimsOwn, Claimed
<1>2. Unsettled(subject[r])
  BY <1>1 DEF Owns, StatusAt, Unsettled, Claimed
<1> QED
  BY <1>1, <1>2 DEF EngineInv, OneQuestion, Waits

\* A step that changes no row: the call goes on, returns or dies.
LEMMA QuietStep ==
  ASSUME EngineInv, TypeOK', NEW r \in Resolvers,
         UNCHANGED <<approval, request, execution, runs>>,
         \A s \in Resolvers : s # r =>
            pc'[s] = pc[s] /\ subject'[s] = subject[s] /\ seen'[s] = seen[s],
         pc'[r] # "idle" => approval[subject'[r]] # "NONE",
         pc'[r] \in Claimed =>
            /\ pc[r] \in Claimed
            /\ subject'[r] = subject[r]
            /\ StatusAt(pc'[r]) = StatusAt(pc[r])
            /\ pc'[r] \in BeforeRun => pc[r] \in BeforeRun,
         pc'[r] = "denying" => seen'[r] = execution
  PROVE  EngineInv'
<1> USE DEF EngineInv
<1>1. CallsKnowARow'
  BY DEF CallsKnowARow
<1>2. ClaimsOwn'
  BY DEF ClaimsOwn, Owns, BeforeRun
<1>3. LoadsAreFresh'
  BY DEF LoadsAreFresh, SeenIsFresh
<1>4. OneOwner'
  BY DEF OneOwner
<1>5. AllRowsAgree' /\ OneQuestion' /\ Waits'
  BY DEF AllRowsAgree, RowsAgree, OneQuestion, Waits, Unsettled
<1> QED
  BY <1>1, <1>2, <1>3, <1>4, <1>5

\* A claim that finds the approval PENDING makes it the call's own.
LEMMA WinStep ==
  ASSUME EngineInv, TypeOK', NEW r \in Resolvers,
         NEW label \in {"expired", "rejected", "approved"},
         pc[r] \in Unclaimed,
         approval[subject[r]] = "PENDING",
         approval' = [approval EXCEPT ![subject[r]] = StatusAt(label)],
         pc' = [pc EXCEPT ![r] = label],
         UNCHANGED <<request, execution, runs, subject, seen>>
  PROVE  EngineInv'
<1> DEFINE q == subject[r]
<1>0. q \in Requests /\ Unsettled(q) /\ request[q] = "REQUIRES_APPROVAL" /\ runs[q] = 0
  BY DEF EngineInv, TypeOK, Unclaimed, AllRowsAgree, RowsAgree, Unsettled
<1>1. StatusAt(label) \in {"APPROVED", "REJECTED", "EXPIRED"} /\ label \in Claimed
  BY DEF StatusAt, Claimed
<1>2. \A p \in Requests : Unsettled(p)' <=> Unsettled(p)
  BY <1>0, <1>1 DEF Unsettled, EngineInv, TypeOK
<1>3. \A s \in Resolvers : s # r /\ pc[s] \in Claimed => subject[s] # q
  BY DEF EngineInv, ClaimsOwn, Owns, StatusAt
<1>4. CallsKnowARow'
  BY <1>0, <1>1 DEF EngineInv, TypeOK, CallsKnowARow, Unclaimed
<1>5. ClaimsOwn'
  <2> SUFFICES ASSUME NEW s \in Resolvers, pc'[s] \in Claimed PROVE Owns(s)'
    BY DEF ClaimsOwn
  <2>1. CASE s = r
    BY <1>0, <1>1, <2>1 DEF EngineInv, TypeOK, Owns
  <2>2. CASE s # r
    BY <1>3, <2>2 DEF EngineInv, TypeOK, ClaimsOwn, Owns, Claimed
  <2> QED
    BY <2>1, <2>2
<1>6. LoadsAreFresh'
  BY DEF EngineInv, TypeOK, LoadsAreFresh, SeenIsFresh
<1>7. OneOwner'
  BY <1>3 DEF EngineInv, TypeOK, OneOwner
<1>8. AllRowsAgree'
  BY <1>0, <1>1 DEF EngineInv, TypeOK, AllRowsAgree, RowsAgree
<1>9. OneQuestion' /\ Waits'
  BY <1>2 DEF EngineInv, OneQuestion, Waits
<1> QED
  BY <1>4, <1>5, <1>6, <1>7, <1>8, <1>9 DEF EngineInv

\* The chunk that settles a claimed approval; only a cancelled execution is
\* left as it is.
LEMMA SettleStep ==
  ASSUME EngineInv, TypeOK', NEW r \in Resolvers, pc[r] \in Claimed,
         NEW status \in {"DENIED", "EXECUTED", "FAILED"},
         request' = [request EXCEPT ![subject[r]] = status],
         \/ approval' = approval /\ approval[subject[r]] \in {"REJECTED", "EXPIRED"}
         \/ approval' = [approval EXCEPT ![subject[r]] = "EXECUTED"],
         execution' = "RUNNING" \/ (execution = "CANCELLED" /\ execution' = execution),
         Return(r), UNCHANGED runs
  PROVE  EngineInv'
<1> DEFINE q == subject[r]
<1>0. /\ q \in Requests /\ \A p \in Requests : Unsettled(p) => p = q
      /\ Owns(r)
  BY ClaimFacts
<1>1. \A p \in Requests : ~Unsettled(p)'
  BY <1>0 DEF Unsettled, EngineInv, TypeOK
<1>2. \A s \in Resolvers : pc'[s] = IF s = r THEN "idle" ELSE pc[s]
  BY DEF Return, Goto, EngineInv, TypeOK
<1>3. \A s \in Resolvers : s # r => subject'[s] = subject[s] /\ seen'[s] = seen[s]
  BY DEF Return, EngineInv, TypeOK
<1>4. \A s \in Resolvers : pc'[s] \notin Claimed
  <2> SUFFICES ASSUME NEW s \in Resolvers, s # r, pc[s] \in Claimed PROVE FALSE
    BY <1>2 DEF Claimed
  <2>1. Unsettled(subject[s]) /\ subject[s] \in Requests
    BY ClaimFacts
  <2>2. subject[s] = q
    BY <1>0, <2>1
  <2> QED
    BY <2>2 DEF EngineInv, OneOwner
<1>5. CallsKnowARow'
  BY <1>0, <1>2, <1>3 DEF EngineInv, TypeOK, CallsKnowARow
<1>6. ClaimsOwn' /\ LoadsAreFresh' /\ OneOwner'
  BY <1>4 DEF ClaimsOwn, LoadsAreFresh, OneOwner, Claimed
<1>7. AllRowsAgree'
  BY <1>0 DEF EngineInv, TypeOK, AllRowsAgree, RowsAgree
<1>8. OneQuestion' /\ Waits'
  BY <1>1 DEF OneQuestion, Waits
<1> QED
  BY <1>5, <1>6, <1>7, <1>8 DEF EngineInv

-----------------------------------------------------------------------------

LEMMA EngineStep == EngineInv /\ [Next]_vars => EngineInv'
<1> SUFFICES ASSUME EngineInv, [Next]_vars PROVE EngineInv'
  OBVIOUS
<1>t. TypeOK'
  BY EngineTypes DEF EngineInv
<1>u. ASSUME NEW r \in Resolvers, Return(r), UNCHANGED <<rows, runs>>
      PROVE  EngineInv'
  <2>1. pc'[r] = "idle" /\ \A s \in Resolvers : s # r =>
            pc'[s] = pc[s] /\ subject'[s] = subject[s] /\ seen'[s] = seen[s]
    BY <1>u DEF Return, Goto, EngineInv, TypeOK
  <2> QED
    BY <1>t, <1>u, <2>1, QuietStep DEF rows, Claimed
<1>1. CASE Cancel
  <2>1. UNCHANGED <<approval, request, runs, pc, subject, seen>>
    BY <1>1 DEF Cancel, calls, history
  <2>2. \A q \in Requests : Unsettled(q)' = Unsettled(q)
    BY <2>1 DEF Unsettled
  <2>3. execution' = "CANCELLED" /\ execution \in {"RUNNING", "WAITING_APPROVAL"}
    BY <1>1 DEF Cancel
  <2>4. LoadsAreFresh'
    <3> SUFFICES ASSUME NEW r \in Resolvers, pc[r] = "denying" PROVE SeenIsFresh(r)'
      BY <2>1 DEF LoadsAreFresh
    <3>1. execution = "WAITING_APPROVAL"
      BY <2>3, ClaimFacts DEF Claimed
    <3> QED
      BY <2>1, <2>3, <3>1 DEF EngineInv, LoadsAreFresh, SeenIsFresh
  <2>5. CallsKnowARow' /\ ClaimsOwn' /\ OneOwner' /\ AllRowsAgree'
    BY <2>1 DEF EngineInv, CallsKnowARow, ClaimsOwn, Owns, OneOwner, AllRowsAgree, RowsAgree
  <2>6. OneQuestion' /\ Waits'
    BY <2>2, <2>3 DEF EngineInv, OneQuestion, Waits
  <2> QED
    BY <1>t, <2>4, <2>5, <2>6 DEF EngineInv
<1>2. ASSUME execution = "RUNNING"
      PROVE  \A r \in Resolvers : pc[r] \notin Claimed
  BY <1>2, ClaimFacts
<1>3. CASE Finish
  <2>1. UNCHANGED <<approval, request, runs, pc, subject, seen>>
        /\ execution = "RUNNING" /\ execution' \in {"COMPLETED", "FAILED", "BLOCKED"}
    BY <1>3 DEF Finish, Finals, calls, history
  <2>2. \A q \in Requests : ~Unsettled(q) /\ Unsettled(q)' = Unsettled(q)
    BY <2>1 DEF Unsettled, EngineInv, Waits
  <2>3. CallsKnowARow' /\ ClaimsOwn' /\ OneOwner' /\ AllRowsAgree' /\ LoadsAreFresh'
    BY <1>2, <2>1 DEF EngineInv, CallsKnowARow, ClaimsOwn, Owns, OneOwner, AllRowsAgree,
       RowsAgree, LoadsAreFresh, Claimed
  <2> QED
    BY <1>t, <2>1, <2>2, <2>3 DEF EngineInv, OneQuestion, Waits
<1>4. ASSUME NEW q \in Requests, CreateApproval(q) PROVE EngineInv'
  <2>1. /\ UNCHANGED <<runs, pc, subject, seen>>
        /\ approval[q] = "NONE" /\ execution = "RUNNING"
        /\ execution' = "WAITING_APPROVAL"
        /\ approval' = [approval EXCEPT ![q] = "PENDING"]
        /\ request' = [request EXCEPT ![q] = "REQUIRES_APPROVAL"]
    BY <1>4 DEF CreateApproval, Admit, calls, history
  <2>2. \A p \in Requests : Unsettled(p)' <=> p = q
    BY <2>1 DEF Unsettled, EngineInv, TypeOK, Waits
  <2>3. \A r \in Resolvers : pc[r] \notin Claimed
    BY <1>2, <2>1
  <2>4. CallsKnowARow'
    BY <2>1 DEF EngineInv, TypeOK, CallsKnowARow
  <2>5. ClaimsOwn' /\ LoadsAreFresh' /\ OneOwner'
    BY <2>1, <2>3 DEF ClaimsOwn, LoadsAreFresh, OneOwner, Claimed
  <2>6. AllRowsAgree'
    BY <2>1 DEF EngineInv, TypeOK, AllRowsAgree, RowsAgree
  <2> QED
    BY <1>t, <2>1, <2>2, <2>4, <2>5, <2>6 DEF EngineInv, OneQuestion, Waits
<1>5. ASSUME NEW q \in Requests, Overrun(q) PROVE EngineInv'
  <2>1. UNCHANGED <<approval, request, execution, runs, pc, subject, seen>>
    BY <1>5 DEF Overrun, rows, calls, history
  <2> QED
    BY <1>t, <2>1 DEF EngineInv, CallsKnowARow, ClaimsOwn, Owns, OneOwner, AllRowsAgree,
       RowsAgree, LoadsAreFresh, SeenIsFresh, OneQuestion, Waits, Unsettled
<1>6. ASSUME NEW r \in Resolvers, ReadApproval(r) PROVE EngineInv'
  BY <1>6, <1>t, QuietStep
  DEF ReadApproval, Goto, rows, history, EngineInv, TypeOK, Claimed
<1>7. ASSUME NEW r \in Resolvers, ReadClock(r) PROVE EngineInv'
  BY <1>7, <1>t, QuietStep
  DEF ReadClock, Goto, rows, history, EngineInv, TypeOK, CallsKnowARow, Claimed
<1>8. ASSUME NEW r \in Resolvers, CheckRequest(r) PROVE EngineInv'
  <2>1. CASE request[subject[r]] = "REQUIRES_APPROVAL"
    BY <1>8, <1>t, <2>1, QuietStep
    DEF CheckRequest, Goto, rows, history, EngineInv, TypeOK, CallsKnowARow, Claimed
  <2>2. CASE request[subject[r]] # "REQUIRES_APPROVAL"
    BY <1>8, <1>u, <2>2 DEF CheckRequest, history
  <2> QED
    BY <2>1, <2>2
<1>9. ASSUME NEW r \in Resolvers, CheckExecution(r) PROVE EngineInv'
  <2>1. CASE execution = "WAITING_APPROVAL"
    BY <1>9, <1>t, <2>1, QuietStep
    DEF CheckExecution, Goto, rows, history, EngineInv, TypeOK, CallsKnowARow, Claimed
  <2>2. CASE execution # "WAITING_APPROVAL"
    BY <1>9, <1>u, <2>2 DEF CheckExecution, history
  <2> QED
    BY <2>1, <2>2
<1>10. ASSUME NEW r \in Resolvers, Claim(r) PROVE EngineInv'
  <2>1. CASE Claimable(subject[r])
    <3> DEFINE label == IF approve[r] THEN "approved" ELSE "rejected"
    <3>1. /\ approval' = [approval EXCEPT ![subject[r]] = StatusAt(label)]
          /\ label \in {"expired", "rejected", "approved"}
      BY <1>10, <2>1 DEF Claim, StatusAt
    <3>2. /\ pc[r] \in Unclaimed /\ approval[subject[r]] = "PENDING"
          /\ pc' = [pc EXCEPT ![r] = label]
          /\ UNCHANGED <<request, execution, runs, subject, seen>>
      BY <1>10, <2>1 DEF Claim, Goto, Claimable, Unclaimed, history
    <3> QED
      BY <1>t, <3>1, <3>2, WinStep
  <2>2. CASE ~Claimable(subject[r])
    BY <1>10, <1>u, <2>2 DEF Claim, rows, history
  <2> QED
    BY <2>1, <2>2
<1>11. ASSUME NEW r \in Resolvers, ExpireClaim(r) PROVE EngineInv'
  <2>1. CASE Claimable(subject[r])
    <3>1. approval' = [approval EXCEPT ![subject[r]] = StatusAt("expired")]
      BY <1>11, <2>1 DEF ExpireClaim, StatusAt
    <3>2. /\ pc[r] \in Unclaimed /\ approval[subject[r]] = "PENDING"
          /\ pc' = [pc EXCEPT ![r] = "expired"]
          /\ UNCHANGED <<request, execution, runs, subject, seen>>
      BY <1>11, <2>1 DEF ExpireClaim, Goto, Claimable, Unclaimed, history
    <3> QED
      BY <1>t, <3>1, <3>2, WinStep
  <2>2. CASE ~Claimable(subject[r])
    BY <1>11, <1>u, <2>2 DEF ExpireClaim, rows, history
  <2> QED
    BY <2>1, <2>2
<1>12. ASSUME NEW r \in Resolvers, LoadForExpiry(r) PROVE EngineInv'
  BY <1>12, <1>t, QuietStep
  DEF LoadForExpiry, Goto, rows, history, EngineInv, TypeOK, CallsKnowARow, Claimed,
      StatusAt, BeforeRun
<1>13. ASSUME NEW r \in Resolvers, ExpiryChunk(r) PROVE EngineInv'
  <2>1. /\ pc[r] = "denying" /\ pc[r] \in Claimed
        /\ request' = [request EXCEPT ![subject[r]] = Denied(@)]
        /\ execution' = IF Resumes(r) THEN "RUNNING" ELSE execution
        /\ Return(r) /\ UNCHANGED <<approval, runs>>
    BY <1>13 DEF ExpiryChunk, history, Claimed
  <2>2. /\ approval[subject[r]] = "EXPIRED" /\ request[subject[r]] = "REQUIRES_APPROVAL"
        /\ execution \in {"WAITING_APPROVAL", "CANCELLED"}
    BY <2>1, ClaimFacts DEF Owns, StatusAt
  <2>3. request' = [request EXCEPT ![subject[r]] = "DENIED"]
    BY <2>1, <2>2 DEF Denied
  <2>4. execution' = "RUNNING" \/ (execution = "CANCELLED" /\ execution' = execution)
    BY <2>1, <2>2 DEF Resumes, EngineInv, LoadsAreFresh, SeenIsFresh
  <2> QED
    BY <1>t, <2>1, <2>2, <2>3, <2>4, SettleStep
<1>14. ASSUME NEW r \in Resolvers, RejectChunk(r) PROVE EngineInv'
  <2>1. pc[r] \in Claimed /\ approval[subject[r]] = "REJECTED"
    BY <1>14, ClaimFacts DEF RejectChunk, Owns, StatusAt, Claimed
  <2> QED
    BY <1>14, <1>t, <2>1, SettleStep DEF RejectChunk, history
<1>15. ASSUME NEW r \in Resolvers, Announce(r) PROVE EngineInv'
  BY <1>15, <1>t, QuietStep
  DEF Announce, Goto, history, EngineInv, TypeOK, CallsKnowARow, Claimed, StatusAt, BeforeRun
<1>16. ASSUME NEW r \in Resolvers, Start(r) PROVE EngineInv'
  BY <1>16, <1>t, QuietStep
  DEF Start, Goto, history, EngineInv, TypeOK, CallsKnowARow, Claimed, StatusAt, BeforeRun
<1>17. ASSUME NEW r \in Resolvers, RunTool(r) PROVE EngineInv'
  <2>1. /\ pc[r] = "running" /\ pc' = [pc EXCEPT ![r] = "recording"]
        /\ UNCHANGED <<approval, request, execution, subject, seen>>
    BY <1>17 DEF RunTool, Goto, rows
  <2>2. /\ subject[r] \in Requests /\ approval[subject[r]] = "APPROVED"
        /\ runs[subject[r]] = 0
    BY <2>1, ClaimFacts DEF Owns, StatusAt, Claimed
  <2>3. \A q \in Requests : q # subject[r] => runs'[q] = runs[q]
    BY <1>17 DEF RunTool, EngineInv, TypeOK
  <2>4. runs'[subject[r]] \in {0, 1}
    BY <1>17, <2>2 DEF RunTool, EngineInv, TypeOK
  <2>5. \A s \in Resolvers : s # r => pc'[s] = pc[s]
    BY <2>1 DEF EngineInv, TypeOK
  <2>6. pc'[r] = "recording"
    BY <2>1 DEF EngineInv, TypeOK
  <2>7. ClaimsOwn'
    <3> SUFFICES ASSUME NEW s \in Resolvers, pc'[s] \in Claimed PROVE Owns(s)'
      BY DEF ClaimsOwn
    <3>1. CASE s = r
      BY <2>1, <2>2, <2>6, <3>1, ClaimFacts DEF Owns, StatusAt, Claimed
    <3>2. CASE s # r
      <4>1. subject[s] # subject[r] /\ subject[s] \in Requests /\ Owns(s)
        BY <2>1, <2>5, <3>2, ClaimFacts DEF EngineInv, OneOwner, Claimed
      <4> QED
        BY <2>1, <2>3, <2>5, <3>2, <4>1 DEF Owns
    <3> QED
      BY <3>1, <3>2
  <2>8. CallsKnowARow' /\ LoadsAreFresh' /\ OneOwner'
    BY <2>1, <2>5, <2>6
    DEF EngineInv, CallsKnowARow, LoadsAreFresh, SeenIsFresh, OneOwner, Claimed
  <2>9. AllRowsAgree'
    BY <2>1, <2>2, <2>3, <2>4 DEF EngineInv, AllRowsAgree, RowsAgree
  <2>10. OneQuestion' /\ Waits'
    BY <2>1 DEF EngineInv, OneQuestion, Waits, Unsettled
  <2> QED
    BY <1>t, <2>7, <2>8, <2>9, <2>10 DEF EngineInv
<1>18. ASSUME NEW r \in Resolvers, OutcomeChunk(r) PROVE EngineInv'
  <2>1. pc[r] \in Claimed /\ outcome[r] \in {"DENIED", "EXECUTED", "FAILED"}
    BY <1>18 DEF OutcomeChunk, Claimed, EngineInv, TypeOK
  <2> QED
    BY <1>18, <1>t, <2>1, SettleStep DEF OutcomeChunk, history
<1>19. ASSUME NEW r \in Resolvers, Abandon(r) PROVE EngineInv'
  BY <1>19, <1>u DEF Abandon
<1>20. CASE UNCHANGED vars
  BY <1>20, <1>t
  DEF vars, rows, calls, history, EngineInv, CallsKnowARow, ClaimsOwn, Owns, OneOwner,
      AllRowsAgree, RowsAgree, LoadsAreFresh, SeenIsFresh, OneQuestion, Waits, Unsettled
<1> QED
  BY <1>1, <1>3, <1>4, <1>5, <1>6, <1>7, <1>8, <1>9, <1>10, <1>11, <1>12, <1>13, <1>14,
     <1>15, <1>16, <1>17, <1>18, <1>19, <1>20 DEF Next, Proceed

THEOREM EngineInvariant == Spec => []EngineInv
  BY EngineInit, EngineStep, PTL DEF Spec

-----------------------------------------------------------------------------

\* The statuses and the calls' locals keep to their types.
THEOREM TypeCorrect == Spec => []TypeOK
<1>1. EngineInv => TypeOK
  BY DEF EngineInv
<1> QED
  BY <1>1, EngineInvariant, PTL

\* RUNNING means that no approval is open or in flight, WAITING_APPROVAL that
\* there is one to wait for.
THEOREM StatusIsTrue == Spec => []StatusTellsTheWait
<1>1. EngineInv => StatusTellsTheWait
  BY DEF EngineInv, Waits, StatusTellsTheWait
<1> QED
  BY <1>1, EngineInvariant, PTL

\* Past its expiry an approval can only expire.
THEOREM OnlyExpires == Spec => TooLateExpires
<1> DEFINE Kept == \A q \in Requests : TooLate(q) => TooLate(q)' \/ approval'[q] = "EXPIRED"
<1>1. EngineInv /\ [Next]_vars => Kept
  <2> SUFFICES ASSUME EngineInv, [Next]_vars, NEW q \in Requests, TooLate(q),
                      approval'[q] # "EXPIRED"
               PROVE  TooLate(q)'
    OBVIOUS
  <2>0. TypeOK /\ approval[q] = "PENDING" /\ q \in overdue
    BY DEF EngineInv, TooLate
  <2>1. \A r \in Resolvers : pc[r] \notin {"idle", "reading_clock", "expiring"} => subject[r] # q
    BY DEF TooLate
  <2>2. q \in overdue'
    BY <2>0 DEF Next, Proceed, Cancel, Finish, CreateApproval, Overrun, ReadApproval,
       ReadClock, CheckRequest, CheckExecution, Claim, ExpireClaim, LoadForExpiry,
       ExpiryChunk, RejectChunk, Announce, Start, RunTool, OutcomeChunk, Abandon, vars
  <2>3. approval'[q] = "PENDING"
    <3>1. ASSUME NEW p \in Requests, CreateApproval(p) PROVE approval'[q] = "PENDING"
      BY <2>0, <3>1 DEF CreateApproval, TypeOK
    <3>2. ASSUME NEW r \in Resolvers, Claim(r) PROVE approval'[q] = "PENDING"
      BY <2>0, <2>1, <3>2 DEF Claim, TypeOK
    <3>3. ASSUME NEW r \in Resolvers, ExpireClaim(r) PROVE approval'[q] = "PENDING"
      BY <2>0, <3>3 DEF ExpireClaim, TypeOK
    <3>4. ASSUME NEW r \in Resolvers, OutcomeChunk(r) PROVE approval'[q] = "PENDING"
      BY <2>0, <2>1, <3>4 DEF OutcomeChunk, TypeOK
    <3> QED
      BY <2>0, <3>1, <3>2, <3>3, <3>4 DEF Next, Proceed, Cancel, Finish, Overrun, ReadApproval,
         ReadClock, CheckRequest, CheckExecution, LoadForExpiry,
         ExpiryChunk, RejectChunk, Announce, Start, RunTool, Abandon, vars, rows
  <2>4. ASSUME NEW r \in Resolvers, subject'[r] = q
        PROVE  pc'[r] \in {"reading_clock", "expiring"}
    <3> DEFINE Ready == pc'[r] \in {"reading_clock", "expiring"}
    <3>0. q # NoRequest /\ (subject[r] = q => pc[r] \in {"reading_clock", "expiring"})
      BY <2>1, <2>0, ApprovalAssumption DEF TypeOK
    <3>1. CASE UNCHANGED <<pc, subject>>
      BY <2>4, <3>0, <3>1
    <3>2. ASSUME NEW s \in Resolvers, Return(s) PROVE Ready
      BY <2>0, <2>4, <3>0, <3>2 DEF Return, Goto, TypeOK
    <3>3. ASSUME NEW s \in Resolvers, NEW label, Goto(s, label), UNCHANGED subject,
                 pc[s] \notin {"idle", "reading_clock", "expiring"}
          PROVE  Ready
      BY <2>0, <2>4, <3>0, <3>3 DEF Goto, TypeOK
    <3>4. ASSUME NEW s \in Resolvers, ReadApproval(s) PROVE Ready
      BY <2>0, <2>4, <3>0, <3>4 DEF ReadApproval, Goto, TypeOK
    <3>5. ASSUME NEW s \in Resolvers, ReadClock(s) PROVE Ready
      BY <2>0, <2>4, <3>0, <3>5 DEF ReadClock, Late, Goto, TypeOK
    <3>6. ASSUME NEW s \in Resolvers, CheckRequest(s) PROVE Ready
      BY <3>2, <3>3, <3>6 DEF CheckRequest
    <3>7. ASSUME NEW s \in Resolvers, CheckExecution(s) PROVE Ready
      BY <3>2, <3>3, <3>7 DEF CheckExecution
    <3>8. ASSUME NEW s \in Resolvers, Claim(s) PROVE Ready
      BY <3>2, <3>3, <3>8 DEF Claim
    <3>9. ASSUME NEW s \in Resolvers, ExpireClaim(s) PROVE Ready
      <4>1. CASE s = r /\ Claimable(subject[s])
        <5>1. subject[s] = q /\ approval'[q] = "EXPIRED"
          BY <2>0, <2>4, <3>9, <4>1 DEF ExpireClaim, TypeOK
        <5> QED
          BY <5>1
      <4>2. CASE s # r /\ Claimable(subject[s])
        BY <2>0, <2>4, <3>0, <3>9, <4>2 DEF ExpireClaim, Goto, TypeOK
      <4>3. CASE ~Claimable(subject[s])
        BY <3>2, <3>9, <4>3 DEF ExpireClaim
      <4> QED
        BY <4>1, <4>2, <4>3
    <3>10. ASSUME NEW s \in Resolvers,
                  LoadForExpiry(s) \/ Announce(s) \/ Start(s) \/ RunTool(s)
           PROVE  Ready
      BY <3>3, <3>10 DEF LoadForExpiry, Announce, Start, RunTool
    <3>11. ASSUME NEW s \in Resolvers,
                  ExpiryChunk(s) \/ RejectChunk(s) \/ OutcomeChunk(s) \/ Abandon(s)
           PROVE  Ready
      BY <3>2, <3>11 DEF ExpiryChunk, RejectChunk, OutcomeChunk, Abandon
    <3> QED
      BY <3>1, <3>4, <3>5, <3>6, <3>7, <3>8, <3>9, <3>10, <3>11
      DEF Next, Proceed, Cancel, Finish, CreateApproval, Overrun, vars, calls
  <2> QED
    BY <2>2, <2>3, <2>4 DEF TooLate
<1> QED
  BY <1>1, EngineInvariant, PTL DEF Spec, TooLateExpires

-----------------------------------------------------------------------------
(* The trail.  A call that is about to run its tool has put the approval and *)
(* the start on record, and what a chunk records of a request that is still  *)
(* open is all that the trail says of how it was settled.                    *)

StoryOf(q) ==
    /\ runs[q] > 0 => {"APPROVAL_APPROVED", "APPROVED_ACTION_EXECUTION_STARTED"} \subseteq trail[q]
    /\ request[q] = "DENIED" <=> trail[q] \cap {"APPROVAL_REJECTED", "APPROVAL_EXPIRED"} # {}
    /\ request[q] = "EXECUTED" <=> "APPROVED_ACTION_EXECUTED" \in trail[q]
    /\ request[q] = "FAILED" <=> "APPROVED_ACTION_FAILED" \in trail[q]

OnRecord(r) ==
    /\ pc[r] \in {"announced", "running"} => "APPROVAL_APPROVED" \in trail[subject[r]]
    /\ pc[r] = "running" => "APPROVED_ACTION_EXECUTION_STARTED" \in trail[subject[r]]

Told == (\A q \in Requests : StoryOf(q)) /\ (\A r \in Resolvers : OnRecord(r))

\* A step that records nothing about a settlement.
LEMMA ToldStays ==
  ASSUME EngineInv, EngineInv', Told, UNCHANGED <<request, runs, trail>>,
         \A r \in Resolvers :
            pc'[r] \in {"announced", "running"} => pc'[r] = pc[r] /\ subject'[r] = subject[r]
  PROVE  Told'
<1>1. \A q \in Requests : StoryOf(q)'
  BY DEF Told, StoryOf
<1>2. \A r \in Resolvers : OnRecord(r)'
  BY DEF Told, OnRecord
<1> QED
  BY <1>1, <1>2 DEF Told

\* The record of one event of q.
LEMMA Recorded ==
  ASSUME TypeOK, NEW q \in Requests, NEW event, Record(q, event)
  PROVE  /\ trail'[q] = trail[q] \cup {event}
         /\ \A p \in Requests : p # q => trail'[p] = trail[p]
         /\ \A p \in Requests : trail[p] \subseteq trail'[p]
  BY DEF TypeOK, Record

LEMMA Returned ==
  ASSUME TypeOK, NEW r \in Resolvers, Return(r)
  PROVE  \A s \in Resolvers :
            pc'[s] \in {"announced", "running"} => pc'[s] = pc[s] /\ subject'[s] = subject[s]
  BY DEF TypeOK, Return, Goto

\* A chunk that settles the request its call owns.
LEMMA SettledIsTold ==
  ASSUME EngineInv, Told, NEW r \in Resolvers, pc[r] \in Claimed, Return(r), UNCHANGED runs,
         NEW status \in {"DENIED", "EXECUTED", "FAILED"},
         request' = [request EXCEPT ![subject[r]] = status],
         NEW event, Record(subject[r], event),
         \/ status = "DENIED" /\ event \in {"APPROVAL_REJECTED", "APPROVAL_EXPIRED"}
         \/ status = "EXECUTED" /\ event = "APPROVED_ACTION_EXECUTED"
         \/ status = "FAILED" /\ event = "APPROVED_ACTION_FAILED"
  PROVE  Told'
<1>0. PICK q : q = subject[r]
  OBVIOUS
<1>1. TypeOK /\ q \in Requests /\ request[q] = "REQUIRES_APPROVAL" /\ StoryOf(q)
  BY <1>0, ClaimFacts DEF EngineInv, Owns, Told
<1>2. /\ trail'[q] = trail[q] \cup {event}
      /\ \A p \in Requests : p # q => trail'[p] = trail[p]
      /\ \A p \in Requests : trail[p] \subseteq trail'[p]
  BY <1>0, <1>1, Recorded
<1>3. request'[q] = status /\ \A p \in Requests : p # q => request'[p] = request[p]
  BY <1>0, <1>1 DEF TypeOK
<1>4. StoryOf(q)'
  BY <1>1, <1>2, <1>3 DEF StoryOf
<1>5. \A p \in Requests : p # q => StoryOf(p)'
  BY <1>2, <1>3 DEF Told, StoryOf
<1>6. ASSUME NEW s \in Resolvers PROVE OnRecord(s)'
  <2>1. pc'[s] \in {"announced", "running"} =>
           pc'[s] = pc[s] /\ subject'[s] = subject[s] /\ subject[s] \in Requests
    BY <1>1, Returned, ClaimFacts DEF Claimed
  <2> QED
    BY <1>2, <2>1 DEF Told, OnRecord
<1> QED
  BY <1>4, <1>5, <1>6 DEF Told

\* An event that says nothing of a settlement.
LEMMA SteppedIsTold ==
  ASSUME EngineInv, Told, NEW q \in Requests, UNCHANGED runs,
         NEW event \in {"APPROVAL_REQUESTED", "APPROVAL_APPROVED", "APPROVED_ACTION_EXECUTION_STARTED"},
         Record(q, event),
         \A p \in Requests : request'[p] = request[p] \/ (p = q /\ {request[p], request'[p]} \subseteq {"REQUESTED", "REQUIRES_APPROVAL"})
  PROVE  \A p \in Requests : StoryOf(p)'
<1> SUFFICES ASSUME NEW p \in Requests PROVE StoryOf(p)'
  OBVIOUS
<1>1. trail[p] \subseteq trail'[p] /\ trail'[p] \subseteq trail[p] \cup {event}
  BY Recorded DEF EngineInv
<1>2. StoryOf(p)
  BY DEF Told
<1> QED
  BY <1>1, <1>2 DEF StoryOf

LEMMA TrailStep == EngineInv /\ Told /\ [Next]_vars => Told'
<1> SUFFICES ASSUME EngineInv, Told, [Next]_vars PROVE Told'
  OBVIOUS
<1>0. TypeOK /\ EngineInv'
  BY EngineStep DEF EngineInv
<1>1. ASSUME NEW q \in Requests, CreateApproval(q) PROVE Told'
  <2>1. /\ UNCHANGED <<runs, pc, subject>> /\ Record(q, "APPROVAL_REQUESTED")
        /\ request' = [request EXCEPT ![q] = "REQUIRES_APPROVAL"] /\ request[q] = "REQUESTED"
    BY <1>1 DEF CreateApproval, calls, history, EngineInv, AllRowsAgree, RowsAgree
  <2>2. \A p \in Requests : StoryOf(p)'
    BY <1>0, <2>1, SteppedIsTold DEF TypeOK
  <2>3. ASSUME NEW s \in Resolvers PROVE OnRecord(s)'
    <3>1. pc[s] \in {"announced", "running"} => subject[s] \in Requests
      BY ClaimFacts DEF Claimed
    <3> QED
      BY <1>0, <2>1, <3>1, Recorded DEF Told, OnRecord
  <2> QED
    BY <2>2, <2>3 DEF Told
<1>2. ASSUME NEW r \in Resolvers,
             \/ ReadApproval(r) \/ ReadClock(r) \/ CheckRequest(r) \/ CheckExecution(r)
             \/ Claim(r) \/ ExpireClaim(r) \/ LoadForExpiry(r) \/ Abandon(r)
      PROVE  Told'
  <2>1. UNCHANGED <<request, runs, trail>>
    BY <1>2 DEF ReadApproval, ReadClock, CheckRequest, CheckExecution, Claim, ExpireClaim,
       LoadForExpiry, Abandon, rows, history
  <2>2. CASE Return(r)
    BY <1>0, <2>1, <2>2, Returned, ToldStays
  <2>3. ASSUME NEW label \in {"reading_clock", "expiring", "checking_request", "checking_execution",
                              "claiming", "approved", "rejected", "expired", "denying"},
               Goto(r, label), \A s \in Resolvers : s # r => subject'[s] = subject[s]
        PROVE  Told'
    BY <1>0, <2>1, <2>3, ToldStays DEF Goto, TypeOK
  <2>4. CASE ReadApproval(r)
    BY <1>0, <2>3, <2>4 DEF ReadApproval, TypeOK
  <2>5. CASE ReadClock(r) \/ LoadForExpiry(r)
    BY <2>3, <2>5 DEF ReadClock, LoadForExpiry
  <2>6. CASE CheckRequest(r) \/ CheckExecution(r)
    BY <2>2, <2>3, <2>6 DEF CheckRequest, CheckExecution
  <2>7. CASE Claim(r) \/ ExpireClaim(r)
    BY <2>2, <2>3, <2>7 DEF Claim, ExpireClaim
  <2> QED
    BY <1>2, <2>2, <2>4, <2>5, <2>6, <2>7 DEF Abandon
<1>3. ASSUME NEW r \in Resolvers, Announce(r) \/ Start(r) PROVE Told'
  <2>1. PICK label \in {"announced", "running"}, event \in Events : Record(subject[r], event)
           /\ pc' = [pc EXCEPT ![r] = label] /\ pc[r] \in Claimed
           /\ \/ label = "announced" /\ event = "APPROVAL_APPROVED"
              \/ label = "running" /\ event = "APPROVED_ACTION_EXECUTION_STARTED" /\ pc[r] = "announced"
    BY <1>3 DEF Announce, Start, Events, RecordStart, Goto, Claimed
  <2>2. UNCHANGED <<request, runs, subject>> /\ subject[r] \in Requests
    BY <1>3, <2>1, ClaimFacts DEF Announce, Start, history
  <2>3. \A p \in Requests : StoryOf(p)'
    BY <2>1, <2>2, SteppedIsTold
  <2>4. /\ trail'[subject[r]] = trail[subject[r]] \cup {event}
        /\ \A p \in Requests : trail[p] \subseteq trail'[p]
    BY <1>0, <2>1, <2>2, Recorded
  <2>5. ASSUME NEW s \in Resolvers PROVE OnRecord(s)'
    <3>1. OnRecord(s) /\ (pc[s] \in {"announced", "running"} => subject[s] \in Requests)
      BY ClaimFacts DEF Claimed, Told
    <3>2. CASE s # r
      BY <1>0, <2>1, <2>2, <2>4, <3>1, <3>2 DEF OnRecord, TypeOK
    <3>3. CASE s = r
      BY <1>0, <2>1, <2>2, <2>4, <3>1, <3>3 DEF OnRecord, TypeOK
    <3> QED
      BY <3>2, <3>3
  <2> QED
    BY <2>3, <2>5 DEF Told
<1>4. ASSUME NEW r \in Resolvers, RunTool(r) PROVE Told'
  <2>1. /\ UNCHANGED <<request, trail, subject>> /\ pc' = [pc EXCEPT ![r] = "recording"]
        /\ pc[r] = "running"
        /\ \/ UNCHANGED runs
           \/ runs' = [runs EXCEPT ![subject[r]] = IF @ < 2 THEN @ + 1 ELSE @]
    BY <1>4 DEF RunTool, rows, Goto
  <2>2. {"APPROVAL_APPROVED", "APPROVED_ACTION_EXECUTION_STARTED"} \subseteq trail[subject[r]]
        /\ subject[r] \in Requests
    BY <2>1, ClaimFacts DEF Told, OnRecord, Claimed
  <2>3. \A p \in Requests : p # subject[r] => runs'[p] = runs[p]
    BY <1>0, <2>1, <2>2 DEF TypeOK
  <2>4. \A p \in Requests : StoryOf(p)'
    BY <2>1, <2>2, <2>3 DEF Told, StoryOf
  <2>5. \A s \in Resolvers : OnRecord(s)'
    BY <1>0, <2>1 DEF Told, OnRecord, TypeOK
  <2> QED
    BY <2>4, <2>5 DEF Told
<1>5. ASSUME NEW r \in Resolvers, ExpiryChunk(r) \/ RejectChunk(r) PROVE Told'
  <2>1. pc[r] \in Claimed /\ Return(r) /\ UNCHANGED runs
    BY <1>5 DEF ExpiryChunk, RejectChunk, Claimed, history
  <2>2. request[subject[r]] = "REQUIRES_APPROVAL"
    BY <2>1, ClaimFacts DEF Owns
  <2>3. request' = [request EXCEPT ![subject[r]] = "DENIED"]
    BY <1>5, <2>2 DEF ExpiryChunk, RejectChunk, Denied
  <2>4. Record(subject[r], "APPROVAL_REJECTED") \/ Record(subject[r], "APPROVAL_EXPIRED")
    BY <1>5 DEF ExpiryChunk, RejectChunk
  <2> QED
    BY <2>1, <2>3, <2>4, SettledIsTold
<1>6. ASSUME NEW r \in Resolvers, OutcomeChunk(r) PROVE Told'
  <2>1. pc[r] \in Claimed /\ Return(r) /\ UNCHANGED runs /\ outcome[r] \in {"EXECUTED", "FAILED"}
    BY <1>0, <1>6 DEF OutcomeChunk, Claimed, history, TypeOK
  <2>2. request' = [request EXCEPT ![subject[r]] = outcome[r]]
        /\ Record(subject[r], IF outcome[r] = "EXECUTED" THEN "APPROVED_ACTION_EXECUTED"
                                                          ELSE "APPROVED_ACTION_FAILED")
    BY <1>6 DEF OutcomeChunk
  <2> QED
    BY <2>1, <2>2, SettledIsTold
<1>7. CASE Cancel \/ Finish \/ (\E q \in Requests : Overrun(q)) \/ UNCHANGED vars
  <2>1. UNCHANGED <<request, runs, trail, pc, subject>>
    BY <1>7 DEF Cancel, Finish, Overrun, vars, rows, calls, history
  <2> QED
    BY <1>0, <2>1, ToldStays
<1> QED
  BY <1>1, <1>2, <1>3, <1>4, <1>5, <1>6, <1>7 DEF Next, Proceed

\* The audit trail and the tables tell one story, whatever calls race, expire,
\* crash or are cancelled: a tool runs only once its approval and its start
\* are on record, and a request is settled exactly as the trail says.
THEOREM TrailIsTrue == Spec => []TrailTellsTheStory
<1>1. Init => Told
  BY DEF Init, Told, StoryOf, OnRecord
<1>2. Told => TrailTellsTheStory
  BY DEF Told, StoryOf, TrailTellsTheStory
<1> QED
  BY <1>1, <1>2, TrailStep, EngineInvariant, PTL DEF Spec

-----------------------------------------------------------------------------
(* What the engine's users may rely on.  Only the gateway asks for an        *)
(* approval; the rest of the engine's world answers what was asked, once.    *)

Answers ==
    \/ Cancel \/ Finish \/ UNCHANGED vars
    \/ \E q \in Requests : Overrun(q)
    \/ \E r \in Resolvers : ReadApproval(r) \/ Proceed(r) \/ Abandon(r)

LEMMA NextAsksOrAnswers == [Next]_vars <=> Answers \/ \E q \in Requests : CreateApproval(q)
  BY DEF Next, Answers

\* An answer is final, and nothing is open that was not.
LEMMA AnswersAreFinal ==
  ASSUME EngineInv, Answers, NEW q \in Requests
  PROVE  /\ approval[q] = "NONE" <=> approval'[q] = "NONE"
         /\ approval[q] \in {"REJECTED", "EXPIRED", "EXECUTED"} => approval'[q] = approval[q]
         /\ approval[q] = "EXECUTED" => request'[q] = request[q]
         /\ Unsettled(q)' => Unsettled(q)
<1> DEFINE Goal == /\ approval[q] = "NONE" <=> approval'[q] = "NONE"
                   /\ approval[q] \in {"REJECTED", "EXPIRED", "EXECUTED"} => approval'[q] = approval[q]
                   /\ approval[q] = "EXECUTED" => request'[q] = request[q]
                   /\ Unsettled(q)' => Unsettled(q)
<1>0. TypeOK /\ (approval[q] = "PENDING" => request[q] = "REQUIRES_APPROVAL")
  BY DEF EngineInv, AllRowsAgree, RowsAgree
<1>1. CASE UNCHANGED <<approval, request>>
  BY <1>1 DEF Unsettled
<1>2. ASSUME NEW r \in Resolvers, Claim(r) \/ ExpireClaim(r) PROVE Goal
  <2>1. CASE UNCHANGED approval
    BY <1>1, <1>2, <2>1 DEF Claim, ExpireClaim
  <2>2. CASE approval[subject[r]] = "PENDING"
    <3>1. /\ approval' = [approval EXCEPT ![subject[r]] = approval'[subject[r]]]
          /\ subject[r] \in Requests => approval'[subject[r]] \in {"APPROVED", "REJECTED", "EXPIRED"}
          /\ UNCHANGED request
      BY <1>0, <1>2, <2>2 DEF Claim, ExpireClaim, Claimable, TypeOK
    <3>2. CASE q = subject[r]
      BY <1>0, <2>2, <3>1, <3>2 DEF Unsettled
    <3>3. CASE q # subject[r]
      BY <1>0, <3>1, <3>3 DEF Unsettled, TypeOK
    <3> QED
      BY <3>2, <3>3
  <2> QED
    BY <1>2, <2>1, <2>2 DEF Claim, ExpireClaim, Claimable
<1>3. ASSUME NEW r \in Resolvers, ExpiryChunk(r) \/ RejectChunk(r) PROVE Goal
  <2>1. subject[r] \in Requests /\ approval[subject[r]] \in {"EXPIRED", "REJECTED"}
    BY <1>3, ClaimFacts DEF ExpiryChunk, RejectChunk, Claimed, Owns, StatusAt
  <2>2. UNCHANGED approval /\ request' = [request EXCEPT ![subject[r]] = request'[subject[r]]]
    BY <1>0, <1>3 DEF ExpiryChunk, RejectChunk, TypeOK
  <2>3. request'[subject[r]] # "REQUIRES_APPROVAL"
    BY <1>0, <1>3, <2>1 DEF ExpiryChunk, RejectChunk, Denied, TypeOK
  <2> QED
    BY <1>0, <2>1, <2>2, <2>3 DEF Unsettled, TypeOK
<1>4. ASSUME NEW r \in Resolvers, OutcomeChunk(r) PROVE Goal
  <2>1. subject[r] \in Requests /\ approval[subject[r]] = "APPROVED"
    BY <1>4, ClaimFacts DEF OutcomeChunk, Claimed, Owns, StatusAt
  <2> QED
    BY <1>0, <1>4, <2>1 DEF OutcomeChunk, Unsettled, TypeOK
<1>5. ASSUME NEW r \in Resolvers,
             \/ ReadApproval(r) \/ ReadClock(r) \/ CheckRequest(r) \/ CheckExecution(r)
             \/ LoadForExpiry(r) \/ Announce(r) \/ Start(r) \/ RunTool(r) \/ Abandon(r)
      PROVE  UNCHANGED <<approval, request>>
  BY <1>5
  DEF ReadApproval, ReadClock, CheckRequest, CheckExecution, LoadForExpiry, Announce, Start,
      RunTool, Abandon, rows
<1>6. CASE Cancel \/ Finish \/ UNCHANGED vars \/ \E p \in Requests : Overrun(p)
  BY <1>1, <1>6 DEF Cancel, Finish, Overrun, vars, rows
<1> QED
  BY <1>1, <1>2, <1>3, <1>4, <1>5, <1>6 DEF Answers, Proceed

\* With nothing open, only a running execution is cancelled or finished.
LEMMA OnlyTheOpenMove ==
  ASSUME EngineInv, Answers, \A q \in Requests : ~Unsettled(q)
  PROVE  execution' = execution \/ execution \in {"RUNNING", "WAITING_APPROVAL"}
<1>1. ASSUME NEW r \in Resolvers, ExpiryChunk(r) \/ RejectChunk(r) \/ OutcomeChunk(r) PROVE FALSE
  <2>1. pc[r] \in Claimed
    BY <1>1 DEF ExpiryChunk, RejectChunk, OutcomeChunk, Claimed
  <2>2. subject[r] \in Requests /\ Owns(r)
    BY <2>1, ClaimFacts
  <2> QED
    BY <1>1, <2>2 DEF ExpiryChunk, RejectChunk, OutcomeChunk, Owns, StatusAt, Unsettled
<1>2. ASSUME NEW r \in Resolvers,
             \/ ReadApproval(r) \/ ReadClock(r) \/ CheckRequest(r) \/ CheckExecution(r)
             \/ Claim(r) \/ ExpireClaim(r) \/ LoadForExpiry(r) \/ Announce(r) \/ Start(r)
             \/ RunTool(r) \/ Abandon(r)
      PROVE  UNCHANGED execution
  BY <1>2 DEF ReadApproval, ReadClock, CheckRequest, CheckExecution, Claim, ExpireClaim,
     LoadForExpiry, Announce, Start, RunTool, Abandon, rows
<1>3. CASE Cancel \/ Finish \/ UNCHANGED vars \/ \E p \in Requests : Overrun(p)
  BY <1>3 DEF Cancel, Finish, Overrun, vars, rows
<1> QED
  BY <1>1, <1>2, <1>3 DEF Answers, Proceed

\* A request is recorded as executed only if its tool ran.
OutcomeIsTrue ==
    /\ \A r \in Resolvers : pc[r] = "recording" /\ outcome[r] = "EXECUTED" => runs[subject[r]] > 0
    /\ \A q \in Requests : request[q] = "EXECUTED" => runs[q] > 0

LEMMA OutcomeStep == EngineInv /\ OutcomeIsTrue /\ [Next]_vars => OutcomeIsTrue'
<1> SUFFICES ASSUME EngineInv, OutcomeIsTrue, [Next]_vars PROVE OutcomeIsTrue'
  OBVIOUS
<1>0. TypeOK
  BY DEF EngineInv
<1>1. ASSUME UNCHANGED runs,
             \A q \in Requests : request'[q] = "EXECUTED" => request[q] = "EXECUTED" \/ runs[q] > 0,
             \A r \in Resolvers : pc'[r] = "recording" =>
                 pc[r] = "recording" /\ subject'[r] = subject[r] /\ outcome'[r] = outcome[r]
      PROVE  OutcomeIsTrue'
  BY <1>1 DEF OutcomeIsTrue
<1>2. ASSUME NEW r \in Resolvers, Return(r), UNCHANGED runs,
             \A q \in Requests : request'[q] = "EXECUTED" => request[q] = "EXECUTED" \/ runs[q] > 0
      PROVE  OutcomeIsTrue'
  BY <1>0, <1>1, <1>2 DEF Return, Goto, TypeOK
<1>3. ASSUME NEW r \in Resolvers, RunTool(r) PROVE OutcomeIsTrue'
  <2>1. /\ subject[r] \in Requests /\ runs[subject[r]] = 0 /\ UNCHANGED <<request, subject>>
        /\ pc' = [pc EXCEPT ![r] = "recording"]
        /\ \A s \in Resolvers : s # r => outcome'[s] = outcome[s]
    BY <1>0, <1>3, ClaimFacts DEF RunTool, Claimed, Owns, rows, Goto, TypeOK
  <2>2. \/ /\ \A q \in Requests : runs[q] > 0 => runs'[q] > 0
           /\ runs'[subject[r]] > 0
        \/ UNCHANGED runs /\ outcome'[r] = "FAILED"
    BY <1>0, <1>3, <2>1 DEF RunTool, TypeOK
  <2>3. \A s \in Resolvers : pc[s] = "recording" => subject[s] \in Requests
    BY ClaimFacts DEF Claimed
  <2> QED
    BY <1>0, <2>1, <2>2, <2>3 DEF OutcomeIsTrue, TypeOK
<1>4. ASSUME NEW r \in Resolvers, OutcomeChunk(r) PROVE OutcomeIsTrue'
  <2>1. subject[r] \in Requests /\ request' = [request EXCEPT ![subject[r]] = outcome[r]]
        /\ (outcome[r] = "EXECUTED" => runs[subject[r]] > 0) /\ Return(r) /\ UNCHANGED runs
    BY <1>4, ClaimFacts DEF OutcomeChunk, Claimed, history, OutcomeIsTrue
  <2> QED
    BY <1>0, <1>2, <2>1 DEF TypeOK
<1>5. ASSUME NEW r \in Resolvers, ExpiryChunk(r) \/ RejectChunk(r) PROVE OutcomeIsTrue'
  <2>1. \A q \in Requests : request'[q] = "EXECUTED" => request[q] = "EXECUTED"
    BY <1>0, <1>5 DEF ExpiryChunk, RejectChunk, Denied, TypeOK
  <2> QED
    BY <1>2, <1>5, <2>1 DEF ExpiryChunk, RejectChunk, history
<1>6. ASSUME NEW r \in Resolvers,
             \/ ReadApproval(r) \/ ReadClock(r) \/ CheckRequest(r) \/ CheckExecution(r)
             \/ Claim(r) \/ ExpireClaim(r) \/ LoadForExpiry(r) \/ Announce(r) \/ Start(r)
             \/ Abandon(r)
      PROVE  OutcomeIsTrue'
  <2>1. UNCHANGED <<request, runs>>
    BY <1>6 DEF ReadApproval, ReadClock, CheckRequest, CheckExecution, Claim, ExpireClaim,
       LoadForExpiry, Announce, Start, Abandon, rows, history
  <2>2. CASE Return(r)
    BY <1>2, <2>1, <2>2
  <2>3. ASSUME NEW label \in {"reading_clock", "expiring", "checking_request", "checking_execution",
                              "claiming", "approved", "rejected", "expired", "denying", "announced",
                              "running"},
               Goto(r, label), UNCHANGED outcome,
               \A s \in Resolvers : s # r => subject'[s] = subject[s]
        PROVE  OutcomeIsTrue'
    BY <1>0, <1>1, <2>1, <2>3 DEF Goto, TypeOK
  <2>4. CASE ReadApproval(r)
    BY <1>0, <2>3, <2>4 DEF ReadApproval, TypeOK
  <2>5. CASE ReadClock(r) \/ LoadForExpiry(r) \/ Announce(r) \/ Start(r)
    BY <2>3, <2>5 DEF ReadClock, LoadForExpiry, Announce, Start
  <2>6. CASE CheckRequest(r) \/ CheckExecution(r) \/ Claim(r) \/ ExpireClaim(r)
    BY <2>2, <2>3, <2>6 DEF CheckRequest, CheckExecution, Claim, ExpireClaim
  <2> QED
    BY <1>6, <2>2, <2>4, <2>5, <2>6 DEF Abandon
<1>7. ASSUME NEW q \in Requests, CreateApproval(q) PROVE OutcomeIsTrue'
  BY <1>0, <1>7, <1>1 DEF CreateApproval, calls, history, TypeOK
<1>8. CASE Cancel \/ Finish \/ (\E q \in Requests : Overrun(q)) \/ UNCHANGED vars
  BY <1>1, <1>8 DEF Cancel, Finish, Overrun, vars, rows, calls, history
<1> QED
  BY <1>3, <1>4, <1>5, <1>6, <1>7, <1>8 DEF Next, Proceed

-----------------------------------------------------------------------------
(* Refinement.                                                               *)

\* A request whose rows do not change keeps its verdict.
LEMMA VerdictStays ==
  ASSUME NEW q \in Requests, approval'[q] = approval[q], request'[q] = request[q]
  PROVE  Verdict(q)' = Verdict(q)
BY DEF Verdict, Unsettled

\* A step that changes no verdict and runs no tool is a stutter of the gate.
LEMMA GateStutters ==
  ASSUME UNCHANGED <<approval, request, runs>>
  PROVE  UNCHANGED Gate!gateVars
<1>1. \A q \in Requests : Verdict(q)' = Verdict(q)
  BY VerdictStays
<1> QED
  BY <1>1 DEF Gate!gateVars

\* Only the verdict of the subject changes when only its rows do.
LEMMA VerdictMoves ==
  ASSUME NEW q \in Requests,
         \A p \in Requests : p # q => approval'[p] = approval[p] /\ request'[p] = request[p]
  PROVE  [p \in Requests |-> Verdict(p)]'
             = [[p \in Requests |-> Verdict(p)] EXCEPT ![q] = Verdict(q)']
<1>1. \A p \in Requests : p # q => Verdict(p)' = Verdict(p)
  BY VerdictStays
<1> QED
  BY <1>1

LEMMA GateInitial == Init => Gate!GateInit
<1> SUFFICES ASSUME Init PROVE Gate!GateInit
  OBVIOUS
<1>1. \A q \in Requests : Verdict(q) = "unasked"
  BY DEF Init, Verdict
<1> QED
  BY <1>1 DEF Init, Gate!GateInit

\* A claim that finds the approval PENDING is the gate's answer.
LEMMA WinAnswers ==
  ASSUME EngineInv, NEW q \in Requests, NEW status \in {"APPROVED", "REJECTED", "EXPIRED"},
         approval[q] = "PENDING",
         approval' = [approval EXCEPT ![q] = status],
         UNCHANGED <<request, runs>>
  PROVE  Gate!Answer(q)
<1>1. Verdict(q) = "open"
  BY DEF Verdict
<1>2. request[q] = "REQUIRES_APPROVAL"
  BY DEF EngineInv, AllRowsAgree, RowsAgree
<1>3. Verdict(q)' \in {"granted", "refused"}
  BY <1>2 DEF Verdict, Unsettled, EngineInv, TypeOK
<1>4. [p \in Requests |-> Verdict(p)]'
          = [[p \in Requests |-> Verdict(p)] EXCEPT ![q] = Verdict(q)']
  BY VerdictMoves DEF EngineInv, TypeOK
<1> QED
  BY <1>1, <1>3, <1>4 DEF Gate!Answer

\* The chunk that settles a claimed approval settles the question.
LEMMA ChunkSettles ==
  ASSUME EngineInv, NEW r \in Resolvers, pc[r] \in Claimed,
         NEW status \in {"DENIED", "EXECUTED", "FAILED"},
         request' = [request EXCEPT ![subject[r]] = status],
         \/ approval' = approval /\ approval[subject[r]] \in {"REJECTED", "EXPIRED"}
         \/ approval' = [approval EXCEPT ![subject[r]] = "EXECUTED"],
         UNCHANGED runs
  PROVE  Gate!Settle(subject[r])
<1>0. PICK q \in Requests : q = subject[r]
  BY ClaimFacts
<1>1. Owns(r) /\ Unsettled(q)
  BY <1>0, ClaimFacts
<1>2. Verdict(q) \in {"granted", "refused"}
  BY <1>0, <1>1 DEF Verdict, Owns, StatusAt
<1>3. Verdict(q)' = "settled"
  BY <1>0 DEF Verdict, Unsettled, EngineInv, TypeOK
<1>4. [p \in Requests |-> Verdict(p)]'
          = [[p \in Requests |-> Verdict(p)] EXCEPT ![q] = Verdict(q)']
  BY <1>0, VerdictMoves DEF EngineInv, TypeOK
<1> QED
  BY <1>0, <1>2, <1>3, <1>4 DEF Gate!Settle

LEMMA GateStep == EngineInv /\ [Next]_vars => [Gate!GateNext]_(Gate!gateVars)
<1> SUFFICES ASSUME EngineInv, [Next]_vars
             PROVE  (\E q \in Requests : Gate!Ask(q) \/ Gate!Answer(q)
                                            \/ Gate!RunTool(q) \/ Gate!Settle(q))
                        \/ UNCHANGED Gate!gateVars
  BY DEF Gate!GateNext
<1>1. ASSUME NEW q \in Requests, CreateApproval(q) PROVE Gate!Ask(q)
  <2>1. /\ approval[q] = "NONE" /\ execution = "RUNNING" /\ UNCHANGED runs
        /\ approval' = [approval EXCEPT ![q] = "PENDING"]
        /\ request' = [request EXCEPT ![q] = "REQUIRES_APPROVAL"]
    BY <1>1 DEF CreateApproval, Admit, history
  <2>2. Verdict(q) = "unasked" /\ Verdict(q)' = "open"
    BY <2>1 DEF Verdict, EngineInv, TypeOK
  <2>3. \A p \in Requests : Verdict(p) \in {"unasked", "settled"}
    BY <2>1 DEF Verdict, Unsettled, EngineInv, Waits
  <2>4. [p \in Requests |-> Verdict(p)]'
            = [[p \in Requests |-> Verdict(p)] EXCEPT ![q] = Verdict(q)']
    BY <2>1, VerdictMoves DEF EngineInv, TypeOK
  <2> QED
    BY <2>1, <2>2, <2>3, <2>4 DEF Gate!Ask
<1>2. ASSUME NEW r \in Resolvers, pc[r] \in Unclaimed PROVE subject[r] \in Requests
  BY <1>2 DEF EngineInv, TypeOK, Unclaimed
<1>3. ASSUME NEW r \in Resolvers, Claim(r)
      PROVE  (\E q \in Requests : Gate!Answer(q)) \/ UNCHANGED Gate!gateVars
  <2>1. CASE Claimable(subject[r])
    <3>1. subject[r] \in Requests /\ approval[subject[r]] = "PENDING"
      BY <1>2, <1>3, <2>1 DEF Claim, Claimable, Unclaimed
    <3>2. \E status \in {"APPROVED", "REJECTED"} :
             approval' = [approval EXCEPT ![subject[r]] = status]
      BY <1>3, <2>1 DEF Claim
    <3>3. UNCHANGED <<request, runs>>
      BY <1>3 DEF Claim, history
    <3> QED
      BY <3>1, <3>2, <3>3, WinAnswers
  <2>2. CASE ~Claimable(subject[r])
    BY <1>3, <2>2, GateStutters DEF Claim, history
  <2> QED
    BY <2>1, <2>2
<1>4. ASSUME NEW r \in Resolvers, ExpireClaim(r)
      PROVE  (\E q \in Requests : Gate!Answer(q)) \/ UNCHANGED Gate!gateVars
  <2>1. CASE Claimable(subject[r])
    <3>1. subject[r] \in Requests /\ approval[subject[r]] = "PENDING"
      BY <1>2, <1>4, <2>1 DEF ExpireClaim, Claimable, Unclaimed
    <3>2. approval' = [approval EXCEPT ![subject[r]] = "EXPIRED"]
      BY <1>4, <2>1 DEF ExpireClaim
    <3>3. UNCHANGED <<request, runs>>
      BY <1>4 DEF ExpireClaim, history
    <3> QED
      BY <3>1, <3>2, <3>3, WinAnswers
  <2>2. CASE ~Claimable(subject[r])
    BY <1>4, <2>2, GateStutters DEF ExpireClaim, history
  <2> QED
    BY <2>1, <2>2
<1>5. ASSUME NEW r \in Resolvers, RunTool(r)
      PROVE  (\E q \in Requests : Gate!RunTool(q)) \/ UNCHANGED Gate!gateVars
  <2>1. pc[r] \in Claimed /\ pc[r] = "running" /\ UNCHANGED <<approval, request>>
    BY <1>5 DEF RunTool, Claimed, rows
  <2>2. /\ subject[r] \in Requests /\ approval[subject[r]] = "APPROVED"
        /\ runs[subject[r]] = 0
    BY <2>1, ClaimFacts DEF Owns, StatusAt
  <2>3. CASE UNCHANGED runs
    BY <2>1, <2>3, GateStutters
  <2>4. CASE runs' = [runs EXCEPT ![subject[r]] = IF @ < 2 THEN @ + 1 ELSE @]
    <3>1. runs' = [runs EXCEPT ![subject[r]] = 1]
      BY <2>2, <2>4
    <3>2. Verdict(subject[r]) = "granted"
      BY <2>2 DEF Verdict
    <3>3. \A q \in Requests : Verdict(q)' = Verdict(q)
      BY <2>1, VerdictStays
    <3> QED
      BY <2>2, <3>1, <3>2, <3>3 DEF Gate!RunTool
  <2> QED
    BY <1>5, <2>3, <2>4 DEF RunTool
<1>6. ASSUME NEW r \in Resolvers, ExpiryChunk(r) PROVE \E q \in Requests : Gate!Settle(q)
  <2>1. /\ pc[r] = "denying" /\ pc[r] \in Claimed
        /\ request' = [request EXCEPT ![subject[r]] = Denied(@)]
        /\ UNCHANGED <<approval, runs>>
    BY <1>6 DEF ExpiryChunk, history, Claimed
  <2>2. /\ approval[subject[r]] = "EXPIRED" /\ request[subject[r]] = "REQUIRES_APPROVAL"
        /\ subject[r] \in Requests
    BY <2>1, ClaimFacts DEF Owns, StatusAt
  <2>3. request' = [request EXCEPT ![subject[r]] = "DENIED"]
    BY <2>1, <2>2 DEF Denied
  <2> QED
    BY <2>1, <2>2, <2>3, ChunkSettles
<1>7. ASSUME NEW r \in Resolvers, RejectChunk(r) PROVE \E q \in Requests : Gate!Settle(q)
  <2>1. pc[r] \in Claimed /\ approval[subject[r]] = "REJECTED" /\ subject[r] \in Requests
    BY <1>7, ClaimFacts DEF RejectChunk, Owns, StatusAt, Claimed
  <2> QED
    BY <1>7, <2>1, ChunkSettles DEF RejectChunk, history
<1>8. ASSUME NEW r \in Resolvers, OutcomeChunk(r) PROVE \E q \in Requests : Gate!Settle(q)
  <2>1. pc[r] \in Claimed /\ outcome[r] \in {"DENIED", "EXECUTED", "FAILED"}
    BY <1>8 DEF OutcomeChunk, Claimed, EngineInv, TypeOK
  <2>2. subject[r] \in Requests
    BY <2>1, ClaimFacts
  <2> QED
    BY <1>8, <2>1, <2>2, ChunkSettles DEF OutcomeChunk, history
<1>9. ASSUME \/ Cancel \/ Finish \/ UNCHANGED vars
             \/ \E q \in Requests : Overrun(q)
             \/ \E r \in Resolvers :
                   \/ ReadApproval(r) \/ ReadClock(r) \/ CheckRequest(r) \/ CheckExecution(r)
                   \/ LoadForExpiry(r) \/ Announce(r) \/ Start(r) \/ Abandon(r)
      PROVE  UNCHANGED Gate!gateVars
  <2>1. UNCHANGED <<approval, request, runs>>
    BY <1>9 DEF Cancel, Finish, Overrun, ReadApproval, ReadClock, CheckRequest,
       CheckExecution, LoadForExpiry, Announce, Start, Abandon, vars, rows, history
  <2> QED
    BY <2>1, GateStutters
<1> QED
  BY <1>1, <1>3, <1>4, <1>5, <1>6, <1>7, <1>8, <1>9 DEF Next, Proceed

\* The engine implements the gate: one question at a time, one answer to each,
\* at most one run of a granted tool and none of a refused one.
THEOREM EngineIsAGate == Spec => ImplementsGate
  BY GateInitial, EngineInvariant, GateStep, PTL DEF Spec, ImplementsGate, Gate!GateSpec

=============================================================================
