-------------------------- MODULE Submissions_proofs --------------------------
(* Behind the rate limiter and with clients that time out and retry, the     *)
(* lease is still the lease: its theorems hold of POST /integrations/actions *)
(* for any number of clients and any of the limits.  And the limiter keeps   *)
(* its limit.                                                                *)
EXTENDS Submissions, SteppingLease_proofs, SequenceTheorems, FiniteSetTheorems

\* What a client, the limiter or a handler does is a step of the lease or leaves
\* it alone.
LEMMA StepsOfTheLease ==
  ASSUME [SubmissionsNext]_submissionVars
  PROVE  [Next]_vars
<1>1. UNCHANGED leaseVars => UNCHANGED vars
  BY DEF leaseVars, row, vars
<1>2. CASE UNCHANGED submissionVars
  BY <1>1, <1>2 DEF submissionVars
<1>3. CASE TimePasses
  BY <1>3 DEF TimePasses, Next
<1>4. CASE ExecutionEnds
  BY <1>1, <1>4 DEF ExecutionEnds
<1>5. ASSUME NEW c \in Callers
      PROVE  /\ Submit(c) \/ Wake(c) \/ TimeOut(c) \/ Handle(c) => [Next]_vars
             /\ Finish(c) \/ Die(c) => [Next]_vars
  <2>1. Submit(c) \/ Wake(c) \/ TimeOut(c) => UNCHANGED vars
    BY <1>1 DEF Submit, Wake, TimeOut
  <2>2. Pass(c) \/ TooMany(c) \/ Deny(c) => UNCHANGED vars
    BY <1>1 DEF Pass, TooMany, Deny
  <2>3. Enter(c) => ReadClock(c) \/ UNCHANGED vars
    BY <1>1 DEF Enter
  <2>4. /\ Win(c) => ClaimWon(c)
        /\ Lose(c) => ClaimLost(c)
        /\ Finish(c) => Release(c)
    BY DEF Win, Lose, Finish
  <2>5. Die(c) => Crash(c) \/ UNCHANGED vars
    BY <1>1 DEF Die
  <2>6. QED
    BY <2>1, <2>2, <2>3, <2>4, <2>5 DEF Handle, Next
<1>6. QED
  BY <1>2, <1>3, <1>4, <1>5 DEF SubmissionsNext

\* The submissions implement the lease.
THEOREM LeaseUnderLoad == SubmissionsSpec => Spec
<1>1. SubmissionsInit => Init
  BY DEF SubmissionsInit
<1>2. QED
  BY <1>1, StepsOfTheLease, PTL DEF SubmissionsSpec, Spec

\* Of two submissions that act on an execution at once, one has overrun the TTL.
THEOREM SubmissionsExclude == SubmissionsSpec => []FreshHoldersExclude
  BY LeaseUnderLoad, Exclusion, PTL

\* A submission's end leaves the lease of its successor alone.
THEOREM SubmissionsFreeTheirOwn == SubmissionsSpec => OnlyOwnerFrees
  BY LeaseUnderLoad, OwnerFrees, PTL

\* What the critical sections may rely on is the lease without clocks.
THEOREM SubmissionsImplementLease == SubmissionsSpec => ImplementsLease
  BY LeaseUnderLoad, Refinement, PTL

-----------------------------------------------------------------------------
(* Types                                                                     *)

\* A set of natural numbers that is not empty has a least one.
LEMMA Least ==
  ASSUME NEW T, T \subseteq Nat, T # {}
  PROVE  \E x \in T : \A y \in T : x <= y
<1> DEFINE R == {p \in Nat \X Nat : p[1] < p[2]}
<1>1. IsWellFoundedOn(R, Nat)
  BY NatLessThanWellFounded DEF OpToRel
<1>2. PICK x \in T : \A y \in T : ~(<<y, x>> \in R)
  <2> HIDE DEF R
  <2> QED
    BY <1>1, WFMin
<1>3. ASSUME NEW y \in T
      PROVE  x <= y
  <2>1. x \in Nat /\ y \in Nat
    OBVIOUS
  <2>2. ~(y < x)
    BY <1>2, <2>1
  <2>3. QED
    BY <2>1, <2>2
<1>4. QED
  BY <1>3

Readings == 0 .. Limiter!OldestAge

\* What trimming leaves is a deque of readings and no longer than before.
LEMMA TrimmedType ==
  ASSUME NEW age, window \in Seq(Readings)
  PROVE  /\ Limiter!Trimmed(age) \in Seq(Readings)
         /\ Len(Limiter!Trimmed(age)) <= Len(window)
<1> DEFINE live == {i \in DOMAIN window : ~Limiter!Expired(window[i], age)}
           first == CHOOSE i \in live : \A j \in live : i <= j
<1>1. Len(window) \in Nat /\ DOMAIN window = 1 .. Len(window)
  BY LenProperties
<1>2. CASE live = {}
  <2>1. Limiter!Trimmed(age) = <<>>
    BY <1>2 DEF Limiter!Trimmed
  <2>2. QED
    BY <1>1, <2>1
<1>3. CASE live # {}
  <2>1. first \in live
    <3>1. live \subseteq Nat
      BY <1>1
    <3> HIDE DEF live
    <3>2. \E i \in live : \A j \in live : i <= j
      BY <1>3, <3>1, Least
    <3>3. QED
      BY <3>2
  <2>2. Limiter!Trimmed(age) = SubSeq(window, first, Len(window))
    BY <1>3 DEF Limiter!Trimmed
  <2>3. first \in 1 .. Len(window)
    BY <1>1, <2>1
  <2> HIDE DEF first, live
  <2>4. \A i \in first .. Len(window) : window[i] \in Readings
    BY <1>1, <2>3, ElementOfSeq
  <2>5. /\ SubSeq(window, first, Len(window)) \in Seq(Readings)
        /\ Len(SubSeq(window, first, Len(window))) = Len(window) - first + 1
    BY <1>1, <2>3, <2>4, SubSeqProperties
  <2>6. QED
    BY <1>1, <2>2, <2>3, <2>5
<1>4. QED
  BY <1>2, <1>3

\* The ages in the deque are readings, and no wait for the lock is one that is over.
LEMMA Lags ==
  /\ Limiter!OldestAge \in Nat /\ Limiter!Out \in Nat
  /\ \A lag \in 0 .. LockLag : lag \in Readings /\ lag # Limiter!Out
BY SubmissionsAssumption DEF Limiter!OldestAge, Limiter!Out, Readings

\* A full bucket takes no further reading.
LEMMA AdmitTyped ==
  ASSUME Limiter!LimiterTypeOK, NEW c \in Callers, Limiter!Admit(c)
  PROVE  Limiter!LimiterTypeOK'
<1> DEFINE now == asking[c]
           left == Limiter!Trimmed(now)
<1>1. now \in 0 .. LockLag /\ now \in Readings
  BY Lags DEF Limiter!LimiterTypeOK, Limiter!Admit, Limiter!Asking
<1>2. /\ left \in Seq(Readings) /\ ~(Len(left) >= MAX_REQUESTS)
      /\ window' = Append(left, now)
  BY TrimmedType DEF Limiter!LimiterTypeOK, Limiter!Admit, Limiter!Full, Readings
<1>3. asking' = [asking EXCEPT ![c] = Limiter!Out]
  BY DEF Limiter!Admit
<1>4. passed' \in [Limiter!Period -> Nat]
  <2>1. passed' = [ago \in Limiter!Period |-> passed[ago] + (IF ago = 0 THEN 1 ELSE 0)]
    BY DEF Limiter!Admit
  <2>2. \A ago \in Limiter!Period : passed[ago] + (IF ago = 0 THEN 1 ELSE 0) \in Nat
    BY DEF Limiter!LimiterTypeOK
  <2>3. QED
    BY <2>1, <2>2
<1> HIDE DEF left, now
<1>5. window' \in Seq(Readings) /\ Len(window') = Len(left) + 1 /\ Len(left) \in Nat
  BY <1>1, <1>2, AppendProperties, LenProperties
<1>6. Len(window') <= MAX_REQUESTS
  BY <1>2, <1>5, SubmissionsAssumption
<1>7. QED
  BY <1>3, <1>4, <1>5, <1>6 DEF Limiter!LimiterTypeOK, Readings, Limiter!OldestAge, Limiter!Out

\* A refusal only trims.
LEMMA RefuseTyped ==
  ASSUME Limiter!LimiterTypeOK, NEW c \in Callers, Limiter!Refuse(c)
  PROVE  Limiter!LimiterTypeOK'
<1>1. window' = Limiter!Trimmed(asking[c])
  BY DEF Limiter!Refuse, Limiter!LeftByRefusal
<1>2. /\ window' \in Seq(Readings) /\ Len(window') <= Len(window)
      /\ Len(window) \in Nat /\ Len(window') \in Nat
  BY <1>1, TrimmedType, LenProperties DEF Limiter!LimiterTypeOK, Readings
<1>3. Len(window') <= MAX_REQUESTS
  BY <1>2, SubmissionsAssumption DEF Limiter!LimiterTypeOK
<1>4. /\ asking' \in [Callers -> 0 .. LockLag \cup {Limiter!Out}]
      /\ passed' = passed
  BY DEF Limiter!LimiterTypeOK, Limiter!Refuse
<1>5. QED
  BY <1>2, <1>3, <1>4 DEF Limiter!LimiterTypeOK, Readings, Limiter!OldestAge, Limiter!Out

\* Ages grow to the oldest one and no further.
LEMMA TickTyped ==
  ASSUME Limiter!LimiterTypeOK, Limiter!LimiterTick
  PROVE  /\ Limiter!LimiterTypeOK'
         /\ \A c \in Callers : Limiter!Asking(c)' <=> Limiter!Asking(c)
<1>1. window' \in Seq(Readings) /\ Len(window') = Len(window)
  <2>1. window \in Seq(Readings) /\ window' = [i \in DOMAIN window |-> Limiter!Grown(window[i])]
    BY DEF Limiter!LimiterTypeOK, Limiter!LimiterTick, Readings
  <2>2. Len(window) \in Nat /\ DOMAIN window = 1 .. Len(window)
    BY <2>1, LenProperties
  <2>3. \A i \in 1 .. Len(window) : Limiter!Grown(window[i]) \in Readings
    BY <2>1, ElementOfSeq, Lags DEF Limiter!Grown, Readings
  <2>4. QED
    BY <2>1, <2>2, <2>3, LenProperties
<1>2. /\ asking' \in [Callers -> 0 .. LockLag \cup {Limiter!Out}]
      /\ \A c \in Callers : asking'[c] = Limiter!Out <=> asking[c] = Limiter!Out
  <2>1. asking' = [c \in Callers |-> IF Limiter!Asking(c) THEN asking[c] + 1 ELSE Limiter!Out]
    BY DEF Limiter!LimiterTick
  <2>2. ASSUME NEW c \in Callers, Limiter!Asking(c)
        PROVE  asking[c] + 1 \in 0 .. LockLag
    <3>1. asking[c] \in 0 .. LockLag /\ asking[c] < LockLag
      BY <2>2 DEF Limiter!LimiterTypeOK, Limiter!LimiterTick, Limiter!Asking
    <3>2. QED
      BY <3>1, SubmissionsAssumption
  <2>3. QED
    BY <2>1, <2>2, Lags DEF Limiter!Asking
<1>3. passed' \in [Limiter!Period -> Nat]
  <2>1. passed' = [ago \in Limiter!Period |-> IF ago = 0 THEN 0 ELSE passed[ago - 1]]
    BY DEF Limiter!LimiterTick
  <2>2. \A ago \in Limiter!Period : ago # 0 => ago - 1 \in Limiter!Period
    BY SubmissionsAssumption DEF Limiter!Period
  <2>3. \A ago \in Limiter!Period : (IF ago = 0 THEN 0 ELSE passed[ago - 1]) \in Nat
    BY <2>2 DEF Limiter!LimiterTypeOK
  <2>4. QED
    BY <2>1, <2>3
<1>4. Limiter!LimiterTypeOK'
  <2>1. Len(window') <= MAX_REQUESTS
    BY <1>1 DEF Limiter!LimiterTypeOK
  <2>2. QED
    BY <1>1, <1>2, <1>3, <2>1
       DEF Limiter!LimiterTypeOK, Readings, Limiter!OldestAge, Limiter!Out
<1>5. QED
  BY <1>2, <1>4 DEF Limiter!Asking, Limiter!Out, Limiter!OldestAge

\* Types of what the clients and handlers keep, and where a handler can be.
ClientsTyped ==
    /\ client \in [Callers -> {"idle", "waiting", "sleeping"}]
    /\ attempt \in [Callers -> 0 .. MAX_ATTEMPTS]
    /\ admitted \subseteq Callers
    /\ running \in BOOLEAN
    /\ \A c \in Callers : client[c] = "idle" <=> attempt[c] = 0

OnePlace ==
    /\ \A c \in Callers : c \in admitted => pc[c] = "idle" /\ ~Limiter!Asking(c)
    /\ \A c \in Callers : Limiter!Asking(c) => pc[c] = "idle"
    \* whoever sleeps has had its answer
    /\ \A c \in Callers : client[c] = "sleeping" => ~Handling(c)

\* Every step keeps the limiter in its types.
LEMMA LimiterStep ==
  ASSUME Limiter!LimiterTypeOK, [SubmissionsNext]_submissionVars
  PROVE  Limiter!LimiterTypeOK'
<1>1. CASE UNCHANGED limiterVars
  BY <1>1 DEF limiterVars, Limiter!LimiterTypeOK
<1>2. ASSUME NEW c \in Callers, Limiter!ReadMonotonic(c) \/ Limiter!Vanish(c)
      PROVE  Limiter!LimiterTypeOK'
  BY <1>2, SubmissionsAssumption
     DEF Limiter!LimiterTypeOK, Limiter!ReadMonotonic, Limiter!Vanish,
         Limiter!Out, Limiter!OldestAge, Limiter!Period
<1>3. CASE UNCHANGED submissionVars
  BY <1>1, <1>3 DEF submissionVars
<1>4. CASE TimePasses
  BY <1>4, TickTyped DEF TimePasses
<1>5. CASE ExecutionEnds
  BY <1>1, <1>5 DEF ExecutionEnds
<1>6. ASSUME NEW c \in Callers
      PROVE  /\ Submit(c) \/ Wake(c) \/ TimeOut(c) => Limiter!LimiterTypeOK'
             /\ Handle(c) \/ Finish(c) \/ Die(c) => Limiter!LimiterTypeOK'
  <2>1. Submit(c) \/ Wake(c) \/ TimeOut(c) => Limiter!LimiterTypeOK'
    BY <1>1, <1>2 DEF Submit, Wake, TimeOut
  <2>2. Pass(c) \/ TooMany(c) => Limiter!LimiterTypeOK'
    BY AdmitTyped, RefuseTyped DEF Pass, TooMany
  <2>3. Deny(c) \/ Enter(c) \/ Win(c) \/ Lose(c) => Limiter!LimiterTypeOK'
    BY <1>1 DEF Deny, Enter, Win, Lose
  <2>4. Finish(c) \/ Die(c) => Limiter!LimiterTypeOK'
    BY <1>1, <1>2 DEF Finish, Die
  <2>5. QED
    BY <2>1, <2>2, <2>3, <2>4 DEF Handle
<1>7. QED
  BY <1>3, <1>4, <1>5, <1>6 DEF SubmissionsNext

\* Every step keeps the clients in theirs.
LEMMA ClientsStep ==
  ASSUME ClientsTyped, [SubmissionsNext]_submissionVars
  PROVE  ClientsTyped'
<1> DEFINE Same == UNCHANGED <<client, attempt, admitted, running>>
<1>1. Same => ClientsTyped'
  BY DEF ClientsTyped
<1>2. ASSUME NEW c \in Callers,
             EndCall(c) \/ UNCHANGED clientVars \/ (\E b \in BOOLEAN : Answer(c, b)),
             admitted' \subseteq Callers, running' \in BOOLEAN
      PROVE  ClientsTyped'
  BY <1>2, SubmissionsAssumption DEF EndCall, Answer, clientVars, ClientsTyped
<1>3. ASSUME NEW c \in Callers
      PROVE  /\ Submit(c) \/ Wake(c) \/ TimeOut(c) => ClientsTyped'
             /\ Handle(c) \/ Finish(c) \/ Die(c) => ClientsTyped'
  <2>1. Submit(c) => ClientsTyped'
    BY SubmissionsAssumption DEF Submit, ClientsTyped
  <2>2. Wake(c) => ClientsTyped'
    <3>1. CASE Wake(c) /\ TriesLeft(c)
      BY <3>1, SubmissionsAssumption DEF Wake, TriesLeft, ClientsTyped
    <3>2. CASE Wake(c) /\ ~TriesLeft(c)
      <4>1. EndCall(c) /\ UNCHANGED <<admitted, running>>
        BY <3>2 DEF Wake
      <4>2. QED
        BY <4>1, <1>2 DEF ClientsTyped
    <3>3. QED
      BY <3>1, <3>2
  <2>3. TimeOut(c) \/ Pass(c) => ClientsTyped'
    BY <1>2 DEF TimeOut, Pass, ClientsTyped
  <2>4. TooMany(c) \/ Deny(c) => ClientsTyped'
    BY <1>2 DEF TooMany, Deny, ClientsTyped
  <2>5. Enter(c) => ClientsTyped'
    BY <1>2 DEF Enter, ClientsTyped
  <2>6. Win(c) \/ Lose(c) => ClientsTyped'
    BY <1>2 DEF Win, Lose, ClientsTyped
  <2>7. Finish(c) \/ Die(c) => ClientsTyped'
    BY <1>2 DEF Finish, Die, ClientsTyped
  <2>8. QED
    BY <2>1, <2>2, <2>3, <2>4, <2>5, <2>6, <2>7 DEF Handle
<1>4. UNCHANGED submissionVars \/ TimePasses => ClientsTyped'
  BY <1>1 DEF submissionVars, clientVars, TimePasses
<1>5. ExecutionEnds => ClientsTyped'
  BY DEF ExecutionEnds, clientVars, ClientsTyped
<1>6. QED
  BY <1>3, <1>4, <1>5 DEF SubmissionsNext

\* Between limiter, endpoint and lease a handler is at one place at a time.
LEMMA PlaceStep ==
  ASSUME TypeOK, Limiter!LimiterTypeOK, ClientsTyped, OnePlace,
         [SubmissionsNext]_submissionVars
  PROVE  OnePlace'
<1> DEFINE Right(c) == /\ c \in admitted => pc[c] = "idle" /\ ~Limiter!Asking(c)
                       /\ Limiter!Asking(c) => pc[c] = "idle"
                       /\ client[c] = "sleeping" => ~Handling(c)
<1> USE DEF Limiter!Asking, Handling
<1>0. /\ pc \in [Callers -> {"idle", "claiming", "holding"}]
      /\ asking \in [Callers -> 0 .. LockLag \cup {Limiter!Out}]
      /\ client \in [Callers -> {"idle", "waiting", "sleeping"}]
      /\ Limiter!Out' = Limiter!Out /\ 0 # Limiter!Out
      /\ \A c \in Callers : Right(c)
  BY Lags, SubmissionsAssumption
     DEF TypeOK, Limiter!LimiterTypeOK, ClientsTyped, OnePlace, Limiter!Out, Limiter!OldestAge
<1> DEFINE Others(c) == \A d \in Callers : d # c =>
              /\ pc'[d] = pc[d] /\ asking'[d] = asking[d] /\ client'[d] = client[d]
              /\ d \in admitted' <=> d \in admitted
<1>1. ASSUME NEW c \in Callers, Others(c), Right(c)'
      PROVE  OnePlace'
  BY <1>0, <1>1 DEF OnePlace
<1>2. UNCHANGED <<pc, asking, admitted, client>> => OnePlace'
  BY <1>0 DEF OnePlace
<1>3. ASSUME NEW c \in Callers
      PROVE  /\ Submit(c) \/ Wake(c) \/ TimeOut(c) => OnePlace'
             /\ Handle(c) \/ Finish(c) \/ Die(c) => OnePlace'
  <2>1. Submit(c) \/ Wake(c) => OnePlace'
    <3>1. CASE Submit(c) \/ (Wake(c) /\ TriesLeft(c))
      <4>1. /\ ~Handling(c)
            /\ asking' = [asking EXCEPT ![c] = 0] /\ client' = [client EXCEPT ![c] = "waiting"]
            /\ UNCHANGED <<pc, admitted>>
        BY <1>0, <3>1 DEF Submit, Wake, Limiter!ReadMonotonic, leaseVars
      <4>2. QED
        BY <1>0, <1>1, <4>1
    <3>2. CASE Wake(c) /\ ~TriesLeft(c)
      BY <1>0, <1>1, <3>2 DEF Wake, EndCall, leaseVars, limiterVars
    <3>3. QED
      BY <3>1, <3>2
  <2>2. TimeOut(c) => OnePlace'
    BY <1>0, <1>1 DEF TimeOut, EndCall, leaseVars, limiterVars
  <2>3. ASSUME NEW b \in BOOLEAN, Answer(c, b), client[c] # "sleeping"
        PROVE  client' \in [Callers -> {"idle", "waiting", "sleeping"}]
               /\ \A d \in Callers : d # c => client'[d] = client[d]
    BY <1>0, <2>3 DEF Answer, EndCall, clientVars
  <2>4. Pass(c) => OnePlace'
    BY <1>0, <1>1 DEF Pass, Limiter!Admit, leaseVars, clientVars
  <2>5. TooMany(c) => OnePlace'
    BY <1>0, <1>1, <2>3 DEF TooMany, Limiter!Refuse, leaseVars
  <2>6. Deny(c) => OnePlace'
    BY <1>0, <1>1, <2>3 DEF Deny, leaseVars, limiterVars
  <2>7. Enter(c) => OnePlace'
    BY <1>0, <1>1, <2>3 DEF Enter, ReadClock, leaseVars, limiterVars, clientVars
  <2>8. Win(c) => OnePlace'
    BY <1>0, <1>1 DEF Win, ClaimWon, limiterVars, clientVars
  <2>9. Lose(c) => OnePlace'
    BY <1>0, <1>1, <2>3 DEF Lose, ClaimLost, Leave, limiterVars
  <2>10. Finish(c) => OnePlace'
    BY <1>0, <1>1, <2>3 DEF Finish, Release, Leave, limiterVars
  <2>11. Die(c) => OnePlace'
    BY <1>0, <1>1 DEF Die, Crash, Leave, Limiter!Vanish, EndCall, clientVars, leaseVars, limiterVars
  <2>12. QED
    BY <2>1, <2>2, <2>4, <2>5, <2>6, <2>7, <2>8, <2>9, <2>10, <2>11 DEF Handle
<1>4. TimePasses => OnePlace'
  BY <1>0, TickTyped DEF TimePasses, Tick, clientVars, OnePlace
<1>5. QED
  BY <1>2, <1>3, <1>4
     DEF SubmissionsNext, submissionVars, leaseVars, limiterVars, clientVars, ExecutionEnds

\* Whatever the clients do, their calls and the handlers of those stay in their
\* types, and no handler is at two places.
THEOREM HandlersTyped == SubmissionsSpec => []HandlerTypeOK
<1> DEFINE IInv == Limiter!LimiterTypeOK /\ ClientsTyped /\ OnePlace
<1>1. SubmissionsInit => IInv
  <2> SUFFICES ASSUME SubmissionsInit PROVE IInv
    OBVIOUS
  <2>1. Limiter!LimiterTypeOK
    BY SubmissionsAssumption, EmptySeq DEF SubmissionsInit, Limiter!LimiterInit, Limiter!LimiterTypeOK
  <2>2. ClientsTyped
    BY SubmissionsAssumption DEF SubmissionsInit, ClientsTyped
  <2>3. OnePlace
    BY DEF SubmissionsInit, Init, Limiter!LimiterInit, OnePlace, Handling, Limiter!Asking
  <2>4. QED
    BY <2>1, <2>2, <2>3
<1>2. TypeOK /\ IInv /\ [SubmissionsNext]_submissionVars => IInv'
  BY LimiterStep, ClientsStep, PlaceStep
<1>3. SubmissionsSpec => []TypeOK
  BY LeaseUnderLoad, TypeCorrect, PTL
<1>4. TypeOK /\ IInv => HandlerTypeOK
  BY DEF HandlerTypeOK, ClientsTyped, OnePlace
<1>5. QED
  BY <1>1, <1>2, <1>3, <1>4, PTL DEF SubmissionsSpec

-----------------------------------------------------------------------------
(* The limit.  The deque is at most MAX_REQUESTS long, and each call let     *)
(* through within the last Period has a place of its own in it that holds    *)
(* its reading, older than the admission by at most the wait for the lock    *)
(* and so not older than WINDOW: what trimming drops is older, at the left   *)
(* end of the deque and up to the first reading that has not expired, in     *)
(* whichever order the readings came.                                        *)

Held(x, i) == window[i] \in x[1] .. x[1] + LockLag

InDeque ==
    \E place \in [Limiter!LetThrough -> DOMAIN window] :
        /\ \A x, y \in Limiter!LetThrough : place[x] = place[y] => x = y
        /\ \A x \in Limiter!LetThrough : Held(x, place[x])

\* Who has been let through.
LEMMA LetThroughIs ==
  ASSUME Limiter!LimiterTypeOK
  PROVE  /\ \A x \in Limiter!LetThrough :
               /\ x = <<x[1], x[2]>> /\ x[1] \in Limiter!Period /\ x[2] \in 1 .. passed[x[1]]
         /\ \A ago \in Limiter!Period : \A n \in 1 .. passed[ago] :
               <<ago, n>> \in Limiter!LetThrough
  BY DEF Limiter!LetThrough

\* A reading that stands for a call of the last Period has not expired.
LEMMA PeriodIsLive ==
  ASSUME NEW ago \in Limiter!Period, NEW reading \in ago .. ago + LockLag
  PROVE  ago \in Nat /\ reading \in Nat /\ ~(reading > WINDOW)
  BY SubmissionsAssumption DEF Limiter!Period

\* What trimming drops has expired, and the rest keeps its order.
LEMMA TrimmedDrops ==
  ASSUME NEW age \in Nat, window \in Seq(Readings)
  PROVE  \E drop \in 0 .. Len(window) :
            /\ Limiter!Trimmed(age) \in Seq(Readings)
            /\ Len(Limiter!Trimmed(age)) = Len(window) - drop
            /\ \A i \in 1 .. Len(window) - drop : Limiter!Trimmed(age)[i] = window[i + drop]
            /\ \A i \in 1 .. drop : window[i] > WINDOW
<1> DEFINE live == {i \in DOMAIN window : ~Limiter!Expired(window[i], age)}
           first == CHOOSE i \in live : \A j \in live : i <= j
<1>1. Len(window) \in Nat /\ DOMAIN window = 1 .. Len(window)
  BY LenProperties
<1>2. \A i \in (1 .. Len(window)) \ live : window[i] > WINDOW
  <2> TAKE i \in (1 .. Len(window)) \ live
  <2>1. window[i] > age + WINDOW
    BY <1>1 DEF Limiter!Expired
  <2>2. window[i] \in Nat
    BY <1>1, ElementOfSeq, Lags DEF Readings
  <2>3. QED
    BY <2>1, <2>2, SubmissionsAssumption
<1>3. CASE live = {}
  <2>1. Limiter!Trimmed(age) = <<>>
    BY <1>3 DEF Limiter!Trimmed
  <2>2. \A i \in 1 .. Len(window) : window[i] > WINDOW
    BY <1>2, <1>3
  <2> HIDE DEF live
  <2>3. Len(window) \in 0 .. Len(window) /\ Len(window) - Len(window) = 0
    BY <1>1
  <2>4. Limiter!Trimmed(age) \in Seq(Readings) /\ Len(Limiter!Trimmed(age)) = 0
    BY <2>1
  <2>5. \A i \in 1 .. 0 : Limiter!Trimmed(age)[i] = window[i + Len(window)]
    OBVIOUS
  <2>6. QED
    BY <2>2, <2>3, <2>4, <2>5
<1>4. CASE live # {}
  <2>1. first \in live /\ \A j \in live : first <= j
    <3>1. live \subseteq Nat
      BY <1>1
    <3> HIDE DEF live
    <3>2. \E i \in live : \A j \in live : i <= j
      BY <1>4, <3>1, Least
    <3>3. QED
      BY <3>2
  <2>2. Limiter!Trimmed(age) = SubSeq(window, first, Len(window))
    BY <1>4 DEF Limiter!Trimmed
  <2>3. first \in 1 .. Len(window)
    BY <1>1, <2>1
  <2>4. \A i \in 1 .. first - 1 : i \in 1 .. Len(window) /\ i \notin live
    <3> HIDE DEF first, live
    <3> QED
      BY <1>1, <2>1, <2>3
  <2> HIDE DEF first, live
  <2>5. \A i \in first .. Len(window) : window[i] \in Readings
    BY <1>1, <2>3, ElementOfSeq
  <2>6. /\ SubSeq(window, first, Len(window)) \in Seq(Readings)
        /\ Len(SubSeq(window, first, Len(window))) = Len(window) - first + 1
        /\ \A i \in 1 .. Len(window) - first + 1 :
              SubSeq(window, first, Len(window))[i] = window[first + i - 1]
    BY <1>1, <2>3, <2>5, SubSeqProperties
  <2> DEFINE drop == first - 1
  <2>7. drop \in 0 .. Len(window) /\ Len(window) - drop = Len(window) - first + 1
        /\ \A i \in 1 .. Len(window) - drop : first + i - 1 = i + drop
    BY <1>1, <2>3
  <2>8. \A i \in 1 .. drop : window[i] > WINDOW
    BY <1>2, <2>4
  <2>9. \A i \in 1 .. Len(window) - drop : Limiter!Trimmed(age)[i] = window[i + drop]
    BY <2>2, <2>6, <2>7
  <2>10. Limiter!Trimmed(age) \in Seq(Readings) /\ Len(Limiter!Trimmed(age)) = Len(window) - drop
    BY <2>2, <2>6, <2>7
  <2> HIDE DEF drop
  <2>11. QED
    BY <2>7, <2>8, <2>9, <2>10
<1>5. QED
  BY <1>3, <1>4

\* Trimming leaves every call let through its place, further left.
LEMMA PlacesMove ==
  ASSUME Limiter!LimiterTypeOK, InDeque, NEW age \in Nat
  PROVE  LET left == Limiter!Trimmed(age)
         IN  \E place \in [Limiter!LetThrough -> 1 .. Len(left)] :
                /\ \A x, y \in Limiter!LetThrough : place[x] = place[y] => x = y
                /\ \A x \in Limiter!LetThrough : left[place[x]] \in x[1] .. x[1] + LockLag
<1> DEFINE left == Limiter!Trimmed(age)
           LT == Limiter!LetThrough
<1>1. window \in Seq(Readings) /\ Len(window) \in Nat /\ DOMAIN window = 1 .. Len(window)
  BY LenProperties DEF Limiter!LimiterTypeOK, Readings
<1>2. PICK drop \in 0 .. Len(window) :
         /\ Len(left) = Len(window) - drop
         /\ \A i \in 1 .. Len(window) - drop : left[i] = window[i + drop]
         /\ \A i \in 1 .. drop : window[i] > WINDOW
  BY <1>1, TrimmedDrops
<1>3. PICK old \in [LT -> 1 .. Len(window)] :
         /\ \A x, y \in LT : old[x] = old[y] => x = y
         /\ \A x \in LT : window[old[x]] \in x[1] .. x[1] + LockLag
  BY <1>1 DEF InDeque, Held
<1>4. \A x \in LT : x[1] \in Limiter!Period
  BY LetThroughIs
<1> HIDE DEF left, LT
<1>5. ASSUME NEW x \in LT
      PROVE  old[x] \in Nat /\ old[x] > drop /\ old[x] - drop \in 1 .. Len(left)
  <2>1. old[x] \in 1 .. Len(window)
    BY <1>3
  <2>2. ~(window[old[x]] > WINDOW)
    BY <1>3, <1>4, PeriodIsLive
  <2>3. old[x] \notin 1 .. drop
    BY <1>2, <2>2
  <2>4. QED
    BY <1>1, <1>2, <2>1, <2>3
<1> DEFINE place == [x \in LT |-> old[x] - drop]
<1>6. place \in [LT -> 1 .. Len(left)]
  BY <1>5
<1>7. \A x, y \in LT : place[x] = place[y] => x = y
  <2>1. \A x, y \in LT : place[x] = place[y] => old[x] = old[y]
    BY <1>1, <1>2, <1>5
  <2>2. QED
    BY <1>3, <2>1
<1>8. \A x \in LT : left[place[x]] \in x[1] .. x[1] + LockLag
  <2> TAKE x \in LT
  <2>1. place[x] \in 1 .. Len(window) - drop /\ place[x] + drop = old[x]
    BY <1>1, <1>2, <1>5, <1>6
  <2>2. QED
    BY <1>2, <1>3, <2>1
<1> HIDE DEF place
<1>9. QED
  BY <1>6, <1>7, <1>8 DEF left, LT

\* A refusal leaves the calls let through where they are.
LEMMA RefuseKeepsPlaces ==
  ASSUME Limiter!LimiterTypeOK, InDeque, NEW c \in Callers, Limiter!Refuse(c)
  PROVE  InDeque'
<1>1. asking[c] \in Nat
  BY SubmissionsAssumption DEF Limiter!LimiterTypeOK, Limiter!Refuse, Limiter!Asking
<1>2. window' = Limiter!Trimmed(asking[c]) /\ passed' = passed
  BY DEF Limiter!Refuse, Limiter!LeftByRefusal
<1>3. window' \in Seq(Readings) /\ DOMAIN window' = 1 .. Len(window')
  BY <1>2, TrimmedType, LenProperties DEF Limiter!LimiterTypeOK, Readings
<1>4. Limiter!LetThrough' = Limiter!LetThrough
  BY <1>2 DEF Limiter!LetThrough
<1>5. PICK place \in [Limiter!LetThrough -> 1 .. Len(window')] :
         /\ \A x, y \in Limiter!LetThrough : place[x] = place[y] => x = y
         /\ \A x \in Limiter!LetThrough : window'[place[x]] \in x[1] .. x[1] + LockLag
  BY <1>1, <1>2, PlacesMove
<1>6. QED
  BY <1>3, <1>4, <1>5 DEF InDeque, Held

\* A call let through gets the place at the right end.
LEMMA AdmitKeepsPlaces ==
  ASSUME Limiter!LimiterTypeOK, InDeque, NEW c \in Callers, Limiter!Admit(c)
  PROVE  InDeque'
<1> DEFINE now == asking[c]
           left == Limiter!Trimmed(now)
           LT == Limiter!LetThrough
<1>1. now \in 0 .. LockLag /\ now \in Nat /\ now \in Readings
  BY Lags, SubmissionsAssumption DEF Limiter!LimiterTypeOK, Limiter!Admit, Limiter!Asking
<1>2. /\ window' = Append(left, now)
      /\ passed' = [ago \in Limiter!Period |-> passed[ago] + (IF ago = 0 THEN 1 ELSE 0)]
  BY DEF Limiter!Admit
<1>3. PICK old \in [LT -> 1 .. Len(left)] :
         /\ \A x, y \in LT : old[x] = old[y] => x = y
         /\ \A x \in LT : left[old[x]] \in x[1] .. x[1] + LockLag
  BY <1>1, PlacesMove
<1>4. left \in Seq(Readings) /\ Len(left) \in Nat
  BY TrimmedType, LenProperties DEF Limiter!LimiterTypeOK, Readings
<1>5. Limiter!LimiterTypeOK'
  BY AdmitTyped
<1>6. ASSUME NEW x \in Limiter!LetThrough'
      PROVE  x \in LT \/ (x[1] = 0 /\ x = <<0, passed[0] + 1>>)
  <2>1. /\ x = <<x[1], x[2]>> /\ x[1] \in Limiter!Period /\ x[2] \in 1 .. passed'[x[1]]
    BY <1>5, <1>6, LetThroughIs
       DEF Limiter!LimiterTypeOK, Limiter!LetThrough, Limiter!Period
  <2>2. passed[x[1]] \in Nat /\ passed'[x[1]] = passed[x[1]] + (IF x[1] = 0 THEN 1 ELSE 0)
    BY <1>2, <2>1 DEF Limiter!LimiterTypeOK
  <2>3. x[2] \in 1 .. passed[x[1]] \/ (x[1] = 0 /\ x[2] = passed[0] + 1)
    BY <2>1, <2>2
  <2>4. QED
    BY <2>1, <2>3, LetThroughIs
<1> DEFINE new == Limiter!LetThrough'
           place == [x \in new |-> IF x \in LT THEN old[x] ELSE Len(left) + 1]
<1> HIDE DEF left, LT, now, new
<1>7. /\ Len(window') = Len(left) + 1 /\ DOMAIN window' = 1 .. Len(left) + 1
      /\ window'[Len(left) + 1] = now
      /\ \A i \in 1 .. Len(left) : window'[i] = left[i]
  BY <1>1, <1>2, <1>4, AppendProperties, LenProperties
<1>8. place \in [new -> DOMAIN window']
  BY <1>3, <1>4, <1>7
<1>9. \A x, y \in new : place[x] = place[y] => x = y
  <2> TAKE x, y \in new
  <2>1. CASE x \in LT /\ y \in LT
    BY <1>3, <2>1
  <2>2. CASE x \notin LT /\ y \notin LT
    BY <1>6, <2>2 DEF new
  <2>3. \A z \in LT : old[z] # Len(left) + 1
    BY <1>3, <1>4
  <2>4. QED
    BY <2>1, <2>2, <2>3
<1>10. \A x \in new : window'[place[x]] \in x[1] .. x[1] + LockLag
  <2> TAKE x \in new
  <2>1. CASE x \in LT
    BY <1>3, <1>7, <2>1
  <2>2. CASE x \notin LT
    <3>1. x[1] = 0 /\ place[x] = Len(left) + 1
      BY <1>6, <2>2 DEF new
    <3>2. now \in 0 .. 0 + LockLag
      BY <1>1, SubmissionsAssumption
    <3>3. QED
      BY <1>7, <3>1, <3>2
  <2>3. QED
    BY <2>1, <2>2
<1> HIDE DEF place
<1>11. QED
  BY <1>8, <1>9, <1>10 DEF InDeque, Held, new

\* Time moves the readings and their count alike.
LEMMA TickKeepsPlaces ==
  ASSUME Limiter!LimiterTypeOK, InDeque, Limiter!LimiterTick
  PROVE  InDeque'
<1> DEFINE LT == Limiter!LetThrough
           new == Limiter!LetThrough'
           before(x) == <<x[1] - 1, x[2]>>
<1>1. Limiter!LimiterTypeOK'
  BY TickTyped
<1>2. /\ window' = [i \in DOMAIN window |-> Limiter!Grown(window[i])]
      /\ passed' = [ago \in Limiter!Period |-> IF ago = 0 THEN 0 ELSE passed[ago - 1]]
  BY DEF Limiter!LimiterTick
<1>3. PICK old \in [LT -> DOMAIN window] :
         /\ \A x, y \in LT : old[x] = old[y] => x = y
         /\ \A x \in LT : window[old[x]] \in x[1] .. x[1] + LockLag
  BY DEF InDeque, Held
<1>4. ASSUME NEW x \in new
      PROVE  /\ x = <<x[1], x[2]>> /\ x[1] \in Limiter!Period /\ x[1] \in Nat \ {0}
             /\ before(x) \in LT /\ before(x)[1] = x[1] - 1
  <2>1. /\ x = <<x[1], x[2]>> /\ x[1] \in Limiter!Period /\ x[2] \in 1 .. passed'[x[1]]
    BY <1>1, <1>4, LetThroughIs
       DEF Limiter!LimiterTypeOK, Limiter!LetThrough, Limiter!Period
  <2>2. x[1] # 0 /\ passed'[x[1]] = passed[x[1] - 1]
    BY <1>2, <2>1
  <2>3. x[1] - 1 \in Limiter!Period /\ x[1] \in Nat \ {0}
    BY <2>1, <2>2, SubmissionsAssumption DEF Limiter!Period
  <2>4. before(x) \in LT
    BY <2>1, <2>2, <2>3, LetThroughIs
  <2>5. QED
    BY <2>1, <2>2, <2>3, <2>4
<1> HIDE DEF LT, new
<1> DEFINE place == [x \in new |-> old[before(x)]]
<1>5. DOMAIN window' = DOMAIN window
  BY <1>2
<1>6. place \in [new -> DOMAIN window']
  BY <1>3, <1>4, <1>5
<1>7. \A x, y \in new : place[x] = place[y] => x = y
  <2> TAKE x, y \in new
  <2>1. place[x] = place[y] => before(x) = before(y)
    BY <1>3, <1>4
  <2>2. before(x) = before(y) => x[1] = y[1] /\ x[2] = y[2]
    <3>1. before(x) = before(y) => x[1] - 1 = y[1] - 1 /\ x[2] = y[2]
      OBVIOUS
    <3>2. x[1] \in Nat /\ y[1] \in Nat
      BY <1>4
    <3> HIDE DEF before
    <3>3. QED
      BY <3>1, <3>2, SubmissionsAssumption
  <2>3. QED
    BY <1>4, <2>1, <2>2
<1>8. \A x \in new : window'[place[x]] \in x[1] .. x[1] + LockLag
  <2> TAKE x \in new
  <2>1. /\ before(x)[1] \in Limiter!Period /\ before(x)[1] = x[1] - 1 /\ x[1] \in Nat
        /\ window[place[x]] \in before(x)[1] .. before(x)[1] + LockLag
        /\ place[x] \in DOMAIN window
    BY <1>3, <1>4, <1>5, <1>6, LetThroughIs DEF LT
  <2> HIDE DEF place, before
  <2>2. window[place[x]] \in Nat /\ ~(window[place[x]] > WINDOW)
    BY <2>1, PeriodIsLive
  <2>3. window'[place[x]] = window[place[x]] + 1
    BY <1>2, <2>1, <2>2, SubmissionsAssumption DEF Limiter!Grown, Limiter!OldestAge
  <2>4. QED
    BY <2>1, <2>2, <2>3, SubmissionsAssumption
<1> HIDE DEF place
<1>9. QED
  BY <1>6, <1>7, <1>8 DEF InDeque, Held, new

\* Every step leaves the calls let through their places.
LEMMA PlacesStep ==
  ASSUME Limiter!LimiterTypeOK, InDeque, [SubmissionsNext]_submissionVars
  PROVE  InDeque'
<1>1. CASE UNCHANGED <<window, passed>>
  <2>1. Limiter!LetThrough' = Limiter!LetThrough
    BY <1>1 DEF Limiter!LetThrough, Limiter!Period
  <2>2. QED
    BY <1>1, <2>1 DEF InDeque, Held
<1>2. CASE TimePasses
  BY <1>2, TickKeepsPlaces DEF TimePasses
<1>3. ASSUME NEW c \in Callers
      PROVE  /\ Pass(c) \/ TooMany(c) => InDeque'
             /\ Submit(c) \/ Wake(c) \/ TimeOut(c) => UNCHANGED <<window, passed>>
             /\ Deny(c) \/ Enter(c) \/ Win(c) \/ Lose(c) => UNCHANGED <<window, passed>>
             /\ Finish(c) \/ Die(c) => UNCHANGED <<window, passed>>
  <2>1. Pass(c) \/ TooMany(c) => InDeque'
    BY AdmitKeepsPlaces, RefuseKeepsPlaces DEF Pass, TooMany
  <2>2. QED
    BY <2>1 DEF Submit, Wake, TimeOut, Deny, Enter, Win, Lose, Finish, Die, limiterVars,
          Limiter!ReadMonotonic, Limiter!Vanish
<1>4. QED
  BY <1>1, <1>2, <1>3
     DEF SubmissionsNext, submissionVars, limiterVars, ExecutionEnds, Handle

\* The limiter lets no more than MAX_REQUESTS calls through in any period that is shorter
\* than the window by the longest wait for the lock, for any number of clients, whichever
\* of them overtake each other at the lock and however often they retry (rate_limit).
THEOREM NeverAboveTheLimit == SubmissionsSpec => []LimitHolds
<1>1. SubmissionsInit => Limiter!LimiterTypeOK /\ InDeque
  <2> SUFFICES ASSUME SubmissionsInit PROVE Limiter!LimiterTypeOK /\ InDeque
    OBVIOUS
  <2>1. /\ window = <<>> /\ passed = [ago \in Limiter!Period |-> 0]
        /\ Limiter!LimiterTypeOK
    BY SubmissionsAssumption, EmptySeq DEF SubmissionsInit, Limiter!LimiterInit, Limiter!LimiterTypeOK
  <2>2. Limiter!LetThrough = {}
    BY <2>1 DEF Limiter!LetThrough
  <2>3. [x \in {} |-> x] \in [Limiter!LetThrough -> DOMAIN window]
    BY <2>2
  <2>4. QED
    BY <2>1, <2>2, <2>3 DEF InDeque
<1>2. Limiter!LimiterTypeOK /\ InDeque /\ [SubmissionsNext]_submissionVars
        => Limiter!LimiterTypeOK' /\ InDeque'
  BY LimiterStep, PlacesStep
<1>3. Limiter!LimiterTypeOK /\ InDeque => LimitHolds
  <2> SUFFICES ASSUME Limiter!LimiterTypeOK, InDeque PROVE LimitHolds
    OBVIOUS
  <2>1. Len(window) \in Nat /\ DOMAIN window = 1 .. Len(window) /\ Len(window) <= MAX_REQUESTS
    BY LenProperties DEF Limiter!LimiterTypeOK
  <2>2. PICK place \in [Limiter!LetThrough -> 1 .. Len(window)] :
           \A x, y \in Limiter!LetThrough : place[x] = place[y] => x = y
    BY <2>1 DEF InDeque
  <2>3. place \in Injection(Limiter!LetThrough, 1 .. Len(window))
    BY <2>2 DEF Injection, IsInjective
  <2>4. IsFiniteSet(1 .. Len(window)) /\ Cardinality(1 .. Len(window)) = Len(window)
    BY <2>1, FS_Interval
  <2>5. /\ IsFiniteSet(Limiter!LetThrough)
        /\ Cardinality(Limiter!LetThrough) <= Len(window)
    BY <2>3, <2>4, FS_Injection
  <2>6. Cardinality(Limiter!LetThrough) \in Nat
    BY <2>5, FS_CardinalityType
  <2>7. Cardinality(Limiter!LetThrough) <= MAX_REQUESTS
    BY <2>1, <2>5, <2>6, SubmissionsAssumption
  <2>8. Limiter!Cardinality(Limiter!LetThrough) = Cardinality(Limiter!LetThrough)
    BY Zenon DEF Cardinality, Limiter!Cardinality
  <2>9. QED
    BY <2>7, <2>8 DEF LimitHolds, Limiter!LimitHolds
<1>4. QED
  BY <1>1, <1>2, <1>3, PTL DEF SubmissionsSpec

=============================================================================
