-------------------------- MODULE AuditLog_proofs ---------------------------
(* The audit trail has no gap and implements the append-only log, for any    *)
(* number of writers, attempts and chunk sizes.                              *)
EXTENDS AuditLog, SequenceTheorems, TLAPS

-----------------------------------------------------------------------------
(* The inductive invariant: types, and what ties a writer to the table.  A   *)
(* writer about to insert read the highest number at some earlier moment, so *)
(* its base is at most one past the highest number now; its chunk carries a  *)
(* number of its own that no row has yet; and a base that is taken already   *)
(* is one more race lost than the attempts counted so far.                   *)

Fits(w) == base_seq[w] \in 1 .. Last + 1
Unwritten(w) == \A s \in DOMAIN events : events[s] # Chunk(w)
Lost(w) == attempt[w] + (IF base_seq[w] <= Last THEN 1 ELSE 0)

Shape ==
    /\ Last \in Nat
    /\ DOMAIN events = 1 .. Last
    /\ \A s \in DOMAIN events, v \in Writers, n \in Nat :
          events[s] = <<v, n>> => n <= sent[v]

WriterInv(w) ==
    /\ Writing(w) => sent[w] >= 1 /\ Unwritten(w)
    /\ pc[w] = "reading" => attempt[w] <= rivals[w]
    /\ pc[w] = "inserting" => Fits(w) /\ Lost(w) <= rivals[w]
    /\ pc[w] = "outrun" => rivals[w] = Attempts

AuditInv ==
    /\ TypeOK
    /\ Shape
    /\ \A w \in Writers : WriterInv(w)

LEMMA MaxOfInterval ==
  ASSUME NEW n \in Nat, NEW S, S = 1 .. n
  PROVE  (IF S = {} THEN 0 ELSE CHOOSE s \in S : \A t \in S : t <= s) = n
<1>1. CASE n = 0
  BY <1>1
<1>2. CASE n # 0
  <2>1. n \in S /\ \A t \in S : t <= n
    BY <1>2
  <2>2. \A s \in S : (\A t \in S : t <= s) => s = n
    BY <2>1
  <2> QED
    BY <1>2, <2>1, <2>2
<1> QED
  BY <1>1, <1>2

\* A commit that does not collide goes to the end of the log.
LEMMA CommitAtEnd ==
  ASSUME AuditInv, NEW w \in Writers, Commit(w)
  PROVE  /\ base_seq[w] = Last + 1
         /\ size[w] \in Nat \ {0}
         /\ Last' = Last + size[w]
         /\ DOMAIN events' = 1 .. Last + size[w]
<1>0. TypeOK /\ Shape /\ WriterInv(w) /\ pc[w] = "inserting" /\ ~Collides(w)
  BY DEF AuditInv, Commit
<1>1. size[w] \in Nat \ {0} /\ base_seq[w] \in Nat /\ Last \in Nat
  BY <1>0, AuditAssumption DEF TypeOK, Writing, Shape
<1>2. base_seq[w] \in 1 .. Last + 1
  BY <1>0 DEF WriterInv, Fits
<1>3. base_seq[w] \notin 1 .. Last
  <2>1. base_seq[w] \in Numbers(w)
    BY <1>1 DEF Numbers
  <2> QED
    BY <1>0, <2>1 DEF Collides, Shape
<1>4. base_seq[w] = Last + 1
  BY <1>1, <1>2, <1>3
<1>5. DOMAIN events' = 1 .. Last + size[w]
  <2>1. DOMAIN events' = 1 .. Last \cup Numbers(w)
    BY <1>0 DEF Commit, Shape
  <2>2. Numbers(w) = Last + 1 .. Last + size[w]
    BY <1>1, <1>4 DEF Numbers
  <2> QED
    BY <1>1, <2>1, <2>2
<1>6. Last' = Last + size[w]
  <2> DEFINE n == Last + size[w]
             S == DOMAIN events'
  <2>1. n \in Nat /\ S = 1 .. n
    BY <1>1, <1>5
  <2> HIDE DEF n, S
  <2>2. (IF S = {} THEN 0 ELSE CHOOSE s \in S : \A t \in S : t <= s) = n
    BY <2>1, MaxOfInterval
  <2> QED
    BY <2>2 DEF Last, n, S
<1> QED
  BY <1>1, <1>4, <1>5, <1>6

LEMMA AuditInit == Init => AuditInv
<1> SUFFICES ASSUME Init PROVE AuditInv
  OBVIOUS
<1> USE AuditAssumption DEF Init
<1>1. DOMAIN events = 1 .. 0
  OBVIOUS
<1>2. Last = 0
  BY <1>1, MaxOfInterval DEF Last
<1>3. TypeOK
  BY DEF TypeOK, Writing
<1> QED
  BY <1>1, <1>2, <1>3 DEF AuditInv, Shape, WriterInv, Writing

LEMMA AuditStep == AuditInv /\ [Next]_vars => AuditInv'
<1> SUFFICES ASSUME AuditInv, [Next]_vars PROVE AuditInv'
  OBVIOUS
<1> USE AuditAssumption
<1>0. TypeOK /\ Shape /\ \A w \in Writers : WriterInv(w)
  BY DEF AuditInv
<1>same. events' = events => Last' = Last
  BY DEF Last
<1>1. ASSUME NEW w \in Writers, Begin(w) PROVE AuditInv'
  <2>1. TypeOK'
    BY <1>0, <1>1 DEF Begin, TypeOK, Writing
  <2>2. Shape'
    <3>1. \A v \in Writers : sent[v] \in Nat /\ sent'[v] \in Nat /\ sent[v] <= sent'[v]
      BY <1>0, <1>1 DEF Begin, TypeOK
    <3>2. \A s \in DOMAIN events, v \in Writers, n \in Nat :
             events[s] = <<v, n>> => n <= sent'[v]
      BY <1>0, <3>1 DEF Shape
    <3> QED
      BY <1>0, <1>1, <1>same, <3>2 DEF Begin, Shape
  <2>3. ASSUME NEW v \in Writers PROVE WriterInv(v)'
    <3>1. CASE v = w
      <4>1. Unwritten(w)'
        <5>1. sent'[w] = sent[w] + 1 /\ sent[w] \in Nat /\ events' = events
          BY <1>0, <1>1 DEF Begin, TypeOK
        <5>2. \A s \in DOMAIN events : events[s] # <<w, sent[w] + 1>>
          BY <1>0, <5>1 DEF Shape
        <5> QED
          BY <5>1, <5>2 DEF Unwritten, Chunk
      <4> QED
        BY <1>0, <1>1, <3>1, <4>1 DEF Begin, WriterInv, TypeOK
    <3>2. CASE v # w
      BY <1>0, <1>1, <1>same, <3>2
      DEF Begin, WriterInv, TypeOK, Writing, Unwritten, Chunk, Fits, Lost
    <3> QED
      BY <3>1, <3>2
  <2> QED
    BY <2>1, <2>2, <2>3 DEF AuditInv
<1>2. ASSUME NEW w \in Writers, ReadMax(w) PROVE AuditInv'
  <2>1. TypeOK'
    BY <1>0, <1>2 DEF ReadMax, NextSequence, Shape, TypeOK, Writing, chunk
  <2>2. Shape'
    BY <1>0, <1>2, <1>same DEF ReadMax, Shape, chunk
  <2>3. ASSUME NEW v \in Writers PROVE WriterInv(v)'
    <3>1. CASE v = w
      <4>1. Fits(w)' /\ Lost(w)' <= rivals'[w]
        BY <1>0, <1>2, <1>same
        DEF ReadMax, NextSequence, Fits, Lost, Shape, WriterInv, TypeOK
      <4> QED
        BY <1>0, <1>2, <3>1, <4>1
        DEF ReadMax, WriterInv, TypeOK, Writing, Unwritten, Chunk, chunk
    <3>2. CASE v # w
      BY <1>0, <1>2, <1>same, <3>2
      DEF ReadMax, WriterInv, TypeOK, Writing, Unwritten, Chunk, Fits, Lost, chunk
    <3> QED
      BY <3>1, <3>2
  <2> QED
    BY <2>1, <2>2, <2>3 DEF AuditInv
<1>3. ASSUME NEW w \in Writers, Commit(w) PROVE AuditInv'
  <2>0. /\ base_seq[w] = Last + 1 /\ size[w] \in Nat \ {0}
        /\ Last' = Last + size[w] /\ DOMAIN events' = 1 .. Last + size[w]
    BY <1>3, CommitAtEnd
  <2>1. \A s \in DOMAIN events' :
           events'[s] = Chunk(w) \/ (s \in DOMAIN events /\ events'[s] = events[s])
    <3> TAKE s \in DOMAIN events'
    <3>1. s \in DOMAIN events \cup Numbers(w)
      BY <1>3 DEF Commit
    <3>2. events'[s] = IF s \in Numbers(w) THEN Chunk(w) ELSE events[s]
      BY <1>3, <3>1 DEF Commit
    <3>3. CASE s \in Numbers(w)
      BY <3>2, <3>3
    <3>4. CASE s \notin Numbers(w)
      BY <3>1, <3>2, <3>4
    <3> QED
      BY <3>3, <3>4
  <2>2. Chunk(w) = <<w, sent[w]>> /\ sent[w] \in 1 .. Budget[w] /\ Writing(w)
    BY <1>0, <1>3 DEF Commit, WriterInv, Writing, TypeOK, Chunk
  <2>3. TypeOK'
    <3>1. Chunk(w) \in ChunkIds
      BY <2>2 DEF ChunkIds
    <3>2. \A s \in DOMAIN events' : events'[s] \in ChunkIds /\ s \in Nat \ {0}
      <4>1. \A s \in DOMAIN events : events[s] \in ChunkIds
        BY <1>0 DEF TypeOK
      <4>2. \A s \in DOMAIN events' : events'[s] \in ChunkIds
        BY <2>1, <3>1, <4>1
      <4>3. Last \in Nat /\ size[w] \in Nat
        BY <1>0, <2>0 DEF Shape
      <4> QED
        BY <2>0, <4>2, <4>3
    <3>3. rivals' \in [Writers -> 0 .. Attempts]
      BY <1>0, <1>3 DEF Commit, TypeOK
    <3>4. /\ pc' \in [Writers -> {"idle", "reading", "inserting", "outrun", "refused"}]
          /\ sent' \in [Writers -> Nat]
          /\ \A v \in Writers : sent'[v] <= Budget[v]
          /\ size' \in [Writers -> Nat]
          /\ base_seq' \in [Writers -> Nat]
          /\ attempt' \in [Writers -> 0 .. Attempts - 1]
      BY <1>0, <1>3 DEF Commit, Finish, TypeOK
    <3>5. \A v \in Writers : Writing(v)' => size'[v] \in Sizes
      BY <1>0, <1>3 DEF Commit, Finish, TypeOK, Writing
    <3> QED
      BY <3>2, <3>3, <3>4, <3>5 DEF TypeOK
  <2>4. Shape'
    <3>1. \A s \in DOMAIN events', v \in Writers, n \in Nat :
             events'[s] = <<v, n>> => n <= sent'[v]
      <4>1. sent' = sent /\ sent \in [Writers -> Nat]
        BY <1>0, <1>3 DEF Commit, Finish, TypeOK
      <4>2. TAKE s \in DOMAIN events', v \in Writers, n \in Nat
      <4>3. CASE events'[s] = Chunk(w)
        BY <2>2, <4>1, <4>3
      <4>4. CASE s \in DOMAIN events /\ events'[s] = events[s]
        BY <1>0, <4>1, <4>4 DEF Shape
      <4> QED
        BY <2>1, <4>3, <4>4
    <3> QED
      BY <1>0, <2>0, <3>1 DEF Shape
  <2>5. ASSUME NEW v \in Writers PROVE WriterInv(v)'
    <3>1. CASE v = w
      BY <1>3, <3>1, <1>0 DEF Commit, Finish, WriterInv, Writing, TypeOK
    <3>2. CASE v # w
      <4>1. Chunk(v)' = Chunk(v) /\ Chunk(v) # Chunk(w) /\ pc'[v] = pc[v]
            /\ base_seq'[v] = base_seq[v] /\ attempt'[v] = attempt[v]
            /\ sent'[v] = sent[v]
        BY <1>0, <1>3, <3>2 DEF Commit, Finish, Chunk, TypeOK
      <4>2. Unwritten(v) => Unwritten(v)'
        BY <2>1, <4>1 DEF Unwritten
      <4>3. Writing(v) => \/ rivals[v] < Attempts /\ rivals'[v] = rivals[v] + 1
                          \/ rivals[v] = Attempts /\ rivals'[v] = Attempts
        <5>1. rivals[v] \in 0 .. Attempts
          BY <1>0 DEF TypeOK
        <5>2. Writing(v) => rivals'[v] = IF rivals[v] < Attempts
                                         THEN rivals[v] + 1 ELSE rivals[v]
          BY <1>3, <3>2 DEF Commit
        <5>3. CASE rivals[v] < Attempts
          BY <5>2, <5>3
        <5>4. CASE ~(rivals[v] < Attempts)
          BY <5>1, <5>2, <5>4
        <5> QED
          BY <5>3, <5>4
      <4>4. Fits(v) => Fits(v)'
        <5>1. Last \in Nat /\ size[w] \in Nat /\ base_seq[v] \in Nat
          BY <1>0, <2>0 DEF Shape, TypeOK
        <5> QED
          BY <2>0, <4>1, <5>1 DEF Fits
      <4>5. pc[v] = "inserting" => Lost(v)' <= rivals'[v]
        <5> SUFFICES ASSUME pc[v] = "inserting" PROVE Lost(v)' <= rivals'[v]
          OBVIOUS
        <5>1. attempt[v] \in 0 .. Attempts - 1 /\ rivals[v] \in 0 .. Attempts
          BY <1>0 DEF TypeOK
        <5>2. Lost(v)' = attempt[v] \/ Lost(v)' = attempt[v] + 1
          BY <4>1, <5>1 DEF Lost
        <5>3. attempt[v] <= rivals[v]
          BY <1>0, <5>1 DEF WriterInv, Lost
        <5> QED
          BY <4>3, <5>1, <5>2, <5>3 DEF Writing
      <4>6. pc[v] = "reading" => attempt'[v] <= rivals'[v]
        BY <1>0, <4>1, <4>3 DEF WriterInv, Writing, TypeOK
      <4>7. pc[v] = "outrun" => rivals'[v] = Attempts
        BY <1>0, <1>3, <3>2 DEF Commit, WriterInv, Writing, TypeOK
      <4> QED
        BY <1>0, <4>1, <4>2, <4>4, <4>5, <4>6, <4>7 DEF WriterInv, Writing
    <3> QED
      BY <3>1, <3>2
  <2> QED
    BY <2>3, <2>4, <2>5 DEF AuditInv
<1>4. ASSUME NEW w \in Writers, Collide(w) PROVE AuditInv'
  <2>0. Last' = Last /\ events' = events /\ rivals' = rivals /\ sent' = sent
    BY <1>4, <1>same DEF Collide, Finish, chunk
  <2>1. TypeOK'
    BY <1>0, <1>4 DEF Collide, Finish, IsLastAttempt, RetryFrom, TypeOK, Writing, chunk
  <2>2. Shape'
    BY <1>0, <2>0 DEF Shape
  <2>3. ASSUME NEW v \in Writers PROVE WriterInv(v)'
    <3>1. CASE v = w
      <4>1. attempt[w] + 1 <= rivals[w]
        <5>1. base_seq[w] <= Last
          BY <1>0, <1>4 DEF Collide, Collides, Numbers, Shape, TypeOK
        <5> QED
          BY <1>0, <1>4, <5>1 DEF Collide, WriterInv, Lost, TypeOK
      <4>2. CASE IsLastAttempt(w)
        BY <1>0, <1>4, <2>0, <3>1, <4>1, <4>2
        DEF Collide, Finish, IsLastAttempt, WriterInv, Writing, TypeOK
      <4>3. CASE ~IsLastAttempt(w)
        BY <1>0, <1>4, <2>0, <3>1, <4>1, <4>3
        DEF Collide, RetryFrom, WriterInv, Writing, Unwritten, Chunk, TypeOK
      <4> QED
        BY <4>2, <4>3
    <3>2. CASE v # w
      <4>1. pc'[v] = pc[v] /\ base_seq'[v] = base_seq[v] /\ attempt'[v] = attempt[v]
        BY <1>0, <1>4, <3>2 DEF Collide, Finish, TypeOK, chunk
      <4> QED
        BY <1>0, <2>0, <4>1 DEF WriterInv, Writing, Unwritten, Chunk, Fits, Lost
    <3> QED
      BY <3>1, <3>2
  <2> QED
    BY <2>1, <2>2, <2>3 DEF AuditInv
<1>5. ASSUME NEW w \in Writers, Refuse(w) \/ Crash(w) PROVE AuditInv'
  <2>0. Last' = Last /\ events' = events /\ rivals' = rivals /\ sent' = sent
    BY <1>5, <1>same DEF Refuse, Crash, Finish
  <2>1. TypeOK'
    BY <1>0, <1>5 DEF Refuse, Crash, Finish, TypeOK, Writing
  <2>2. Shape'
    BY <1>0, <2>0 DEF Shape
  <2>3. ASSUME NEW v \in Writers PROVE WriterInv(v)'
    BY <1>0, <1>5, <2>0
    DEF Refuse, Crash, Finish, WriterInv, Writing, Unwritten, Chunk, Fits, Lost, TypeOK
  <2> QED
    BY <2>1, <2>2, <2>3 DEF AuditInv
<1>6. CASE UNCHANGED vars
  BY <1>0, <1>6, <1>same
  DEF vars, AuditInv, TypeOK, Shape, WriterInv, Writing, Unwritten, Chunk, Fits, Lost
<1> QED
  BY <1>1, <1>2, <1>3, <1>4, <1>5, <1>6 DEF Next

THEOREM AuditInvariant == Spec => []AuditInv
  BY AuditInit, AuditStep, PTL DEF Spec

-----------------------------------------------------------------------------

\* The writers and the table stay in their types.
THEOREM TypeCorrect == Spec => []TypeOK
<1>1. AuditInv => TypeOK
  BY DEF AuditInv
<1> QED
  BY <1>1, AuditInvariant, PTL

\* The sequence numbers never leave a gap.
THEOREM NoGap == Spec => []Gapless
<1>1. AuditInv => Gapless
  BY DEF AuditInv, Shape, Gapless
<1> QED
  BY <1>1, AuditInvariant, PTL

\* A chunk is given up to collisions only after Attempts commits of others.
THEOREM OutrunByAttempts == Spec => []RaisesOnlyWhenOutrun
<1>1. AuditInv => RaisesOnlyWhenOutrun
  BY AuditAssumption DEF AuditInv, WriterInv, RaisesOnlyWhenOutrun
<1> QED
  BY <1>1, AuditInvariant, PTL

-----------------------------------------------------------------------------
(* The append-only log.  A commit is an append; every other step stutters.   *)

Rows == [s \in 1 .. Last |-> events[s]]

LEMMA LogStart == Init => Log!AppendInit
<1> SUFFICES ASSUME Init PROVE Rows = << >>
  BY DEF Log!AppendInit, Rows
<1>1. DOMAIN events = 1 .. 0
  BY DEF Init
<1>2. Last = 0
  BY <1>1, MaxOfInterval DEF Last
<1> QED
  BY <1>2 DEF Rows

LEMMA RowsAreASequence ==
  ASSUME NEW n \in Nat, NEW S, NEW f \in [1 .. n -> S]
  PROVE  f \in Seq(S) /\ Len(f) = n
<1>1. f \in Seq(S)
  BY SeqDef
<1>2. Len(f) \in Nat /\ 1 .. Len(f) = 1 .. n
  BY <1>1, LenProperties
<1> QED
  BY <1>1, <1>2

LEMMA ChunkHasId ==
  ASSUME AuditInv, NEW w \in Writers, Commit(w)
  PROVE  Chunk(w) \in ChunkIds
<1>1. TypeOK /\ WriterInv(w) /\ Writing(w)
  BY DEF AuditInv, Commit, Writing
<1>2. sent[w] \in 1 .. Budget[w]
  BY <1>1, AuditAssumption DEF TypeOK, WriterInv
<1> QED
  BY <1>2 DEF Chunk, ChunkIds

LEMMA CommitAppends ==
  ASSUME AuditInv, NEW w \in Writers, Commit(w)
  PROVE  Log!Append1(Chunk(w), size[w])
<1>0. TypeOK /\ Shape /\ Unwritten(w)
  BY DEF AuditInv, WriterInv, Writing, Commit
<1>1. /\ base_seq[w] = Last + 1 /\ size[w] \in Nat \ {0} /\ Last \in Nat
      /\ Last' = Last + size[w]
  BY <1>0, CommitAtEnd DEF Shape
<1>2. Rows \in Seq(ChunkIds) /\ Len(Rows) = Last
  <2>1. Rows \in [1 .. Last -> ChunkIds]
    BY <1>0 DEF Rows, Shape, TypeOK
  <2> QED
    BY <1>1, <2>1, RowsAreASequence
<1>3. Chunk(w) \notin Log!Written
  <2>1. \A s \in 1 .. Last : Rows[s] # Chunk(w)
    BY <1>0 DEF Rows, Shape, Unwritten
  <2> QED
    BY <1>1, <1>2, <2>1 DEF Log!Written, Rows
<1>4. Rows' = Rows \o [i \in 1 .. size[w] |-> Chunk(w)]
  <2> DEFINE n == size[w]
             tail == [i \in 1 .. n |-> Chunk(w)]
  <2>1. Numbers(w) = Last + 1 .. Last + n
    BY <1>1 DEF Numbers
  <2>2. Rows' = [s \in 1 .. Last + n |-> IF s <= Last THEN Rows[s] ELSE Chunk(w)]
    <3>1. \A s \in 1 .. Last + n :
             events'[s] = IF s <= Last THEN events[s] ELSE Chunk(w)
      <4>1. \A s \in 1 .. Last + n : s \in Numbers(w) <=> ~(s <= Last)
        BY <1>1, <2>1
      <4>2. events' = [s \in 1 .. Last \cup Numbers(w) |->
                         IF s \in Numbers(w) THEN Chunk(w) ELSE events[s]]
        BY <1>0 DEF Commit, Shape
      <4>3. 1 .. Last + n = 1 .. Last \cup Numbers(w)
        BY <1>1, <2>1
      <4> QED
        BY <4>1, <4>2, <4>3
    <3> QED
      BY <1>1, <3>1 DEF Rows
  <2>3. tail \in Seq(ChunkIds) /\ Len(tail) = n
    <3>1. tail \in [1 .. n -> ChunkIds]
      BY ChunkHasId
    <3> QED
      BY <1>1, <3>1, RowsAreASequence
  <2>4. \A i \in 1 .. n : tail[i] = Chunk(w)
    OBVIOUS
  <2> HIDE DEF tail, n
  <2>5. n \in Nat
    BY <1>1 DEF n
  <2>6. /\ Rows \o tail \in Seq(ChunkIds) /\ Len(Rows \o tail) = Last + n
        /\ \A s \in 1 .. Last + n :
              (Rows \o tail)[s] = IF s <= Last THEN Rows[s] ELSE tail[s - Last]
    BY <1>2, <2>3, ConcatProperties
  <2>7. \A s \in 1 .. Last + n : ~(s <= Last) => s - Last \in 1 .. n
    BY <1>1, <2>5
  <2>8. Rows \o tail = Rows'
    <3>1. Rows \o tail \in [1 .. Last + n -> ChunkIds]
      BY <2>6, LenProperties
    <3>2. \A s \in 1 .. Last + n :
             (Rows \o tail)[s] = IF s <= Last THEN Rows[s] ELSE Chunk(w)
      BY <2>4, <2>6, <2>7
    <3> QED
      BY <2>2, <3>1, <3>2
  <2> QED
    BY <2>8 DEF tail, n
<1> QED
  BY <1>3, <1>4 DEF Log!Append1, Rows

LEMMA StepAppends == AuditInv /\ [Next]_vars => [Log!AppendNext]_Rows
<1> SUFFICES ASSUME AuditInv, [Next]_vars PROVE Log!AppendNext \/ Rows' = Rows
  OBVIOUS
<1>1. ASSUME NEW w \in Writers, Commit(w) PROVE Log!AppendNext
  <2>0. Chunk(w) \in ChunkIds
    BY <1>1, ChunkHasId
  <2>1. Chunk(w) \in ChunkIds /\ size[w] \in Sizes
    BY <1>1, <2>0 DEF AuditInv, Commit, TypeOK, Writing
  <2>2. Log!Append1(Chunk(w), size[w])
    BY <1>1, CommitAppends
  <2> QED
    BY <2>1, <2>2, Zenon DEF Log!AppendNext, Log!Append1
<1>2. events' = events => Rows' = Rows
  BY DEF Rows, Last
<1>3. ASSUME NEW w \in Writers,
             Begin(w) \/ ReadMax(w) \/ Collide(w) \/ Refuse(w) \/ Crash(w)
      PROVE  Rows' = Rows
  BY <1>2, <1>3 DEF Begin, ReadMax, Collide, Refuse, Crash
<1>4. CASE UNCHANGED vars
  BY <1>2, <1>4 DEF vars
<1> QED
  BY <1>1, <1>3, <1>4 DEF Next

\* The table implements the append-only log: whatever the writers do, chunks
\* are appended whole, each at most once, and no row ever changes.
THEOREM AppendsOnly == Spec => ImplementsAppendLog
  BY LogStart, StepAppends, AuditInvariant, PTL DEF Spec, ImplementsAppendLog, Log!AppendSpec, Rows

=============================================================================
