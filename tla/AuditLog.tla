------------------------------ MODULE AuditLog ------------------------------
(* commit_chunk (services/audit.py): writers on one execution number their   *)
(* audit events optimistically.  A writer reads the highest sequence number, *)
(* builds its rows from the next one on and commits them in one transaction; *)
(* the unique constraint on (execution, sequence) refuses the commit when a  *)
(* rival took a number in between, and the writer starts over, five times at *)
(* most.                                                                     *)
EXTENDS Naturals

CONSTANTS
    Writers,    \* the request handlers writing on this execution
    Attempts,   \* range(5) in the code
    Sizes,      \* how many AuditEvents a chunk may hold
    Budget      \* bound: how many chunks each writer sends, [Writers -> Nat]

ASSUME AuditAssumption ==
    /\ Attempts \in Nat \ {0}
    /\ Sizes \subseteq Nat \ {0}
    /\ Budget \in [Writers -> Nat]

VARIABLES
    events,     \* the audit_events rows: sequence number -> chunk
    pc,
    sent,       \* the chunks each writer started, the current one included
    size,       \* how many events the current chunk holds
    base_seq,   \* the first number of the current chunk
    attempt,
    rivals      \* history: commits of others since the chunk started, as far
                \* as the attempts count

vars == <<events, pc, sent, size, base_seq, attempt, rivals>>
chunk == <<sent, size>>

Last == IF DOMAIN events = {} THEN 0
        ELSE CHOOSE s \in DOMAIN events : \A t \in DOMAIN events : t <= s

Writing(w) == pc[w] \in {"reading", "inserting"}
Chunk(w) == <<w, sent[w]>>
ChunkIds == UNION {{w} \X (1 .. Budget[w]) : w \in Writers}
Numbers(w) == base_seq[w] .. base_seq[w] + size[w] - 1

TypeOK ==
    /\ DOMAIN events \subseteq Nat \ {0}
    /\ \A s \in DOMAIN events : events[s] \in ChunkIds
    /\ pc \in [Writers -> {"idle", "reading", "inserting", "outrun", "refused"}]
    /\ sent \in [Writers -> Nat]
    /\ \A w \in Writers : sent[w] <= Budget[w]
    /\ size \in [Writers -> Nat]
    /\ \A w \in Writers : Writing(w) => size[w] \in Sizes
    /\ base_seq \in [Writers -> Nat]
    /\ attempt \in [Writers -> 0 .. Attempts - 1]
    /\ rivals \in [Writers -> 0 .. Attempts]

Init ==
    /\ events = [s \in {} |-> <<>>]
    /\ pc = [w \in Writers |-> "idle"]
    /\ sent = [w \in Writers |-> 0]
    /\ size = [w \in Writers |-> 0]
    /\ base_seq = [w \in Writers |-> 0]
    /\ attempt = [w \in Writers |-> 0]
    /\ rivals = [w \in Writers |-> 0]

-----------------------------------------------------------------------------

Begin(w) ==
    /\ ~Writing(w)
    /\ sent[w] < Budget[w]
    /\ sent' = [sent EXCEPT ![w] = @ + 1]
    /\ \E n \in Sizes : size' = [size EXCEPT ![w] = n]
    /\ attempt' = [attempt EXCEPT ![w] = 0]
    /\ rivals' = [rivals EXCEPT ![w] = 0]
    /\ pc' = [pc EXCEPT ![w] = "reading"]
    /\ UNCHANGED <<events, base_seq>>

\* Mutant: the count starts one too far.
NextWithGap == Last + 2

NextSequence == Last + 1

ReadMax(w) ==
    /\ pc[w] = "reading"
    /\ base_seq' = [base_seq EXCEPT ![w] = NextSequence]
    /\ pc' = [pc EXCEPT ![w] = "inserting"]
    /\ UNCHANGED <<events, attempt, chunk, rivals>>

\* Mutant: the unique constraint is missing from the table.
NeverCollides(w) == FALSE

\* uq_audit_events_execution_sequence over every row of the chunk.
Collides(w) == \E s \in Numbers(w) : s \in DOMAIN events

\* The handler is done with its chunk, one way or another.
Finish(w, how) ==
    /\ pc' = [pc EXCEPT ![w] = how]
    /\ size' = [size EXCEPT ![w] = 0]
    /\ base_seq' = [base_seq EXCEPT ![w] = 0]
    /\ attempt' = [attempt EXCEPT ![w] = 0]
    /\ UNCHANGED sent

Commit(w) ==
    /\ pc[w] = "inserting"
    /\ ~Collides(w)
    /\ events' = [s \in DOMAIN events \cup Numbers(w) |->
                    IF s \in Numbers(w) THEN Chunk(w) ELSE events[s]]
    /\ rivals' = [v \in Writers |->
                     IF v # w /\ Writing(v) /\ rivals[v] < Attempts
                     THEN rivals[v] + 1 ELSE rivals[v]]
    /\ Finish(w, "idle")

\* Mutant: a retry inserts again under the number it already lost.
RetryFromInsert == "inserting"

\* Every attempt reads the highest number again.
RetryFrom == "reading"

\* Mutant: the last attempt is not told from the others.
IsLastTooLate(w) == attempt[w] = Attempts

IsLastAttempt(w) == attempt[w] = Attempts - 1

\* The transaction rolls back: none of the rows stay.
Collide(w) ==
    /\ pc[w] = "inserting"
    /\ Collides(w)
    /\ IF IsLastAttempt(w)
       THEN Finish(w, "outrun")
       ELSE /\ pc' = [pc EXCEPT ![w] = RetryFrom]
            /\ attempt' = [attempt EXCEPT ![w] = @ + 1]
            /\ UNCHANGED <<base_seq, chunk>>
    /\ UNCHANGED <<events, rivals>>

\* An IntegrityError of any other constraint is raised at once.
Refuse(w) ==
    /\ pc[w] = "inserting"
    /\ Finish(w, "refused")
    /\ UNCHANGED <<events, rivals>>

\* The process dies with its transaction.
Crash(w) ==
    /\ Writing(w)
    /\ Finish(w, "idle")
    /\ UNCHANGED <<events, rivals>>

Next == \E w \in Writers :
    \/ Begin(w) \/ ReadMax(w) \/ Commit(w)
    \/ Collide(w) \/ Refuse(w) \/ Crash(w)

Spec == Init /\ [][Next]_vars

-----------------------------------------------------------------------------
(* Properties                                                                *)

\* The sequence numbers of an execution are 1, 2, ... without a gap, whatever
\* writers collide, raise or die on the way (README "sequence-ordered event
\* log").
Gapless == DOMAIN events = 1 .. Last

\* A handler loses its chunk to collisions only after as many commits of
\* others as it has attempts: no single rival can make it raise.
RaisesOnlyWhenOutrun ==
    \A w \in Writers : pc[w] = "outrun" => rivals[w] >= Attempts

\* The table implements the append-only log: chunks stay whole, in one piece,
\* are never written twice and are never renumbered.
Log == INSTANCE AppendLog WITH log <- [s \in 1 .. Last |-> events[s]]
ImplementsAppendLog == Log!AppendSpec

=============================================================================
