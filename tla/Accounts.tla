------------------------------ MODULE Accounts -------------------------------
(* The operators and their bearer tokens: ensure_bootstrap_admin in every    *)
(* worker that starts, the seed script with its three transactions, what an  *)
(* administrator does to the tables by hand, and the look a request takes.   *)
(*                                                                           *)
(* Each operator has one well-known token.  A transaction reads what others  *)
(* have committed (READ COMMITTED); an insert of a row another transaction   *)
(* has inserted waits for it.  A session sends what was assigned to a row it *)
(* has loaded when it commits and not before (autoflush is off).             *)
EXTENDS Naturals

CONSTANTS
    Workers,    \* processes of the API, each with its own start-up
    Humans,     \* usernames of SEED_DEMO_OPERATORS
    Machines,   \* usernames of SEED_DEMO_INTEGRATIONS
    Bootstrap,  \* bootstrap_admin_username
    SeededRole, \* the role the seed gives to each
    Rules,      \* agents, tools, permissions, policies and demo data
    Nobody,
    MaxEvents   \* bound: stops, kills and edits by hand

ASSUME AccountsAssumption ==
    /\ Bootstrap \notin Humans \cup Machines
    /\ Humans \cap Machines = {}
    /\ Rules \notin Humans \cup Machines \cup {Bootstrap}
    /\ SeededRole \in [Humans \cup Machines -> {"VIEWER", "OPERATOR", "APPROVER", "ADMIN"}]
    /\ \A m \in Machines : SeededRole[m] = "VIEWER"
    /\ Nobody \notin Workers
    /\ MaxEvents \in Nat

VARIABLES
    operator,   \* the rows of operators by username
    token,      \* each operator's token; an expired one counts as revoked
    boot,       \* where each worker's start-up is
    writer,     \* the worker whose open transaction has inserted the bootstrap row
    promoters,  \* workers whose session holds a promotion of that row, not yet sent
    seeder,     \* where the seed script is, and what it found missing
    seeded,     \* whether the Rules are there
    events,     \* how many of those there were
    outdated    \* history: workers that began before the last admin was gone, or
                \* beside the start-up of one that had

accountVars == <<operator, token, boot, writer, promoters, seeder, seeded, events, outdated>>

Usernames == Humans \cup Machines \cup {Bootstrap}
Roles == {"VIEWER", "OPERATOR", "APPROVER", "ADMIN"}
Missing == [role |-> "none", active |-> FALSE]
Row(role) == [role |-> role, active |-> TRUE]

Exists(u) == operator[u] # Missing
IsAdmin(u) == operator[u] = Row("ADMIN")
SomeAdmin == \E u \in Usernames : IsAdmin(u)

\* Whose commit makes the bootstrap operator an administrator.
HasToCommit(w) == writer = w \/ w \in promoters

\* The three transactions of seed, in demo mode.
Chapters == <<{Rules}, Humans, Machines>>
NotBegun == [chapter |-> 0, at |-> "idle", missing |-> {}]

AccountsTypeOK ==
    /\ operator \in [Usernames -> {Missing} \cup [role : Roles, active : BOOLEAN]]
    /\ token \in [Usernames -> {"none", "live", "revoked"}]
    /\ boot \in [Workers -> {"down", "looking", "finding", "inserting",
                             "checking", "issuing", "up"}]
    /\ writer \in Workers \cup {Nobody}
    /\ promoters \subseteq Workers
    /\ seeder \in [chapter : 0 .. 3, at : {"idle", "writing", "failed"},
                   missing : SUBSET (Usernames \cup {Rules})]
    /\ seeded \in BOOLEAN
    /\ events \in 0 .. MaxEvents
    /\ outdated \subseteq Workers
    \* a token belongs to an operator
    /\ \A u \in Usernames : token[u] # "none" => Exists(u)
    \* a session that has something to commit is between the two looks and the end
    /\ \A w \in Workers : HasToCommit(w) => boot[w] \in {"checking", "issuing"}

\* An empty database, or one where the bootstrap operator of an earlier deployment is
\* deactivated and the configured token is a new one.
AccountsInit ==
    /\ \E left \in {Missing, [role |-> "ADMIN", active |-> FALSE]} :
          operator = [u \in Usernames |-> IF u = Bootstrap THEN left ELSE Missing]
    /\ token = [u \in Usernames |-> "none"]
    /\ boot = [w \in Workers |-> "down"]
    /\ writer = Nobody
    /\ promoters = {}
    /\ seeder = NotBegun
    /\ seeded = FALSE
    /\ events = 0
    /\ outdated = {}

Event == events < MaxEvents /\ events' = events + 1
NoEvent == UNCHANGED events

-----------------------------------------------------------------------------
(* ensure_bootstrap_admin, with a token configured                           *)

bootRest == <<seeder, seeded>>

Booting(w, from, to) == boot[w] = from /\ boot' = [boot EXCEPT ![w] = to]

Underway(w) == boot[w] \notin {"down", "up"}

BootWorker(w) ==
    /\ NoEvent
    /\ Booting(w, "down", "looking")
    /\ outdated' = IF \E v \in outdated : Underway(v) THEN outdated \cup {w} ELSE outdated \ {w}
    /\ UNCHANGED <<operator, token, writer, promoters, bootRest>>

LookForAdmin(w) ==
    /\ NoEvent
    /\ Booting(w, "looking", IF SomeAdmin THEN "up" ELSE "finding")
    /\ UNCHANGED <<operator, token, writer, promoters, outdated, bootRest>>

\* A row that is there is assigned to and not written: nothing is sent or locked.
\* One that already says what it should stays unwritten at the commit as well.
FindByName(w) ==
    /\ NoEvent
    /\ Booting(w, "finding", IF Exists(Bootstrap) THEN "checking" ELSE "inserting")
    /\ promoters' = IF Exists(Bootstrap) /\ ~IsAdmin(Bootstrap)
                    THEN promoters \cup {w} ELSE promoters
    /\ UNCHANGED <<operator, token, writer, outdated, bootRest>>

\* The flush of a new row waits for another worker's, and then fails; the
\* worker reads that row and goes on with it, as it is.
FlushOperator(w) ==
    /\ NoEvent
    /\ writer = Nobody
    /\ Booting(w, "inserting", "checking")
    /\ writer' = IF Exists(Bootstrap) THEN Nobody ELSE w
    /\ UNCHANGED <<operator, token, promoters, outdated, bootRest>>

\* Mutant: the session of a worker that stops is not closed.
StaysOpen(w) == UNCHANGED <<writer, promoters, operator>>

Rollback(w) ==
    /\ writer' = IF writer = w THEN Nobody ELSE writer
    /\ promoters' = promoters \ {w}
    /\ UNCHANGED operator

\* What the transaction has inserted becomes visible; what the session has kept back
\* is sent, over whatever the row says by then.
Commit(w) ==
    /\ writer' = IF writer = w THEN Nobody ELSE writer
    /\ promoters' = promoters \ {w}
    /\ operator' = IF HasToCommit(w)
                   THEN [operator EXCEPT ![Bootstrap] = Row("ADMIN")] ELSE operator

\* Mutant: the return for a token that exists forgets the commit.
ReturnUncommitted(w) == Rollback(w)

\* The return for a token that exists.
KeepToken(w) == Commit(w)

CheckToken(w) ==
    /\ NoEvent
    /\ IF token[Bootstrap] = "none"
       THEN Booting(w, "checking", "issuing") /\ UNCHANGED <<operator, writer, promoters>>
       ELSE Booting(w, "checking", "up") /\ KeepToken(w)
    /\ UNCHANGED <<token, outdated, bootRest>>

\* Another worker's token is as good; the commit that fails takes what this
\* worker has written or was to write back.
IssueToken(w) ==
    /\ NoEvent
    /\ Booting(w, "issuing", "up")
    /\ IF token[Bootstrap] = "none"
       THEN Commit(w) /\ token' = [token EXCEPT ![Bootstrap] = "live"]
       ELSE Rollback(w) /\ UNCHANGED token
    /\ UNCHANGED <<outdated, bootRest>>

StopWorker(w) ==
    /\ Event
    /\ boot[w] # "down"
    /\ boot' = [boot EXCEPT ![w] = "down"]
    /\ Rollback(w)
    /\ UNCHANGED <<token, outdated, bootRest>>

StartUp(w) ==
    \/ LookForAdmin(w) \/ FindByName(w) \/ FlushOperator(w)
    \/ CheckToken(w) \/ IssueToken(w)

-----------------------------------------------------------------------------
(* The seed script                                                           *)

seedRest == <<boot, writer, promoters, outdated>>

\* Mutant: a revoked token counts as missing and is issued again, as the comment
\* on _issue_demo_token_if_new has it.
PresentAndLive(x) == IF x = Rules THEN seeded ELSE token[x] = "live"

Present(x) == IF x = Rules THEN seeded ELSE token[x] # "none"

BeginChapter ==
    /\ NoEvent
    /\ seeder.at = "idle" /\ seeder.chapter < 3
    /\ LET next == seeder.chapter + 1
       IN seeder' = [chapter |-> next, at |-> "writing",
                     missing |-> {x \in Chapters[next] : ~Present(x)}]
    /\ UNCHANGED <<operator, token, seeded, seedRest>>

\* The operators who get a token: _issue_demo_token_if_new.
Issue == seeder.missing \cap Usernames

\* One commit for all rows of a chapter.  An operator who exists is left alone,
\* as is a token that is revoked.
CommitChapter ==
    /\ NoEvent
    /\ seeder.at = "writing"
    /\ seeder' = [seeder EXCEPT !.at = "idle", !.missing = {}]
    /\ seeded' = TRUE
    /\ operator' = [u \in Usernames |->
          IF u \in seeder.missing /\ ~Exists(u) THEN Row(SeededRole[u]) ELSE operator[u]]
    /\ token' = [u \in Usernames |-> IF u \in Issue THEN "live" ELSE token[u]]
    /\ UNCHANGED seedRest

Killed ==
    /\ Event
    /\ seeder.at = "writing"
    /\ seeder' = [seeder EXCEPT !.at = "failed", !.missing = {}]
    /\ UNCHANGED <<operator, token, seeded, seedRest>>

\* The script is run again.
Rerun ==
    /\ NoEvent
    /\ seeder.at = "failed" \/ seeder = [NotBegun EXCEPT !.chapter = 3]
    /\ seeder' = NotBegun
    /\ UNCHANGED <<operator, token, seeded, seedRest>>

-----------------------------------------------------------------------------
(* By hand, in the database                                                  *)

byHandRest == <<boot, writer, promoters, seeder, seeded>>

Deactivate(u) ==
    /\ Event
    /\ operator[u].active
    /\ operator' = [operator EXCEPT ![u].active = FALSE]
    /\ outdated' = IF \E v \in Usernames \ {u} : IsAdmin(v) THEN outdated
                   ELSE {w \in Workers : boot[w] # "down"}
    /\ UNCHANGED <<token, byHandRest>>

Revoke(u) ==
    /\ Event
    /\ token[u] = "live"
    /\ token' = [token EXCEPT ![u] = "revoked"]
    /\ UNCHANGED <<operator, outdated, byHandRest>>

DropToken(u) ==
    /\ Event
    /\ token[u] # "none"
    /\ token' = [token EXCEPT ![u] = "none"]
    /\ UNCHANGED <<operator, outdated, byHandRest>>

-----------------------------------------------------------------------------
(* What a request sees                                                       *)

RolePermissions ==
    [VIEWER |-> {"read"}, OPERATOR |-> {"read", "execute"},
     APPROVER |-> {"read", "approve"}, ADMIN |-> {"read", "execute", "approve"}]

\* require_permission looks at the role alone, require_scope at the type of
\* the principal and its scopes, which the seed gives to the integrations.
Permitted(u, right) ==
    IF right \in {"read", "execute", "approve"}
    THEN right \in RolePermissions[operator[u].role]
    ELSE u \in Machines

TokenAccepted(u) == token[u] = "live"

OperatorAccepted(u) == Exists(u) /\ operator[u].active

-----------------------------------------------------------------------------
(* Properties                                                                *)

\* However the start-ups of several workers interleave and whichever of them is
\* stopped half-way, one that has ended leaves the service with an administrator,
\* unless the last one was deactivated after it began, or after one began that was
\* still under way then (ensure_bootstrap_admin, "safe under concurrent multi-worker
\* startup").  Such a one may issue the token of a promotion that is not its own, and
\* the worker that promotes then rolls it back.  Two that promote at once may both find
\* no token; the one whose commit fails leaves the administrator to the other.
ServingMeansAdmin == \A w \in Workers : boot[w] = "up" /\ w \notin outdated => SomeAdmin

=============================================================================
