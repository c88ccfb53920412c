# SafeOps in TLA+

SafeOps is a gate between AI agents and the tools they call. An agent's workflow runs as an
*execution*; every tool call passes a permission check, a policy evaluation and a risk assessment;
what needs a human is parked until an operator approves or rejects it, or until it expires; and
everything is written to an audit trail numbered per execution. The state lives in PostgreSQL at
READ COMMITTED, no row is locked across statements, and any number of API processes run the same
services. What keeps them apart is a handful of guarded UPDATEs, two unique constraints and a lease
with a time to live. This project models those protocols, checks them with TLC on small instances
and proves the main results with TLAPS for all of them.

All source paths are below `src/apps/api/app/` unless they start with another directory.

## 1. The system

| Component (source) | State | Operations |
| --- | --- | --- |
| Stepping lease (`services/agent_runtime.py`) | `executions.stepping`, `stepping_claimed_at`, `stepping_claim_id` | `_claim_stepping`, `_release_stepping` |
| Agent runtime (`services/agent_runtime.py`) | `executions.status`, `execution_steps` | `start_execution`, `step`, `resume`, `submit_external_action`, `reconcile_external_step`, `cancel` |
| Planner (`services/planner.py`) | none; reads the steps | `next_action` of three workflows |
| Tool gateway (`services/tool_gateway.py`) | `tool_requests`, `policy_decisions`, `risk_assessments`, `security_incidents` | `execute` |
| Policy engine (`services/policy_engine.py`, `policy_conditions.py`) | none; reads `policies` | `evaluate` |
| Risk engine (`services/risk_engine.py`, `risk_signals.py`, `risk_config.py`) | none; reads earlier requests | `assess`, `combine_decisions` |
| Approval engine (`services/approval_engine.py`) | `approval_requests`, the request's and the execution's status | `create_approval`, `approve`, `reject`, `_lazy_expire` |
| Audit trail (`services/audit.py`) | `audit_events` | `commit_chunk` |
| External action service (`services/external_action_service.py`) | `external_action_requests` | `submit`, `get_status` |
| Tools (`tools/payments.py`, `tools/devops.py`, `tools/base.py`) | `refunds`, `payments.status`, `deployments` | `refund_payment`, `deploy_staging`, `deploy_production`, each with an idempotency key |
| Operators, tokens and RBAC (`core/security.py`, `main.py`) | `operators`, `operator_tokens` | `ensure_bootstrap_admin`, `get_current_operator`, `require_permission`, `require_scope` |
| Rate limiter (`core/rate_limit.py`) | a deque of clock readings per bucket, in one process | `rate_limit` |
| HTTP API (`api/executions.py`, `api/integrations.py`) | none | endpoints that create and step executions or submit actions |
| Integration clients (`src/integrations/shared/client.py`, `strands`, `calle`) | the attempt a call is at | `submit_action_with_retry`, the adapters' tool calls |
| Seed (`core/seed.py`) | rows of rules, operators and tokens | `seed`: three transactions, which may be run again |
| Operator console, MCP server, schemas, metrics, logging, configuration | none, or nothing that decides | see section 8 |

How they interact. The console (or an integration, through the external action service) calls the
runtime. The runtime takes the lease, reads the step history, asks the planner, commits a PENDING
step, calls the gateway, and commits what became of the step together with the end of the
execution. The gateway commits one audit chunk per stage, calls the two engines in between, and
either runs the tool, refuses, or parks the call: one chunk creates the approval and puts the
execution to WAITING_APPROVAL. An operator's answer reaches the approval engine without the lease:
it claims the approval, runs the tool of a granted one, and puts the execution back to RUNNING. The
next `resume` reconciles the parked step with what happened meanwhile. Every change of an execution
is committed through `commit_chunk`.

Every request comes in through the API, which reads the bearer token and then its operator, checks a
role or a scope and, for submissions, asks the rate limiter. Start-ups of workers, runs of the seed
and administrators write to the two tables it reads. A tool that changes something commits by itself:
it looks for a row of its idempotency key, checks, inserts, and replays the row that won when the
unique constraint stops it. That key is the last thing that stands between an action and its
repetition when a call has outlived its lease.

What is hard about it:

* *Interleaving at every commit.* Nothing is locked between two statements. What one call read
  (status, highest sequence number, step history, permission) may be old when it acts on it.
* *Calls that outlive their lease*, and late releases of leases that others have taken over.
* *Crashes between commits*: a step PENDING and its tool not called, or called and not recorded; an
  approval claimed and never settled.
* *Retries*: `commit_chunk`'s five attempts, the runtime's second try of a failed read, external
  clients that repeat a request without knowing what became of the first.
* *Late answers*: an approval granted after its expiry, after a cancel, while it is being expired.
* *Two statements of one tool*: what `refund_payment` read of a payment may be old when it refunds it.
* *Workers that start at once* over one bootstrap operator, whose promotion is sent with the commit
  and not before, and a seed that is killed half-way.
* *A console that chooses by what it polled last* whether to step or to resume.
* *A limiter that reads the clock before it takes its lock*, and clients that come back when refused.
* *Two sources of a verdict* (policy and risk), and edits of permissions and policies while a call
  is on its way.

What makes each component correct:

* lease: exclusion for callers that keep to the TTL; nobody frees another's claim; a dead holder's
  lease is recovered;
* audit trail: no gap, chunks whole, none written twice; giving up only when outrun;
* approval engine: one answer, one run at most; status and open approvals agree; expired is expired;
  a claimed approval is settled;
* runtime: no planned action twice, one tool at a time, steps tell the truth, a refused workflow
  does not complete under a console that looks before it calls, an execution does not stay RUNNING
  for ever;
* gateway: nothing runs without both judgements; an answer matches what is on record; nothing leaves
  the company after customer data was read;
* policies: a permit has a policy that gives it; a policy that does not match changes nothing;
* external actions: a repeated request runs once, and what is reported is true and final;
* tools: what is done under a key is done once and told alike; no second refund without a race;
* accounts: a worker that serves has an administrator; nobody enters who was locked out, and an
  integration reads and submits, and never starts or steps an execution;
* limiter: in no period shorter than the window by the longest wait for the lock are more calls let
  through than the limit, and a full bucket reopens.

`PROJECT.json` lists the places in the code where these can go wrong (`hazards`), each with the
property that would show it.

## 2. The modules

| Module | Models |
| --- | --- |
| `Lease` | abstract: what the lease promises, without clocks |
| `SteppingLease` | the lease with claim ids, ages of timestamps and late UPDATEs |
| `AppendLog` | abstract: an append-only log of whole chunks |
| `AuditLog`, `MCAuditLog` | `commit_chunk` |
| `ApprovalGate` | abstract: one question at a time, one answer, one run |
| `ApprovalEngine` | `create_approval`, `approve`, `reject`, expiry, the approved run |
| `AgentRuntime` | runtime + planner + the gateway's part of it, over `ApprovalEngine` and `Lease` |
| `PolicyEngine`, `RiskEngine` | pure operators: policy evaluation and risk assessment |
| `ToolGateway`, `MCToolGateway` | `execute` commit by commit, over both engines and `ApprovalGate` |
| `ExternalActions`, `MCExternalActions` | `submit`, `get_status`, over `Lease` |
| `RateLimiter` | `rate_limit`: one bucket and its threads |
| `Submissions` | `POST /integrations/actions` from the client's retries through limiter and lease |
| `OncePerKey` | abstract: what an idempotency key promises |
| `ToolEffects` | the refund and the deployments, statement by statement |
| `Accounts` | operators and tokens: start-ups, seed, edits by hand |
| `Service`, `MCService` | requests from token to effect, over `Accounts` and `ToolEffects` |
| `*_proofs` | the theorems |

How they are composed. Each detailed module implements an abstract one, and the modules above use
the abstract one:

    SteppingLease  => Lease        <- AgentRuntime, ExternalActions
    AuditLog       => AppendLog    (chunks are atomic in all the others)
    ApprovalEngine => ApprovalGate <- ToolGateway
    AgentRuntime   => ApprovalEngine (the runtime is an environment the engine allows)
    Submissions    =  SteppingLease + RateLimiter    => Lease
    Service        =  Accounts + ToolEffects         => OncePerKey, for either table

Three compositions carry detailed modules along. `AgentRuntime` instantiates `ApprovalEngine` with
the parked steps as its requests, so that a step of an operator's call really interleaves with a step
of the runtime. `Submissions` extends `SteppingLease`, whose callers are the handlers of its clients,
and shows that with all that is around it the lease is still the lease. `Service` extends `Accounts`
and gives each of its requests a thread of `ToolEffects`.

### State and actions against the code

An action is a statement or a commit that other sessions can run before or after; what lies between
two of them touches nothing that is shared. `PROJECT.json` maps every definition to its lines.

* `SteppingLease`: a timestamp is its age in ticks, saturated where no comparison can change any
  more. A caller reads the application's clock (`ReadClock`) before its UPDATE reaches the database
  (`ClaimWon`, `ClaimLost`), as the code does; a claim id is represented by its caller. `Release` is
  the `finally`; `Crash` is the process that never gets there.
* `AuditLog`: `ReadMax`, then `Commit` or `Collide` by the unique constraint over every number of
  the chunk; `Refuse` is an IntegrityError of another constraint, raised at once. `rivals` is
  history.
* `ApprovalEngine`: a call of `approve` or `reject` goes from `ReadApproval` through the clock, the
  request's and the execution's status to its `Claim`; then the reject chunk, or the approve chunk,
  the start chunk, the tool, the outcome chunk. `_lazy_expire` has its own claim and loads rows
  (`LoadForExpiry`) before its chunk. `Abandon` cuts any call short.
* `AgentRuntime`: `call[c]` is a caller's program counter and locals. `Recheck`, `FindPending`,
  `Plan`, `ReadMaxSequence`, `InsertStep`, `CallGateway`, `RunDirectly` or `Park`, `Retry` or
  `Finalize`, `Leave`. The planner is the shape the three workflows share: read until a read has
  completed, act once, stop. A console polls (`Poll`: what `Offer` makes of the rows goes to `shown`)
  and calls by what it has polled, however long ago (`Chosen`); `hasty` is history: somebody has called
  without a poll since the call before.
* `ToolGateway`: the pipeline from `Begin` to `RecordOutcome`, with the reads (`Look`, `Evaluate`,
  `Assess`) apart from the commits that use them. A policy evaluation or a detector that raises is a
  branch of its action.
* `ExternalActions`: the row is the client's checkpoint; a handler finds or inserts it, looks for a
  step of its tool, marks it, calls the runtime under the lease and applies the result. The runtime
  is reduced to the part it uses.
* `RateLimiter`: `ReadMonotonic` is the call of `time.monotonic` before the lock, `Admit` and
  `Refuse` what is done under it. Readings are ages, as in the lease. `passed` is history: how many
  calls were let through at each tick of the last `Period`, whatever they had read.
* `Submissions`: `client[c]` is what a client does (`Submit`, `Wake`, `TimeOut`), and independent of
  it where the handler of its last request is: at the limiter (`Pass`, `TooMany`), before the lease
  (`Deny`, `Enter`), at it (`Win`, `Lose`), inside (`Finish`). A client that no longer waits does not
  stop its handler.
* `ToolEffects`: `Find`, `CheckPayment`, then `CommitRefund` or `CommitDeployment`, or `Collide` and
  `Reload`. PostgreSQL lets an insert of a key that another open transaction has inserted wait for
  it, so that insert and commit are one step. `rivals` is history: payments that two calls under
  different keys had found open at once.
* `Accounts`: a worker's `ensure_bootstrap_admin` from `LookForAdmin` to `CheckToken` or `IssueToken`;
  `writer` is the worker whose transaction has inserted the row, for which other inserts wait. A row
  that is there is only assigned to (`promoters`): autoflush is off (`database.py:9`), so nothing is
  sent or locked until the commit, and any number of promoters look for the token meanwhile. The seed's
  chapters begin with a look (`BeginChapter`) and end with a commit. `outdated` is history: start-ups
  that began before the last administrator was deactivated, and those that began beside one of them.
* `Service`: `Arrive`, `ReadToken`, then the endpoint with its check (`Admitted`): `Create` and
  `Begin` are `start_execution`'s two commits, `RunPlanned` runs what the planner decided under the
  key made of the execution's id, `SubmitAction` what an adapter asks for under a fresh key, `Read` and
  `Show` the GET endpoints under role or scope. A request
  carries as history whether it was locked out when it arrived (`barred`); `Pardon` is an administrator
  who deletes a token's row, which lifts what that token's revocation barred. The lease
  is left out on purpose: calls overlap here as those of zombies do.

## 3. What is checked

Twelve runs; every property of a passing run is also shown to fail when a definition of the model is
changed as a plausible bug would change the code (`mutants` in `PROJECT.json`).

| Run | Shows |
| --- | --- |
| `stepping_lease` | On `Submissions`. The lease: of two callers inside at once one has overrun the TTL (`FreshHoldersExclude`), an abandoned lease is recovered, implements `Lease`. The limiter: `LimitHolds`, although the deque is not in the order of its readings; `BucketReopens`, whatever refused clients do |
| `audit_log` | `Gapless`, `RaisesOnlyWhenOutrun`, implements `AppendLog` |
| `approval_engine` | `StatusTellsTheWait`, `TrailTellsTheStory`, `TooLateExpires`, `ClaimedIsSettled` (liveness), implements `ApprovalGate` |
| `agent_runtime` | `NoDoubleStep`, `StepsTellTheTruth`, `OneToolAtATime`, implements `ApprovalEngine`, with two callers that mix all four entry points |
| `runtime_console` | `RefusalIsHeeded`, and `Settles` (liveness): a console that polls, steps and resumes as `useAutoStep` does, one operator, two faults anywhere. `Settles` holds however stale its polls are, `RefusalIsHeeded` as long as it has polled since its last call |
| `tool_gateway` | `NothingRunsUnjudged`, `NothingLeavesAfterARead`, `AnswersAreOnRecord`, and for the policies `EveryPermitIsNamed`, `IdlePoliciesDoNotMatter` |
| `external_actions` | `RetriesRunOnce`, `OutcomesAreTrue`, `OutcomesAreFinal` |
| `service` | `EffectsKeepTheirKeys` (both tables implement `OncePerKey`), `AnswersAgree`, `DoubleRefundNeedsARace`; `ServingMeansAdmin`, with promoters side by side; `OnlyTheEntitledEnter`, for calls that change something and calls that read |
| `approval_cancel`, `runtime_crash`, `runtime_reconcile`, `external_duplicate` | the first four findings below: each violates one property |

### Findings

Each rests on a counterexample of TLC's, followed in the code, and is listed in `PROJECT.json` with the
line it contradicts.

1. `approval_cancel` / `TerminalIsFinal`: a cancel between an approval's claim and its last chunk is
   undone, since that chunk assigns RUNNING without looking.
2. `runtime_crash` / `CompletedMeansCalled`: after a crash between claiming a step and its tool call
   the planner counts the step as attempted, and the execution completes without it.
3. `runtime_reconcile` / `AlreadyTerminalIsTrue`: a reconcile between the claim of a rejection and
   its chunk records ALREADY_TERMINAL of an execution that is waiting and will run on.
4. `external_duplicate` / `DuplicatesRunOnce`: a duplicate that looks while the first call's step is
   PENDING and gets the lease after it submits a second step.
5. `service` / `OnlyTheEntitledEnter`: the comment at `core/seed.py:479` says that a run of the seed
   makes a revoked token valid again; the code leaves it revoked and issues only one whose row is gone.
   The run passes for the code; with what the comment says in its place (the mutant `PresentAndLive`)
   TLC lets in a request that was locked out.
6. `runtime_console` / `RefusalIsHeeded`: `useAutoStep` promises to resume while the latest step waits,
   and chooses by a timeline that may be older than that (2000 ms between polls, 1200 ms between ticks,
   `invalidateQueries` not awaited). A tick that still shows the execution RUNNING without a waiting
   step, after a call that parked one which was refused or has expired since, steps past it: the
   execution completes with the step at WAITING_APPROVAL. The run passes because the property supposes
   a poll since the last call; without `~hasty` TLC finds the trace, 35 states long.

The first four have a run that violates their property. The last two are told by passing runs, whose
property is what can be relied on.

## 4. Bounds

* `stepping_lease`: two clients, each with a handler that may outlive its client, so that there is a
  holder, a zombie and a successor; TTL 2 and lag 1, so that a claim can arrive with half its life
  used up; two requests in a window of two ticks and a wait of one tick for the lock, so that readings
  overtake each other and a third call is refused; two attempts, so that a call is retried and gives
  up. With that window and wait, `LimitHolds` is about any two consecutive ticks. Ages saturate where no comparison differs any more, so time itself is not bounded.
* `audit_log`: the code's five attempts; the fast writer has a budget of five chunks, exactly
  what it takes to make the slow one lose all its attempts; chunks of one and two events.
* `approval_engine`: two approvals, so that a second one can be opened while a call about the first
  is still under way; two calls, so that approve races reject, approve or expiry; `runs` saturates at
  2, which is already wrong.
* `agent_runtime`: two callers with all four entry points, one operator, no fault. `MAX_STEPS` 2 (25
  by default) so that the limit is reached; `Rows` 4 leaves room for the row of the limit itself and
  for a retry. Only `effect` is parked, reads are not.
* `runtime_console`: one console, one operator, `MAX_STEPS` 3, two crashes or exceptions at any points;
  `Rows` 6 leaves room for the step that a fault or a stale poll adds. One operator is enough: races
  between two are `approval_engine`'s, and what matters here is when the answer falls between the
  console's polls and calls. With two consoles on one execution, or a plain caller of `step`,
  `RefusalIsHeeded` says nothing: the code leaves the choice between `step` and `resume` to the client.
* `tool_gateway`: two calls (a read and what follows it, or two that race for the execution's status
  through cancel and approval), the seed's permissions and refund policies with one policy of each
  narrower and broader scope, one edit and one death. Eight inputs: one of every branch of the
  policies and detectors they meet. The objective is empty: with a category set, an export always
  scores 85 and is blocked, and `NothingLeavesAfterARead` would hold vacuously. The calls are kept
  apart by the lease (`Leased`), which that property needs: two overlapping calls of one execution do
  not see each other's request.
* `external_actions`: two requests with a tool each and two handlers, two steps (so the step limit is
  met), one death. `Patient`: a client waits for its call before it repeats it. Impatient clients are
  the finding, and a stale write of theirs can also overwrite a final row.

* `service`: two requests, which is what every race here takes; one administrator, who creates and
  steps, and one integration, which tries to step (and must not get in), submits and reads;
  two workers; one event that stops a worker, kills the seed or a request, or edits the tables; keys
  for the planned action and one of outside; two rows of deployments. Requests and workers are
  interchangeable, hence the symmetry. One event is little: what two or three can do together (a token
  revoked and then dropped, an operator deactivated while a worker promotes it, section 7) is beyond
  the run, and covered by the theorems `AdminIsThere` and `EntitledEnter`, which bound neither events
  nor workers. Their invariant for the accounts was first checked on `Accounts` alone, with three
  workers, a human administrator, a machine and three events.

The counters in guards (`Budget`, `Rows`, `MaxFaults`, `MaxCalls`, `MaxEdits`, `MaxEvents`,
`MaxDeployments`, `MaxSteps` as the length of the history) only cut behaviours off; `CHECK_DEADLOCK FALSE` is set where the system
really may come to rest: all writers done, the execution ended.

## 5. Fairness

* `Submissions`: time passes; a live handler gets through the limiter and its UPDATE reaches the
  database. No fairness for a critical section, which may take any time, nor for anything a client
  does, nor for executions to end or processes to die. `AbandonedLeaseRecovered` further supposes that claims keep arriving, as the
  property says.
* `ApprovalEngine`: a call that has begun proceeds (its thread runs, its chunk commits or raises).
  Nobody has to answer, cancel or crash. A claimed approval whose call was cut short is excepted by
  name (`abandoned`): the code has nothing that would settle it.
* `AgentRuntime`: calls proceed, `LEASE_TTL` passes, and the console polls (`WF(Poll)`,
  `refetchInterval`) and calls while it has seen the execution run (`setInterval`), in any order. Nobody has to answer an approval, hence `Settles` says that
  the execution ends *or waits*.
* `AuditLog`, `ToolGateway`, `ExternalActions` and `Service` are checked for safety only.

## 6. What is proved

Eight proof modules, for every value of the constants that satisfies the module's assumption. The
assumptions say what the constants are (a TTL is a natural number, `Nobody` is no caller, there is at
least one attempt, chunks are not empty, the seed gives an operator one of the four roles) and nothing
about how they are used. Seven theorems have a hypothesis of their own, which is stated with them and
holds in the run that checks the same property:

| Theorem | Supposes | Why |
| --- | --- | --- |
| `OneRun`, `OneAtATime` (runtime) | no `Zombies` | a call that outlives its lease really runs beside its successor (section 7) |
| `RefusedIsNeverDone` (runtime) | `OneConsole`: one console. The property itself supposes that nobody has called without a poll since the call before (`hasty`, which any other caller sets) and that no fault cut a call short | the code leaves the choice of `step` or `resume` to the client; `useAutoStep` is that client, and what it does on a stale poll is finding 6 |
| `NothingLeaves` (gateway) | `Leased`: one call of an execution at a time | two overlapping calls do not see each other's request; the lease is `SteppingLease` |
| `RequestsRunOnce`, `OutcomesTrue`, `OutcomesFinal` (external actions) | `Patient` clients, `OwnTools` | an impatient client is the finding `external_duplicate`; steps are found by tool, so requests that share one may be told of each other's step |

* `SteppingLease_proofs`: `TypeCorrect`, `Exclusion`, `OwnerFrees`, `Refinement`. Exclusion is not
  inductive, since nothing in it ties a holder to the row; the invariant (`HolderOwnsOrOverran`) says
  that a holder still owns the row, with the timestamp it read itself, or has overrun the TTL. The
  refinement maps `overdue` to a row whose age is past the TTL.
* `AuditLog_proofs`: `TypeCorrect`, `NoGap`, `OutrunByAttempts`, `AppendsOnly`. The invariant says of
  a writer that is about to insert that its base is at most one past the last number (it read the last
  number earlier, and the log only grows), so a commit that does not collide starts exactly there; and
  that a base already taken counts as one more race lost than the attempts so far, which bounds the
  attempts by the commits of others. `AppendsOnly` is the refinement: the table read as a sequence
  (`Rows`) is the abstract log, a commit is one append of a chunk that no row holds yet
  (`Unwritten`), and nothing else touches it. The proofs need at least one attempt and no empty chunk.
* `ApprovalEngine_proofs`: `TypeCorrect`, `StatusIsTrue`, `OnlyExpires`, `TrailIsTrue`,
  `EngineIsAGate`. In the invariant (`EngineInv`) a call that has claimed owns its approval: what the
  rows say of it follows from where the call is, no two calls own one approval, and what an expiry
  loaded is still true unless the execution was cancelled. At most one approval is unsettled, and the
  execution waits or was cancelled while there is one. `TrailIsTrue` adds what a call has put on record
  at each place (`OnRecord`): a chunk that settles a request adds the one event that says how, which it
  can only because its call owns the request. `EngineIsAGate` maps each step to a step of the gate or a
  stutter.
* `AgentRuntime_proofs`: `TypeCorrect`, `RuntimeIsAnEnvironment`, `StepsAreTrue`, `OneRun`,
  `OneAtATime`, `RefusedIsNeverDone`. `OneRun` is `NoDoubleStep` for `Zombies = FALSE`: only the owner
  of the lease is inside (`Exclusive`), so a decision to act stays right until its row is inserted
  (`DecisionHolds`), so there is one planned `effect` at most (`PlannedOnce`).
  `RuntimeIsAnEnvironment` shows that each step of the composition is a step of the engine or leaves
  its rows alone; with it the engine's own invariant is instantiated for the parked steps
  (`EngineHolds`), and the others build on both. `StepsAreTrue` holds with zombies: a row that is being
  carried out belongs to one call (`Owned`), what that call believes of it is what happened
  (`Believes`), and closing records the belief. `OneAtATime` needs that while the gateway runs a tool
  no approval of the execution is open (`RunsAlone`), which follows from the engine's side: the
  execution waits while one is. For `RefusedIsNeverDone` only the latest step is ever in doubt, and the
  console resolves it before it takes another (`Attends`): a look taken since its last call still tells
  whether that step waits (`Looks`), since nobody else writes steps (`Undisturbed`) and an answer, which
  may come at any time, leaves the step waiting until a call resolves it.
* `ToolGateway_proofs`: `TypeCorrect`, `NothingUnjudged`, `AnswersRecorded`, `NothingLeaves`,
  `PermitNamed`, `IdleIsIdle` and, of the operators alone, `MoreSignalsNeverMilder`.
  `NothingUnjudged` follows the two judgements from the locals of the call (`Stage`) to the rows that
  record them; up to the last stage nothing ran and nobody was asked, from there on the rows no longer
  change. It needs of the engines only that they return one of three actions and that combining gives
  ALLOW for two ALLOWs alone. The type proof needs that a refund's amount was validated before the risk
  engine compares it (`Validated`), which is the registry's schema check. `AnswersRecorded` adds what
  the request's row is while its call is on its way, and that only a call that answered "requires
  approval" has a question (`Underway`). `NothingLeaves` adds that calls, and a call and an open
  question, keep apart (`Apart`), that no export is ever allowed outright (`Guarded`), and that an
  e-mail that may still be sent was weighed before any read (`Clean`). Of the policies: what is decided
  depends on two sets per rank, the policies in error and those that match, and the first rank where
  one of them is not empty decides (`FirstRank`, `Resolves`). `PermitNamed` needs that of any policies
  one has the highest priority (`PriorityAssumption`: a table has finitely many rows); `IdleIsIdle`
  needs that an edit switches one policy.
* `ExternalActions_proofs`: `TypeCorrect`, for any clients, and `RequestsRunOnce`, `OutcomesTrue`,
  `OutcomesFinal` from one invariant (`RequestsInv`). A patient client has one live call
  (`OneCallEach`), so nobody else writes its row and a handler's copy of the status is the row's
  (`RowIsHeld`). A submission on its way has no decided step to find (`Fresh`), so a request has one
  decided step at most (`DecidedOnce`), and unless a handler died at a step that had run, a run is the
  run of a step (`Ledger`). The rest says what a handler knows of the step it holds. The proof uses
  that the search for a step returns the latest of them, for which a set of step numbers has a
  greatest one; that comes from the library's well-founded order of the naturals.
* `Submissions_proofs`: `LeaseUnderLoad`, which shows that each step of client, limiter, handler and
  surroundings is a step of the lease or leaves it alone, and from it the lease's own theorems for the
  composition: `SubmissionsExclude`, `SubmissionsFreeTheirOwn`, `SubmissionsImplementLease`.
  `HandlersTyped` needs to know where a handler can be (`OnePlace`): at one of limiter, endpoint and
  lease, and nowhere when its client sleeps, for a client that sleeps has had its answer. That
  trimming returns a deque uses that a non-empty set of numbers has a least one. `NeverAboveTheLimit`
  is `LimitHolds`: each call let through within the last `Period` has a place of its own in the deque,
  with a reading that is older than its admission by the wait at most (`InDeque`); so nobody who reads
  the clock within the wait from now can trim it. Trimming drops only what has expired, a refusal leaves the
  deque to the others, and a call let through gets a place at the right end; as the deque is no longer
  than the limit, so many calls at most were let through, in whichever order their readings came.
* `Service_proofs`, the tools: `OneAnswerPerKey`, `DoubleRefundIsARace`, `EffectsAreOncePerKey` and
  `PlannedIsDoneOnce`, for any number of requests, keys and payments. The invariant (`RowsInv`) says
  that a key has one row and an answer tells of it; that two calls about to refund one payment under
  different keys are rivals (`RivalsMeet`: the later of the two checks saw the other); and that a call
  about to refund a payment that is refunded by now is a rival or will fail on its own key
  (`LateIsARival`). It needs of the constants that `NoKey` is no key and the planned key is one.
  Nothing in this part depends on who is let in, so accounts only enter as steps that leave the tables
  alone.
* `Service_proofs`, the accounts: `TypeCorrect`, `AdminIsThere`, `EntitledEnter`. The invariant
  (`AccountsInv`) says for a worker that is not outdated what each place of its start-up has found
  (`LeavesAdmin`): where it is about to insert the bootstrap row, the row is missing or there is an
  administrator; from its look at the token on, it has a row to insert or a promotion to send with its
  commit (`HasToCommit`) or there is one; and where it is about to issue a token that is there by now,
  there is one, for whoever issued it has committed its own promotion with it. Outdated
  start-ups and those beside them stay marked (`Overlap`), since one of them may issue the token that
  makes another roll back. `EntitledEnter` needs that a barred request stays barred for a reason that
  is still in the tables (`BarredStays`): past the look at its token only a deactivated operator is
  left, and nobody activates one (a start-up may activate the bootstrap operator, who does not count
  as locked out); for machines, that their role stays VIEWER (`MachinesOnlyView`), which admits them to
  reads and keeps them from starting and stepping, and
  the seed only issues tokens where there was none (`SeedsItsOwn`).

Two properties were corrected on the way, because the attempt to prove them showed that they held in
the run only for its one event: `ServingMeansAdmin` did not except a start-up that overlaps an
outdated one (`security.py:226` rolls the promotion back), and `OnlyTheEntitledEnter` did not except a
revoked token whose row is deleted and issued anew.

Only model-checked: liveness (`AbandonedLeaseRecovered`, `BucketReopens`, `ClaimedIsSettled`,
`Settles`), which is out of the prover's reach. Every other property of a passing
run is stated by a theorem. The four properties of the findings are false, and have none.

## 7. What the models show about limits that are no findings

* A tool may run after a cancel: the gateway looks at the execution once, at its start, and says so.
* A granted call is run by the approval engine without another look at permission, policy or risk.
* When the execution was taken in between, `_create_approval_and_commit` rolls back and the request
  stays REQUESTED although its call failed; `AnswersAreOnRecord` says so.
* A claimed approval whose call died is never settled, and its execution waits until it is cancelled.
* Two external requests for one tool on one execution may report each other's outcome: steps are
  found by tool. `OutcomesAreTrue` is checked for tools of their own.
* An external request whose execution has ended before its step was claimed is answered 503 to each
  attempt, its row stays PROCESSING, and only the client's number of attempts ends the call.
* The limiter's deque holds readings in the order of the lock. A call that read the clock and was
  overtaken at the lock is let through by a deque that has been trimmed since, so a full window may see
  the limit and as many calls more as were overtaken. `LimitHolds` is what is left: any period shorter
  than the window by the longest wait.
* A console whose tick comes before its next poll may step past a refused step (finding 6).
* An integration's operator is a VIEWER, and `require_permission("read")` looks at the role alone, so
  integrations are let in to every read endpoint of the console, although `security.py:44` says that they
  are authorised by scopes and never by role.
* A call that outlives its lease between planning and claiming its step repeats the action its
  successor has run: with `Zombies = TRUE`, `NoDoubleStep` fails. The docstring of `agent_runtime.py`
  leaves that to the tool's idempotency, and `PlannedIsDoneOnce` is that fallback: under the
  execution's key the effect is there once.
* Two refunds of one payment under different keys are both carried out when both have read the
  payment before either commits (`tools/payments.py:48`); `DoubleRefundNeedsARace` says that nothing
  less does it. A second call under the *same* key that comes between may be told ALREADY_REFUNDED
  instead of the replay (`payments.py:59`), so answers agree on the row and not on the wording.
* A deployment's key is looked up without its environment (`devops.py:140`): a key used for staging
  replays staging's row when production is asked for.
* `submit_action_with_retry` sleeps at most 15.5 s in all and never reads the Retry-After it mentions
  (`client.py:137`), so one call does not outlast a full 60 s window.
* The seed leaves a revoked token revoked, which `OnlyTheEntitledEnter` needs (finding 5). A token whose
  row was deleted it does issue anew, and a request that was barred by it gets in (`Pardon`).
* Two workers that promote the bootstrap operator at once may both find no token. The one whose commit
  fails rolls its promotion back, and the other's stands.
* A worker that promotes the operator, finds no token and then loses the race to insert one rolls its
  promotion back and starts (`security.py:226`). When the one that won the race is a start-up of
  before the last administrator's deactivation, that leaves no administrator, and `ServingMeansAdmin`
  excepts start-ups that overlap such a one (`outdated`).
* A crash between `start_execution`'s two commits leaves an execution CREATED for good
  (`agent_runtime.py:165`): no call takes it on.
* A handler that dies between its tool's run and the end of its step leaves the step PENDING, and a
  retry runs the tool again (`Orphaned`).

## 8. What is not modelled

* The parsing of objectives: a plan is one of a set, and does not change.
* The content of rows, prompts and messages: a phrase stands for a list of phrases, a tool's data for
  nothing. RISK_ASSESSMENT_STARTED and RISK_SIGNAL_DETECTED decide nothing and are left out.
* Clock skew between hosts: the lease is modelled with one clock, read early. The limiter keeps a
  deque per process; several processes are several limits, and one is modelled. Its `except Exception`
  (`rate_limit.py:49`), which lets a call pass when the limiter itself fails, is left out: nothing that is
  modelled raises there.
* The execution that `submit` starts for a request without one (and that stays RUNNING when the
  insert loses its race), and the runtime's second try of a read inside an external request.
* The tools that only read or pretend to send, and the version a deployment carries.
* Runs of the seed at the same time: a unique constraint ends the second. Its demo data is one fact.
  Expiry of tokens counts as revocation.
* The MCP server, which keeps no state and turns each protocol message into one call of the client;
  `poll_until_complete`, a loop of reads; what the reading endpoints return (who gets there is modelled,
  `Read`), and schemas: nothing in them interleaves with anything but its own reader.
* Metrics, logging and configuration, which decide nothing here; the console beyond its polls
  and its choice of `step` or `resume`.

## 9. Plan

Done, in this order: lease, audit trail, approval engine, runtime, engines and gateway, external
actions; rate limiter and clients; tools, accounts and the service over them; the proofs of section 6.

What would add most from here:

1. Compose: `ExternalActions` over `AgentRuntime` itself rather than its extract, as a refinement of
   the runtime's history of steps; `Service` over the runtime, so that zombies are those of the lease.
2. Prove: every safety property of the passing runs is proved. What is left are statements that no
   run checks yet: what remains of `RequestsRunOnce` for requests that share a tool, what the engines'
   operators preserve beyond `MoreSignalsNeverMilder`, and the refinements of item 1.

## 10. Running it

    tlc -workers 2 -config <run>.cfg <Module>     # e.g. ApprovalEngine.cfg ApprovalEngine
    tlapm <Module>_proofs.tla

The runs take from a second to four minutes, the proofs a few minutes each.
