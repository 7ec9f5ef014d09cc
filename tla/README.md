# Formal models of AgentDesk

TLA+ models of the AgentDesk server (a NestJS back end: an LLM agent that works
on support tickets, with human approval of dangerous tool calls, cookie
sessions and tenant isolation), the TLC runs that check them on small
instances, and TLAPS proofs of their main safety properties for every instance.

Paths are relative to the repository root. `PROJECT.json` maps every definition
to its lines, lists the runs with the properties each checks, a mutant for
every property, the hazards the properties are aimed at, the places where
documents and code disagree, and the theorems.

    tlc -config AgentOverlap.cfg MCAgent      # model-check one run
    tlapm AgentProofs.tla                     # check the proofs of a module

## 1. Inventory

| Component | Code | State | Operations |
|---|---|---|---|
| Agent loop | `src/agent/agent.service.ts` | nothing between requests; per request: copy of the history, accumulators, current batch | `chat`, `approve`, `runLoop`, `executeReadOnly`, `checkBudget`, `callLlmWithRetry` |
| Conversation store | `src/agent/conversation.service.ts`, `prisma/schema.prisma` | `Conversation` rows: status and the whole history as one JSON value | `create`, `find`, `updateMessages`, `setStatus` (no caller) |
| Tool registry, ticket tools | `src/agent/tools/` | the table of five tools and their two flags | `getDefinitions`, `getTool`, `execute` |
| Chat endpoints | `src/agent/chat.controller.ts`, `dto/` | none | `POST /chat`, `POST /chat/approve` |
| Sessions | `src/auth/auth.controller.ts`, `auth.service.ts`, `refresh-tokens.service.ts` | `RefreshToken` rows, the cookies of the browsers | `login`, `refresh`, `logout`, `me` |
| Request authentication | `src/auth/auth-context.middleware.ts`, `src/tenancy/tenant-context.ts` | context bound to the request (AsyncLocalStorage) | `use` |
| Tenant scoping | `src/tenancy/tenant-scoped.prisma.ts` | none | `applyTenantScope`, `createScopedPrisma` |
| Tickets | `src/tickets/` | `Ticket` rows | `create`, `findAll`, `findOne`, `update`, `remove` |
| Signup, users | `src/signup/`, `src/users/` | `Tenant` and `User` rows | `signup`, `findByEmail` |
| LLM providers | `src/llm/anthropic-llm.provider.ts`, `openai-compatible.provider.ts` | none | `complete`: history to vendor format and back |
| Cassette provider | `src/llm/fake-llm.provider.ts` | recorded requests, cassettes | `complete`, `matchesCassette` |
| Limits and provider choice | `src/common/constants.ts`, `src/llm/llm.module.ts` | the environment, read once at start | `createLlmProvider`, `ENV` |
| Bootstrap, health, scripts | `src/main.ts`, `src/health/`, `src/scripts/` | none | wiring |

**How they interact.** One Node process serves all requests. A handler runs
without interruption from one `await` to the next; at each `await` (a Prisma
query, a bcrypt comparison, an LLM call, a tool) any other handler may run.
Handlers share nothing but the database: they have no locks, the rows have no
version column, and only signup uses a transaction. The middleware binds the
tenant to the request, and the scoped Prisma client adds it to every query. The
agent calls the LLM provider and the tool registry; the tools call the ticket
service; the conversation service stores the history as one value that
`updateMessages` replaces as a whole.

**What is hard.**

- *The agent works on a copy.* `chat` and `approve` read the history, and write
  it back many awaits later, at one of the terminal points of `runLoop` (a
  pause, a final answer, an exhausted budget). Another request for the same
  conversation may have read the same row or written it in between.
- *Effects come before their record.* Tools run when the model asks for them;
  that they ran is stored at the terminal point. A model call that fails after
  all retries, a write that fails, or a stop of the process loses the record and
  keeps the effect.
- *Three kinds of calls in one batch.* Read-only calls run in parallel, mutating
  ones one after the other, and calls that need approval pause the run, which is
  only right when everything else in the batch is answered first.
- *Three budgets*: iterations, tokens and time are compared at the head of the
  loop with limits that are whatever `Number()` makes of the environment, 0 and
  NaN included, and a resumed run starts with one iteration used.
- *The vendors are strict about shape*: a history with an unanswered tool call,
  or with a result in the wrong place, is refused, on every retry and on every
  later request, while the fake of the tests takes anything.
- *The fake records the live array*: its `requests` refer to the messages that
  the loop goes on pushing to.
- *Pending is computed, not stored*: `approve` takes the calls of the whole
  history that no tool message answers, across all earlier pauses.
- *A refresh token is single use, without a transaction*: `consume` reads all
  rows, compares hashes one by one, and deletes the match; only the failing
  `delete` tells two concurrent uses apart.
- *Logout finds its user by consuming the token*, and swallows every error.
- *A ticket is looked up, then written*, in two queries: it may be gone by the
  second.
- *Signups race on two unique columns* inside transactions that wait for each
  other.

**What makes each component correct.**

- Agent: nothing that needs approval runs unless a human approved that call;
  what is stored can always be read back, and decided when it waits for a
  decision; every request ends; what was approved is recorded. These are
  `RunsAreGranted`, `StoredHistoriesWellFormed`, `PauseIsDecidable`,
  `EveryRequestEnds`, `GrantsAreRecorded`; under stated conditions on the
  clients also `ModelSeesPairedCalls`, `NoOrphanedCalls`, `HistoryOnlyGrows`,
  `DecisionsAreFinal` and the refinement `ImplementsApproval`.
- Sessions: a token is spent once, rotation adds no session, logout kills what
  it presents and, when that was good, everything its user had:
  `TokenSpentOnce`, `RotationAddsNoSession`, `LogoutKillsItsToken`,
  `GoodLogoutRevokesAll`.
- Tenancy: a query reads and writes rows of its own tenant only, whoever else is
  served; what was removed stays removed; a tenant and its admin appear together
  or not at all, and a signup that succeeded keeps what it registered; the
  tenant a request acts for is that of a verified user; every signup ends:
  `TenantsAreIsolated`, `AnswersStayInTenant`, `RemoveIsFinal`,
  `SignupAllOrNothing`, `SignupOwns`, `ContextIsVerified`, `EverySignupEnds`.
- Agent with its surroundings: tokens and model calls stay within the limits on
  a resume as on a first turn; nobody is told "I stopped early" before the model
  was asked; a vendor takes what the loop sends exactly when every call in it is
  answered, so that with a real vendor a pause outlives a chat; what is shown for
  approval is what `approve` resolves; what the fake recorded can be read after
  the fact: `TokensOvershootByOneAnswer`, `SendsAreBounded`,
  `RepliesHeardTheModel`, `AcceptedIffPaired`, `StrictVendorsKeepPauses`,
  `StrictVendorsKeepProtocol`, `ShownIsPending`, `RecordedRequests`, and the
  refinement `ImplementsAgent`.

## 2. Modules

| Module | Models |
|---|---|
| `Conversation` | messages and histories, the tool table, the partition of a batch, pending calls, order of calls (state-free) |
| `Agent` | `AgentService` with `ConversationService`: the two endpoints, the approval loop, `runLoop`, the terminal points, faults |
| `Approval` | the abstract protocol a conversation row promises; `Agent` implements it |
| `Providers` | the history in each vendor's shape, the stop reasons read back, and (external) which histories a vendor takes (state-free) |
| `Harness` | `Agent` composed with the provider, the budgets of the environment, the fake's recordings and the reply to the client |
| `Sessions` | login, refresh and logout over the token table and the cookies |
| `Tenancy` | the request's tenant, `applyTenantScope`, the ticket operations and signup over one database |
| `MCAgent`, `MCHarness`, `MCSessions`, `MCTenancy` | the instances for TLC: tools of the calls, client histories, symmetry |
| `ConversationProofs` | lemmas on histories: what appending a message or a run of results does to requested, answered and pending calls; that calls have one order |
| `AgentProofs`, `SessionsProofs`, `TenancyProofs` | the inductive invariants and the theorems |
| `PairingProofs` | what holds of `Agent` when nobody chats on a paused conversation, why every handler ends, and the order in which a batch is answered |
| `SerialProofs` | what holds of `Agent` when a client waits for its answers, and that `Agent` implements `Approval` |
| `HarnessProofs` | `Harness` implements `Agent`; the budgets; the recordings; what is open under a strict vendor |
| `VendorProofs` | where results stand, what the vendors take, and the approval protocol under a strict vendor |

### Agent and the code

`store` is the `Conversation` table. A row holds `status` and `messages`; the
status `NONE` means there is no row. `run[r]` is the stack frame of the handler
of request `r`: its copy of the history, `acc.iterations`, the current
attempt and batch, what the running loop has still to visit. Its `pc` names the
`await` the handler is at:

| `pc` | the handler is |
|---|---|
| `resolving` | in `approve`'s loop over the pending calls |
| `loop` | at the head of `runLoop`'s `while` |
| `llm` | waiting for `llm.complete` (or in a back-off) |
| `reading` | waiting for `executeReadOnly` |
| `writing` | in the loop over the mutating calls |
| `pausing`, `finishing` | waiting for `persist` |
| `done`, `failed` | answered, with a response or with an error |

Actions are the stretches between two awaits. `ChatNew`, `ChatExisting`,
`NotFound`, `ApproveRefused`, `ApproveAccepted` are the endpoints up to their
first await after loading; `NotFound` also stands for an arrival whose query
fails. Loading the row and validating the decisions is one step, since nothing
is awaited between `find`'s answer and the end of the validation. `ResolveNext` and
`Resume` are the loop of `approve`; `StopEarly`, `CallModel`, `ModelFails`,
`ModelFinishes`, `ModelRequestsTools` the loop around the model;
`ReadOnlySettles`, `RecordReadOnly`, `ExecuteMutating`, `EndBatch` the tools of
one batch; `Persist` and `PersistFails` the write at a terminal point; `Crash`
stops the process. A tool executes and its handler gets the result in one step:
the handler looks at nothing in between, and a stop of the process between the
two is the same as a stop right after, because the copy is lost either way.

Abstracted: texts, arguments, tool outputs, usage figures, events and logging.
Whether the token or the wall-clock budget is used up is a choice (`StopEarly`):
a run may find either exceeded at the head of the loop once it has called the
model, and before that only where a limit may be zero (`TightLimits`), since
nothing is used up when `runLoop` starts. `Harness` decides it. `issued`, `ran`
and `granted` are history variables: the ids the model used, how often each
call was executed, and which requests approved it. No action's guard reads them
except the choice of fresh ids.

Assumptions on the environment, each a constant or a definition with that name:

- `ClientHistories`: the `conversationHistory` a client sends for a new
  conversation consists of plain text turns. The DTO does not check this; every
  client in the documentation sends such histories.
- `Batches`: a model never repeats a tool-call id (both vendors generate
  unique ids).
- `Overlap = FALSE`: a client waits for an answer before it sends the next
  request for the same conversation. `ChatOnPaused = FALSE`: it does not chat on
  a conversation that waits for a decision. The server enforces neither. The
  invariants of the first run and the theorems of `AgentProofs` and
  `HarnessProofs` need neither; the other properties and theorems say which
  one they need.
- `TightLimits`: the token or the time limit may be zero or negative, with which
  a run ends before its first call of the model. It is `TRUE` in the passing runs,
  which have more behaviours with it, and `FALSE` in the runs of section 6, whose
  traces should not rest on such a setting.
- `Admitted`: a client knows the id of a conversation from an answer, so a request
  names only rows that some request has stored since they were created.
- `MaxIterations` and `MaxRetries` are natural numbers. They are `Number()` of a
  string too, but the loops only compare them with `<` and `<=`, for which NaN and
  negative numbers are like 0 and a fraction like an integer next to it. With no
  attempts, `callLlmWithRetry` throws without a call (`ModelFails`, `Ask`).
- A conversation belongs to one tenant, so that "another tenant's id" is
  `NotFound`.

### Harness, Providers and the code

`Harness` extends `Agent` by superposition: each of its actions is one of
`Agent`'s, conjoined with what it does to four more variables, so that
`ImplementsAgent` holds and `Agent`'s theorems carry over. `config` is the
environment of the process: the provider of `createLlmProvider` and two limits.
`book[r]` is what `acc.usage` and `startTime` say of a run, with how often it
called `complete` and what its reply asks to approve. `requests` is the field of
`FakeLlmProvider`, and `array[r]` the messages array of request `r`, kept while
the handler runs or a recorded request refers to it (`Alias`).

| `Harness` | the code | `Agent`'s action |
|---|---|---|
| `StartLoop` | `approve` enters `runLoop`, which takes `startTime` | `Resume` |
| `GiveUp` | `checkBudget` says stop, or no iteration is left | `StopEarly` |
| `Ask` | the first attempt of `callLlmWithRetry` | `CallModel` |
| `Retry`, `Exhaust` | an attempt fails, and is the last or not | `ModelFails` |
| `AnswerFinal`, `AnswerTools` | the stop reason read back, usage added | `ModelFinishes`, `ModelRequestsTools` |
| `CloseBatch` | the calls that need approval become `awaitingApproval` | `EndBatch` |
| `Reply`, `HCrash` | the write at a terminal point, the stop | `Persist`, `PersistFails`, `Crash` |
| `Inward`, `HArrive` | tools and arrivals: nothing added | the others |
| `TimePasses` | the clock, at an await | none: a stutter of `Agent` |

A limit is `Number()` of a string: the set `{n}`, or the empty set for NaN, with
which every comparison is false. Time is counted per run in units, and reset
when `runLoop` starts. `MaxAnswerTokens` bounds the input and output tokens that
one answer reports; the overshoot of the budget is stated relative to it.

`Providers` translates turns as the two classes do (`ToAnthropicMessage`,
`ToOpenAiMessage`) and reads stop reasons back, unknown ones included. `Accepts`
is external: the vendors refuse a turn with tool calls not directly followed by
their results, and a result after anything else. It is stated on the wire
format, so a mistake in the translation shows as a refused history. The fake
takes everything; which cassette matches is a choice, and no match in strict mode
is a failed attempt.

### Sessions and the code

`rows` is the `RefreshToken` table, `owner` the user a token was issued to,
`expired` the tokens past their `expiresAt`, `jar` the refresh cookie of each
browser. Two tabs of a browser are two requests with one jar, which is how the
interesting races start. `Scan` is `findMany`, `Check` the comparison of the
hashes and of the expiry, `Delete` the delete with what its outcome decides,
then `IssueTokens` or `RevokeAllForUser`, and `Answer` sets the cookie. A handler
that throws ends as `failed`, except in `logout`, whose `catch` continues.
`QueryFails`, `AnswerLost` and `Crash` are the faults; `Expire` and
`CookieExpires` the clock. A hash matches only the token it was made from.
A failed query is taken to have changed nothing. The access token is a JWT that
these handlers only write and the middleware reads; it is not modelled.
`spent`, `rooted` and the fields `earlier` and `caught` are history.

### Tenancy and the code

`tenants`, `users` and `tickets` are the committed rows of three tables, reduced
to the columns the properties need: the slug of a tenant, the tenant of a user
(by email), and id, tenant and status of a ticket. `Init` is any database that
satisfies the constraints of the schema and in which every tenant has its admin,
as signup leaves it. `req[r]` is a handler with its context (`user`,
`tenantId`), its arguments and, at the end, the tickets its answer shows.

`Context` is the middleware: the header if `ALLOW_TENANT_HEADER` is set, else
the bearer token, else the cookie. `Scope` is `applyTenantScope`, with arguments
as records: it takes the operation and the caller's arguments and returns them
with the tenant forced in. `Query` runs an operation of the client through it,
and every ticket action selects its rows by `Query`, so that a mistake in
`Scope` shows in the tables. `createMany` and `upsert` have no caller in the
program; their arms are there for the lemma `ScopedWhere`, which is about every
operation. `update` and `remove` are two queries, `FindOne` and then
`UpdateTicket` or `RemoveTicket`, which fail when the row is gone.

A signup draws its id (`Signup`), and its transaction is three steps,
`InsertTenant`, `InsertUser`, `Commit`. What it has inserted is in the local
state until the commit shows both rows. `SlugHeld` and `EmailHeld` are what
PostgreSQL does with a unique value that another open transaction has inserted:
the insert waits until that transaction ends. A transaction that fails, at a
taken value, a failing query or a crash, leaves no trace, which is what the
database does on rollback.

Abstracted: titles, names, plans, password hashes, the order of `findAll`; two
of the four statuses stand for all. A token belongs to a user of the table: no
operation deletes users or changes their tenant, so a token stays as true as
it was when it was issued. `Rejected` is every request that is answered with a
400 or a 401 before its first query. Public paths never reach a scoped query.
`birth` is history: the tenant that acted when a ticket was created; its only
use in a guard is that ids are fresh.

## 3. What the runs check

| Run | Instance | Shows |
|---|---|---|
| `agent_overlap` | 3 requests, 1 conversation, 5 calls (two read-only, one mutating, two that need approval), batches of up to 3, everything may overlap and fail | no tool runs without its grant; what is stored is well formed, in the order of its batches, and decidable; the invariant of the proofs |
| `agent_paired` | the same with 3 calls, and no chat on a paused conversation | the model never sees an unanswered call; only a pause stores one |
| `agent_serial` | 3 requests, 2 conversations, one request per conversation at a time, all faults | rows implement `Approval`; histories only grow; decisions are final; the two invariants of `SerialProofs` |
| `agent_live` | 3 requests, fair handlers, failing model calls with retries and failing writes | every request ends, and each step brings it closer to its end; approved calls are recorded unless the request fails |
| `harness` | 3 requests one at a time on 1 conversation, chats on a pause allowed, 3 calls (one read-only, two that need approval), 3 providers, limits `{2}`, `{1}`, `{0}` and NaN, two attempts per call, all faults | the eight properties of `Harness`, its types and the invariant of the proofs |
| `sessions` | 4 requests, 2 browsers, 1 user, 3 tokens, all faults, expiry | the four session properties and the invariant of the proofs |
| `tenancy` | 2 requests, 2 tenants, 2 emails, 2 slugs, 1 ticket, header on or off, failing queries, crash, fair queries | the eight tenancy properties and the invariant of the proofs |
| `agent_once`, `agent_orphan`, `agent_pause`, `sessions_cookie`, `sessions_logout` | small | the five disagreements of section 6 |

**Bounds.** Three requests are a chat that pauses, and two more that race on the
pause: two approvals, an approval and a chat, or two chats, which is the
smallest number for each hazard of section 1 (stale copy, double approval,
lost write). Every kind of tool occurs, with two calls that need approval so
that a decision can cover a part of the pending calls, and two read-only ones
that settle in either order; batches of three mix all kinds. With five calls one
client history has to do (`MCOneHistory`), text turns; the other runs have the
empty one as well. `MaxIterations = 2` lets a chat call tools and come back to the model
once, and a resumed run, which starts at one, reach its bound. `MaxRetries` is 1
where only the outcome matters and 2 where the counting does (`agent_live`,
`harness`); the theorems have no bound on either and include 0.
`MaxDecisions = 2` allows a full, a partial, a repeated and a foreign decision.
In `harness` an answer uses up to 2 tokens and the limit is 2, so
that a run ends below, at and above it; one unit of time reaches the clock's
limit; the limits of zero and NaN come with one provider each, since no
property depends on both; and requests of the conversation do not overlap,
because the hazards here lie within a run and from one request to the next. The
proofs about `Harness` cover overlap as well.
Four session requests are a login, two racing refreshes and a logout, or a
login, a refresh and two logouts; three tokens serve a login and two rotations;
one user is the worst case for the counts, which are per user. Two requests are
enough for `Tenancy` because a run may start from any database earlier requests
could have left, and each of its properties relates one request to the tables
or to one other request; two tenants, emails and slugs are one to share and one
to differ in, and one ticket may be of either tenant, be missing, or be
created. `MaxCalls`,
`MaxDecisions` and the sets above are the only bounds; no state constraint is
used, and the proofs have no bounds at all.

**Symmetry** is used in runs without liveness only; the members of each
permuted set are interchangeable in `Init`, `Next` and the properties
(`MCAgent` permutes the two read-only calls, and the two that need approval).
`CHECK_DEADLOCK` stays on: `Quiet` is the server that has answered everything,
so a deadlock would be a handler that hangs.

**Fairness.** `FairSpec` assumes weak fairness of `Step(r)`, whatever a handler
does by itself, and nothing of arrivals, crashes, or of any particular outcome:
the event loop keeps running ready continuations, Prisma calls and the SDK
calls of the providers end with an answer or an error, and the back-off is a
timer. That the model stops asking for tools is not assumed; the iteration
bound ends the loop. In `Tenancy` it is weak fairness of `Serve(r)`: the queries
of a handler are answered, and one that waits for a value held by another
transaction proceeds when that ends. `agent_live` leaves the crash out, because after a crash no
handler is left to be fair to; the requests end as `failed`. In `tenancy`
the crash is included: it ends every handler as `failed`.

## 4. What is proved

TLAPS proves, for all values of the constants that satisfy `CallsAssumption`,
`AgentAssumption`, `HarnessAssumption`, `SessionsAssumption` and
`TenancyAssumption` (finite sets, the plain client histories, bounds that are
natural numbers, for `Harness` model calls that may fail and limits that may be
zero, and a null value that is none of the ids):

- `AgentProofs`: `Invariance` (`Inv`), `TypeCorrect`, `PauseDecidable`,
  `HumanInTheLoop` (`RunsAreGranted`).
- `PairingProofs`, with `ChatOnPaused = FALSE`: `ModelSeesPaired`
  (`ModelSeesPairedCalls`), `NothingOrphaned` (`NoOrphanedCalls`); with no
  condition: `StepsAdvance` (`EveryStepAdvances`), `NeverStuck`
  (`NobodyIsStuck`), `OnePlace` (`RequestsHaveOnePlace`), `ReadsOrdered`
  (`ReadsAreOrdered`), `HistoriesWellFormed` (`StoredHistoriesWellFormed`).
- `SerialProofs`, with `Overlap = FALSE`: `HistoryGrows` (`HistoryOnlyGrows`),
  `SerialInvariance` (`SerialInv`), `DecisionsFinal` (`DecisionsAreFinal`), and,
  with `ChatOnPaused = FALSE` as well, `CopiesFollow` (`CopiesFollowRows`) and
  `RowsImplementApproval` (`Spec => ImplementsApproval`).
- `HarnessProofs`: `Refines` (`HSpec => ImplementsAgent`), `HarnessTypeCorrect`,
  `SendsBounded`, `TokensBounded`, `RepliesHeard`, `RecordingsKept`
  (`RecordedRequests`), `BatchesOpen`, `PausesKept` (`StrictVendorsKeepPauses`),
  `ShownPending`, and `CarriesSafety` (`PauseIsDecidable` and `RunsAreGranted` of
  `Harness`).
- `VendorProofs`: `ResultsInPlace`, `AcceptedPaired` (`AcceptedIffPaired`),
  `StrictProtocol` (`StrictVendorsKeepProtocol`) and `HarnessInvariance` (`HInv`).
- `SessionsProofs`: `Invariance` (`Inv`), `TypeCorrect`, `SingleUse`
  (`TokenSpentOnce`), `NoExtraSession` (`RotationAddsNoSession`), `LogoutKills`,
  `LogoutRevokes`.
- `TenancyProofs`: `Invariance` (`Inv`), `TypeCorrect`, `Isolation`
  (`TenantsAreIsolated`), `AnswersStay`, `RemovedForGood` (`RemoveIsFinal`),
  `SignupAtomic` (`SignupAllOrNothing`), `SignupKeeps` (`SignupOwns`),
  `ContextVerified`.

**Agent's invariant.** The properties speak about the rows, but a row is whatever
some handler had in its copy, so the invariant says what a copy is at each
program counter (`SoundCopy`): before and after the tools of a batch, only
calls that need approval are pending; while a batch runs, the pending calls are
those plus exactly the part of the batch not yet reached; in `approve`, `todo` is
exactly the pending set. Since no conjunct relates a copy to the row it was
loaded from, a stale write keeps the invariant, and this is why these properties
survive any overlap. `RunsAreAccounted` does the counting for the human in the loop:
a safe call ahead of one handler is ahead of no other and has not run; a call
that needs approval has run at most as often as there are grants no handler is
still about to use. `ResultsAreBacked` says that every result in a copy or a row
comes from an execution. The proof has one lemma per action and per part, over
the lemmas of `ConversationProofs` on what each append does to the pending
set.

**Pairing.** When nobody chats on a paused conversation, every copy a chat starts
from is fully answered, and `CopiesArePaired` follows each copy from there: nothing
is pending at the head of the loop or before the model, and within a batch only
calls of that batch. `NoOrphanedCalls` is the same said of what such a copy
becomes when it is stored. It is inductive on top of `Inv`, and needs no
condition on overlap: a stale copy was paired when it was loaded.

**Why every handler ends.** `EveryRequestEnds` itself is checked by TLC, but all
that it rests on besides fairness is proved, for all limits. `Budget` is what a
handler has left: the turns of the loop, then the stage of the turn (waiting
for the model or resolving, reading, writing, back at the head), then the
attempts or the calls of the stage. `StepsAdvance` says that each step of a
handler ends it or lowers this, in lexicographic order, and that no other step
touches it except a crash, which ends it. The order is the point: a new turn refills the
attempts and the calls, an approval starts with `iterations = 1`, and neither
gives back a turn. That the order on the triples is well founded, so that it
cannot be lowered for ever, is the lemma `AdvancesEnd`. `NeverStuck` is the other half: an active
handler has a step to take. That is not obvious where the model says "the next
call in the order of the history" or "the results in the order of the batch":
`NextExists` and `OrderExists` show that there is such a call and such a
sequence, by a smallest counterexample, and `NextIsOne` and `OrderIsOne` that
there is only one, so that the loops of the model are as deterministic as the
`for` loops they stand for. Uniqueness needs `RequestsHaveOnePlace`, an
inductive invariant of its own on top of `Inv`: new ids are new to every
history, however stale the copy that grows.

**The order of a batch.** Parallel calls settle in any order, and their results
must be pushed in the order of the batch. `ReadsInOrder` says so of a whole
history: its read-only calls are answered in the order they were requested in.
For that to be inductive (`ReadsAreOrdered`), a handler that records results
must have the turn that asked for them last in its copy, so that whatever was
answered before was requested in an earlier turn (`ReadsResults`). With `Inv`
this gives `HistoriesWellFormed`.

**One request at a time.** When a client waits for its answers, a conversation
has one handler at most, so its copy is the row with something appended
(`CopiesExtendRows`), and since ids are fresh a call belongs to one
conversation, in its row and in the copy (`CallsHaveAHome`). That is enough for
`HistoryOnlyGrows`. `DecisionsAreFinal` needs more, because between the
execution of a call and its record the row still shows it as pending: `DecidedOnce`
says of a call none of whose approvers failed that it ran at most once, that if
it ran and is pending in the row then an active approver of that conversation
has answered it in its copy, and that a rejected call did not run.
`SerialInv` joins these with `Inv`. Here the proofs do not go action by action
but by what a step does to the pair of row and copy (`StepKinds`): handlers
disappear (`Drops`), a copy grows (`Moves`), a request starts from the
row (`Starts`), or a copy becomes the row (`Persist`).

**Agent implements Approval.** The mapping reads the row only: its status, its
pending calls, and of each call whether a row answers it with a result or a
rejection. All steps but two kinds leave the rows alone and are stutters; `ChatNew`
is `Create`, and `Persist` is `Turn` or `Decide` (`PersistRefines`). Which of
the two is decided by the request's kind, by `CopiesFollowRows`: the handler of
an `approve`, and no other, has a paused row, and it has answered, of the calls that
need approval, exactly the row's and those of the pause it has visited, while
a chat has answered none. It needs `CopiesArePaired`, since a pause that a
chat may leave is not a protocol step.

**Harness' invariant.** `Refines` comes first: each action of `Harness` is one of
`Agent`'s or a stutter, so `Inv` is available in every state. `BooksAreKept`
relates a run's book to its program counter; its heart is that, in any
environment, zeros included, the calls of
`complete` are at most (iterations − seed) · `MaxRetries`, with the current
attempt in place of a full round while one is under way, and that a run that has
called the model did so below its token limit. `SendsAreBounded` alone is not
inductive: it says nothing about how much of the iterations is used.
`OnlyTheBatchIsOpen` is the counterpart of `CopiesArePaired`, with another reason:
what a strict vendor has answered was paired (`AcceptedIsPaired`, from the shape of
the wire format), so that after the first answer of a run only its current batch
is open.

**Recordings.** `RecordedRequests` speaks of an array that outlives its handler.
`ArraysAreLive` ties it to the handler's copy while there is one, and says that a
recorded request belongs to a run that has started, so that no later run gets its
array. From there a step of a handler only appends results or a turn of the
model (`StepCopies`), and what a request was sent stays a prefix.

**What a vendor takes.** The vendors want each result directly after the turn
that requested it, and no result missing. That a vendor's answer implies pairing
needs the wire format only. The converse needs to know where results stand:
`InPlace` says that a call is requested by one turn and that nothing but results
stands between that turn and its result; `OpenAtEnd`, that a result appended now
would stand there. Batches are appended to histories without open calls, which
is where the vendor's refusal comes in: a chat on a pause appends a text after
open calls and breaks `OpenAtEnd` for good, but it never gets to append a result.
`ResultsAreInPlace` has this for all rows and copies, from which
`PairedIsAccepted` computes what the vendor reads, in both shapes at once
(`WireTurns`: the turns of the history, after the system's turn or not).

**The protocol under a strict vendor.** `RowsImplementApproval` needs clients that
do not chat on a pause; with a strict vendor they may. `StrictCopiesFollow` says
that a handler follows its row as before, or is `Stuck`: a chat on a paused row
that waits for a model which refuses what it is sent. A stuck handler stores
nothing: it could leave this state by a final answer, which the vendor does not
give, or by giving up at the head of the loop, which a run does only once it has
heard the model, as long as no limit is zero (`Sensible`). So `Persist` is
always done by a handler that follows its row, and `PersistRefines` applies.

**Sessions' invariant.** `RowsAreLive`: a row has an owner and was not spent, so a
token consumed once can never be found again. `SoundHandler`: what a handler
holds was issued, and a logout past `consume` has left behind what it promises.
`SessionsAreCounted`: rows of a user plus rotations under way (consumed, not
issued again) are at most its logins; `RotationAddsNoSession` alone is not
inductive, because between the delete and the issue the session is in no row.

**Tenancy's invariant.** Isolation rests on two lemmas about `Scope`: whatever
arguments come in, the `where` of every operation that has one names the tenant
of the context (`ScopedWhere`), and what is created is stamped with it
(`ScopedData`); `QueryStaysInTenant` and `QueryById` say what that means for the
rows a query selects. `TicketsAreBorn` ties rows and answers to the tenant they
were created for, and says that what was removed has been a ticket, so that its
id does not come back. `TransactionsHold` is what makes the signup work: what an
open transaction has found free is still free and no other open transaction has
it. `SignupAllOrNothing` alone is not inductive, since a commit would have
nothing to say that its slug and email are still free. The proof treats the
tickets and contexts (`Base`) and the signups (`Signups`) separately, with one
lemma per action for each.

**Model-checked only.** Liveness (`EveryRequestEnds`, `GrantsAreRecorded`,
`EverySignupEnds`) is out of the prover's reach: it takes fairness and `ENABLED`.
Of `EveryRequestEnds` only the last step is left to TLC, from a step that exists
to a step that is taken.
Every invariant and every action property of the passing runs is proved.

## 5. Mutants

Every property of a passing run has a mutated form of a definition of the model
(operators commented "Mutant") under which TLC finds the property violated: a
dropped guard, a skipped rejection, results not recorded, a pause stored as
completed, the pause taken before the mutating calls, results pushed as they
settle, `deleteMany` for
`delete`, an expired token that is not deleted, a scope that stamps only what is
created, a header that is not switched off, two inserts without a transaction,
a turn sent without its tool calls, a retry that is not recorded, a clock that
runs from the arrival of the request, and so on.

## 6. Where documents and code disagree

Each is a run that TLC must find violated; `PROJECT.json` quotes both sides.

1. `ApprovedRunsOnce`: an approved call can run twice. `approve` runs it, the
   model call that follows fails for good, nothing is stored, and the next
   approval finds the call pending again. The approval specification and a
   comment on the ticket tools promise idempotency by `toolCallId`.
2. `NoOrphanedCalls`: `chat` on a paused conversation leaves a completed
   history with an unanswered call. It takes a model that answers such a
   history, as the fake of the tests does. A vendor that insists on answered
   calls refuses it on every attempt, so the chat fails and the pause survives
   (`StrictVendorsKeepPauses`).
3. `PauseSurvives`: of two overlapping chats, the later write removes the pause
   the earlier one has stored and told its client about.
4. `RefreshKeepsSession`: `refresh` rotates the token on the server and does not
   set the new refresh cookie; the next refresh is a 401.
5. `LogoutRevokesAll`: a logout whose token is no longer known, which is every
   logout after a refresh, revokes nothing.

Two more have no run. Both are about `approve` and what its client is shown:

- The specification of the approval flow wants a 400 for decisions that do not
  cover every pending call (`openspec/specs/agent-approval/spec.md:54`,
  `docs/spec-02-agent-approval.md:56-57` and `:64`). The code
  (`agent.service.ts:195-205`) and `README.md:164` discard the undecided calls as
  rejected, and so does the model (`ApproveAccepted`; `ApproveDecided` is the
  mutant that skips them). That the undecided never run holds either way
  (`DecisionsAreFinal`).
- `docs/spec-02-agent-approval.md:38` says that `awaitingApproval` is present
  exactly when decisions are pending. `ShownIsPending` says so for the vendors
  that refuse unanswered calls. With the fake, a chat on a paused conversation
  (item 2) is answered while the calls of the pause stay pending and are not
  shown.

The traces of `agent_orphan` and `agent_pause` go through the model: the chat
that does the damage was answered by it, with limits that are not zero.

## 7. Not modelled, and the plan

Not modelled for good: bootstrap, health, the smoke script, the API keys without
which the process does not start, password hashing, input validation, the
wording of prompts and answers, JSON of arguments and tool schemas
(`parseArguments`, `toJsonSchemaTools`). `GET /auth/me` changes nothing. Public
paths pass the middleware untouched. `ConversationService.setStatus` has no
caller. `matchesCassette` compares strings; which cassette matches is a choice.

Left for later, in this order:

1. An abstract ledger of refresh tokens that `Sessions` implements.
2. Client histories with tool calls, by widening `ClientHistories`, and
   cassettes that repeat tool-call ids, by widening `Batches`. Both weaken
   assumptions the inductive invariant of `Agent` rests on.
