# A TLA+ model of lawyer-agent

lawyer-agent is a multi-tenant service for law firms: a FastAPI backend on
MySQL, Redis, RabbitMQ, OpenSearch and an object store, with worker processes
and a web client. The interesting half of it is not the legal text but the
bookkeeping around it: logins that must die when they are stolen, writes that
must happen once although clients retry, jobs that must run once although
messages are lost and duplicated, and data sets that are switched across two
stores without a common transaction. This directory models that half in TLA+,
checks it with TLC and proves parts of it with TLAPS.

All source paths below are relative to `src/backend/src/lawyer_agent/`, unless
they start with `src/`.

## 1. The system and its parts

`PROJECT.json` lists every component with its files and its status. The ones
that keep state of their own:

| Component | State | Operations | What is hard | What makes it correct |
|---|---|---|---|---|
| Durable AI jobs (`application/ai_job*.py`, `repositories/ai_jobs.py`, `workers/`) | job, attempt, grant, outbox and inbox rows; claims in a publisher's memory | create, cancel, claim outbox batch, publish, mark or release, accept delivery, heartbeat, finalize | two publishers, redelivery, crashes between commit and acknowledgement, lost confirms | a job is claimed once; no published message is lost or swallowed; it is eventually decided |
| RabbitMQ topology and envelopes (`infrastructure/messaging/`) | queues, unacknowledged deliveries | publish with confirm, consume, ack, reject | duplicates, lost confirms, channel loss | at-least-once delivery that the inbox makes effective once |
| Idempotency (`application/idempotency.py`) | one record per (scope, operation, key) | reserve, complete, replay | concurrent retries, snapshots older than locks | one write per key, one answer per key |
| Device sessions (`application/sessions.py`) | sessions, refresh tokens, access tokens, validation cache | start, refresh, revoke, tenant access, tenant switch, validate | racing refreshes, a snapshot read before the locks, a cache told late | a login is one capability; it dies whole; what is dead is refused |
| Security write locks (`application/security_locks.py`) | row locks in one declared order | lock gate, family, session, user, membership | what was read before the lock is old; deadlock | decisions rest on what is locked; one global order |
| Tenant administration (`application/tenancy.py`) | tenants, applications, memberships, roles, departments, versions | apply, review, change member, transfer | last owner, version checks, revocation of sessions | one owner at least; every change revokes what it outdates |
| Invitations (`application/invitations.py`) | invitation rows | issue, revoke, accept | concurrent acceptance | consumed once |
| Authorization cache and outbox (`application/tenancy.py`, `repositories/authorization_cache_outbox.py`) | outbox tasks with claim token; Redis entries by version | claim, invalidate, complete, release, immediate completion | lapsed claims, failed invalidation | every outdated entry is removed |
| Permission rollout (`application/permission_rollout.py`) | global phase and generation, one state per tenant | begin, claim batch, apply, finalize | tenants created meanwhile, batches that come late | a finished phase covers every tenant |
| Legal dataset publication (`application/legal_dataset_publication.py`) | publication rows in MySQL, alias in the index, inventory | publish, resume | crash between two stores, a switch that arrives late | one switch per row; the inventory names what the alias serves, and no row writes it twice |
| Conversations (`application/conversations.py`) | a lease per conversation, messages | start, append, finish, expire | disconnects, timeouts | one turn at a time, answered once, settled for good |
| Contract review runs (`infrastructure/contract_review/`) | run rows, failure leases, the PDF of a run, a registry of running calls | create, upload, claim, review, save, fail, cancel | three tasks per call, one of them behind a shield; cancellation against completion | the stored file is what is reviewed; one final status; no run stays running |
| Matters, documents, rule packs (`application/matter_document_api.py`, `application/rule*.py`) | rows and objects | create, upload, activate | row and object written apart | one active pack, no version without its object |
| Identity, platform bootstrap (`application/identity.py`, `application/platform.py`) | users, identities under versions of a blind-index key, administrators | register, authenticate, bootstrap | concurrent registration while the key is rotated | one user per identifier, which every process finds; one bootstrap |
| Rate limits and step-up (`infrastructure/redis/`) | counters and grants with a time to live | hit, grant, consume | window boundaries | each is one atomic script |

They interact as follows. The API wraps every write in a unit of work: one MySQL
transaction that locks (security locks), reserves an idempotency key, writes,
appends an audit row and commits. Work that outlives the request goes through
an outbox row written in the same transaction (AI jobs, cache invalidations)
and is picked up by a polling process. Changes of memberships revoke sessions
in their own transaction; caches are told after the commit, or never, and are
hints. The publication of a data set is the only operation that has to keep two
stores in step without either transaction or outbox.

The components without state of their own (authorization policy, search and
fusion, parsing, providers, the MCP gateway, the web client) are pure functions
or calls of external services and are not modelled.

## 2. The modules

| Module | What it is |
|---|---|
| `AIJobLifecycle` | What the domain promises of a job: its statuses and the moves between them |
| `AIJobRuntime` | The runtime: API transactions, publishers, broker, delivery handlers, executor |
| `MCAIJobRuntime` | Instances for TLC: one or two jobs, two publishers, two handlers |
| `AIJobDeliveryProofs` | Type correctness, the inductive invariant of delivery and what follows from it, and the refinement of the lifecycle |
| `Idempotency`, `MCIdempotency`, `IdempotencyProofs` | Idempotent units of work, instances, proofs |
| `SessionFamily` | What a device login promises: one capability, passed on until it dies |
| `Sessions`, `MCSessions` | The session service, its races and its cache; instances |
| `SessionsProofs` | Their proofs: transactions and locks; chains, answers and the refinement |
| `DatasetRegister` | What publication promises its readers: a register that every row writes once, and that nobody else writes but where the journal is bypassed |
| `LegalDatasetPublication`, `MCLegalDatasetPublication`, `LegalDatasetPublicationProofs` | The journal, the alias and the inventory; an instance; proofs and the refinement |
| `AuthorizationCacheOutbox` | The outbox of cache invalidations, its claims and its dispatchers |
| `TenantMembers` | Changes of members, invitations and acceptances behind the tenant gate, composed with the outbox |
| `PermissionRollout` | The rollout of a set of permissions to every tenant and back |
| `MCTenants` | Instances of these two, one of which rests while the other moves |
| `TenantProofs` | The proofs about the members of a tenant and about the rollout |
| `IdentityAccounts`, `MCIdentityAccounts`, `IdentityAccountsProofs` | Registration and login while the blind-index key is rotated |
| `ContractReviewRuns`, `MCContractReviewRuns`, `ContractReviewRunsProofs` | The tasks of the contract review and the rows they race on; an instance; proofs |
| `Conversations`, `MCConversations`, `ConversationsProofs` | The turns of a conversation, their lease and their streams; an instance; proofs |

Everything that models code has an entry in `PROJECT.json` under `map`, with the
lines it stands for. An operator whose comment starts with "Fault" or "Mutant"
is a wrong variant of the operator after it. Nothing uses it; put in the place
of that operator it makes the property named in `PROJECT.json` fail.

### AI jobs

`job`, `outbox` and `inbox` are the three tables (the attempt row of a job, of
which there is at most one, is a field of its job). `batch` and `receipt` are
what a publisher holds in memory between its short transactions; `ready` and
`dead` are the queues of the broker, `handler` the deliveries in progress,
`exec` what an executor was told when its job was claimed. `Create`, `Cancel`,
`ClaimOutboxBatch`, `Settle`, `Heartbeat` and `FinalizeSuccess` are one
transaction each. `accept_delivery` is one transaction but four steps
(`Receive`, `LookUpInbox`, `InsertInbox`, `Decide`), because it reads the
authority of the job in the snapshot of its first SELECT and may wait at the
unique key of the inbox; `Acknowledge` comes after the commit. The broker is
external and behaves as the code relies on: a confirm without a return means
the message is queued, a confirm may be lost, an unacknowledged delivery is
queued again when its channel is lost. A fresh identifier is named by the
version that its row takes when it is drawn: versions grow, so identifiers differ.

### Idempotency

`attempt` is an HTTP request; `row` and `written` are what is committed. In every
caller `reserve` and `complete` share a transaction, so a reserved record is
never visible to anybody else; the branches for visible reserved or failed
records are modelled and, as the proofs show, never taken. `Rollback` stands
for a domain error, a deadlock victim, a lock timeout and a crash. The engine
sets no isolation level, so plain SELECTs use MySQL's REPEATABLE READ, and
operations that read before they reserve (`ReadsFirst`) may replay against a
snapshot older than the record.

### Sessions

`session`, `token` and `member` are rows; `claims` are the access tokens issued,
`cache` the validation cache, `uninvalidated` the committed changes it has not
been told of. A refresh is three steps: `BeginRefresh` (locate, which fixes the
snapshot), `LockRefresh` (the locks, and the token read under its lock) and one
of `RefreshReplayed`, `RefreshRefused`, `Rotate` (decide and commit), or
`Abort`. Every other writer reads only what it has locked or what never
changes, and is one step at its commit, enabled only when no refresh holds the
locks it needs. `SwitchTenant` and `ChangeMember` include what they revoke.

Abstractions: one user, whose row (like the status of tenants) no code here
changes after its creation; the validity window of a membership, which every
code path leaves open; the lifetime of access tokens; signatures. The cache is
a port that the service is not given today, and is modelled as written.

### Legal dataset publication

`row` is the journal, `target` what the alias points at, `inventory` the
snapshot recorded for the readers of the corpus. A process (`pub`) does one
action between two awaits: it reads the alias (`ReadPrevious`), writes its row
(`Create`, or `CreateConflict` at the unique key of an alias with an unfinished
row), claims it, compares the alias, sends the switch, acknowledges, verifies
and completes; `Abandon` is an exception or a crash at any of these, and
`Resume` takes a row up again. A switch that was sent stays in `requests` until
the index carries it out (`SwitchAlias`) or refuses it: its sender may be gone by
then. `publish_set` and `publish_version` do the same without the journal, as do
operators: `DirectRead` reads the alias, `DirectSwitch` switches it, and
`DirectRecord` writes the snapshot afterwards, in a transaction of its own;
`DirectEnds` is a service without a snapshot port, a failed call or a crash, at
any of these. What the two orders of writes leave of the agreement between alias
and inventory is in the properties: `ServedIsRecorded` and `ReplacesItsBase` are
about aliases never published past the journal, `NeverBackwards` about all, since
`DatasetRegister` lets such a publication overwrite the register of its alias
(`Overwrite`) and still no row write twice. How a candidate is validated and its
index built is not modelled.

### Members, invitations and the cache outbox

The four administrative transactions of a tenant are actions of
`TenantMembers`: change of a member, invitation, acceptance, and what they leave
in the outbox. Each is a plain read, which fixes the snapshot (`Begin...`), the
wait for the tenant gate (`Enter...`), the checks behind it (`Check...`) and the
commit, or `Abandon...`. Behind the gate the memberships are read again and the
roles still come from the snapshot; this is why the version of the administrator
is compared. The version of the target is not: `If-Match` is whatever the client
sends (`expected`), and `Matches` compares it with the locked row. A client that
names a version its own snapshot already has (`Informed`) is judged on current
roles; one that names the version that comes next may be judged on roles that
were replaced while it waited. `InvalidateNow` and `MarkNow` are the immediate invalidation after
the commit, `AuthorizationCacheOutbox` the dispatchers that race it: `ClaimTasks`
in one transaction, the call of Redis outside any, the report in another.
Founders are the members of type owner; only the approval of an application
creates one, so that a second founder exists only where the data base is
filled directly, as `src/backend/tests/integration/mysql/test_idempotency.py:2366`
does. `Init` is a tenant with a past: its founders have the roles that earlier
changes left them, and one is an owner. No code creates an invited membership or revokes a versioned invitation.

### Permission rollout

`phase`, `generation` and `templates` are global, `granted` what the roles of a
tenant have, `state` its row. A tenant is created in two steps, since it clones
the templates in its snapshot (`Clone`, `CommitCreation`); a batch claims in one
transaction (`ClaimBatch`) and changes each tenant in one of its own
(`ApplyActivation`, `ApplyDeactivation`, `ApplyFails`), so that a new transition
can begin in between. The generation of a batch is its caller's and its direction
that of the method called; nothing compares either with the global row, so a
batch may be of a generation not begun, one that is over, or against the phase.
What stops it half way is the data base: the primary key of a permission that a
role already has, and the check of the state table that nothing is applied
beyond its target (`WithinTarget`). Only tests call the rollout today.

### Identity

`account` holds, for each writer, the version of the key under which it stored
the digest of its `name`. A request with locks takes the advisory lock of every
version of its process's ring in turn (`locking`), reads, inserts or answers,
commits, and releases. A login that meets an account under an older version
re-indexes it under the active one. `OldWriter` is a process of the previous
release, without locks; `Drain` is the end of the last one, which the rollout
policy requires before another version is written.

### Contract review

A call of `ContractReviewService.run` is three tasks: the call (`call`), the
workflow step that saves its result (`save`) and `fail_owned` behind a shield
(`clean`). A transaction is the read that fixes its snapshot and the
compare-and-swap at its commit. `Disconnect`, `Close` (shutdown), `Exit` (the
process ends), `Revoke` (the owner loses the session) and `LeaseExpires` are the
environment; `abandoned` marks runs whose cleanup it has prevented, among them
those whose call is cancelled between the commit of its claim and the return.

### Conversations

Every transaction locks the row of the conversation, so one step covers it from
the lock to its commit; `start` alone is two, since the authorization reads
first and so fixes the snapshot in which the earlier turns are then looked up.
A turn is one record for its two messages. A stream goes from `streaming` over
`saying` (a piece is committed and not yet sent) to `completing` and `telling`;
failures lead to `closing`, the shielded finish, which commits, raises or is
given up after six seconds. The lease names its call in place of a token.

## 3. What TLC checks

| Run | Bounds | Shows |
|---|---|---|
| `ai_job_safety` | 1 job, 2 publishers, 2 handlers, 1 fault, 1 heartbeat, publish limit 2 | `ClaimedAtMostOnce`, `NoJobSwallowed`, `PublishedIsNeverLost`, the refinement of `AIJobLifecycle`, and `PublishedIsDecided` under fairness |
| `ai_job_batches` | 2 jobs, 2 publishers, batches of 2, 1 fault | `OneClaimHolder`, `OutboxSettles` under fairness |
| `ai_job_authority` | as `ai_job_safety` | a counterexample to the documented effect of a lost authority |
| `idempotency` | 3 attempts, 2 keys (one reads first), 2 fingerprints | `RowTellsTheWrite`, `SameAnswer`, `RetryIsReplayed`, and `EveryAttemptAnswered` under fairness |
| `session_rotation` | 2 sessions, 3 tokens, 2 refreshes, 1 membership with one change, clock 0..1 | `ChainUnbroken`, `FamilyDiesWhole`, `LiveSessionIsAuthorized`, `DoublePresentationKills`, and the refinement of `SessionFamily` |
| `session_access` | 2 sessions, 2 tokens, 1 refresh, 1 validation | `DeadCredentialRefused`, with a cache that is set and told in any order |
| `dataset_publication` | 2 processes, 3 rows, 1 alias, 3 indexes, 1 publication outside the journal | `SentOnce`, `LateSwitchIsReserved`, `ServedIsRecorded`, `ReplacesItsBase`, and the refinement of `DatasetRegister` (`NeverBackwards`) |
| `contract_review` | 1 run, 2 calls, 2 uploads of 2 files, 1 end of the process | `ClaimMatchesCall`, `ReviewedAsStored`, `EndedIsFinal`, `RunsEnd` under fairness |
| `tenants` | 2 founders and a user, 2 changes, 1 invitation, 2 acceptances, `If-Match` of 1 or 2, 2 requests at a time, 2 dispatchers, 2 claims per task; and 2 tenants, 2 batches, generations 1 and 2 | `LastOwnerStays`, `AuthorityIsCurrent`, `JoinsOnce`, `SettledIsInvalidated`; `TransitionIsWhole`, `AppliedIsGranted` |
| `tenant_owner` | the same tenant, 3 changes, 2 at a time | a counterexample to "cannot remove the last active owner" |
| `identity_accounts` | 1 name, 2 registrations, 1 old writer, 2 logins, 3 rings | `OneAccountPerName`, `AccountIsFound`, `EveryRequestEnds` under fairness |
| `conversations` | 3 calls over 3 requests, one with two texts, answers of one piece | `AnsweredOnce`, `HistoryIsWhole`, `ToldIsTrue`, `SettledIsFinal` |

Why the bounds are enough. Jobs do not interact except by sharing a batch, so
one job with two publishers and two handlers exhibits every race on a row, and
the run with two jobs covers batches that outlive their claims. One fault is a
publisher, a worker, a connection or an executor that fails at any step; lapsed
claims and redeliveries come on top of it. The delivery limit of the broker (20
by default for quorum queues) is not reached. Three attempts are a writer, a
waiting retry and a retry with another body. Three tokens let a login rotate
twice, or two logins rotate once; one change of the membership outdates every
token issued before, since nothing distinguishes the second. `Lifetime` and
`MaxTime` of 1 let a token expire, and a request begin before and decide after.
Three rows let a row be resumed after a newer one has completed, and a third
meet the alias that both have left. Two uploads bring different files
(`MCInit`), since equal ones cannot be told apart; with two calls and a
`Capacity` of two nobody waits for the semaphore. `MaxGeneration` of 2 is an
activation and its withdrawal, with batches of both generations in both
directions: a batch can be overtaken, taken over, early, late or contrary.
`MaxDirect` of 1 is one publication outside the journal at any point of any
other; more of them would only race each other. The two parts of `tenants` share
no variable, so one rests in its initial state while the other moves. Its
constraint `MCTwoAtATime` lets a third request begin when one of two is over; a
version of 2 in `If-Match` is that of a membership changed once, and it can be
named before that change or after. `MCInit` keeps two kinds of tenants: owners
and a user who joins, and an owner, a lawyer who can become one and an
administrator. `MCOutboxLast` lets the dispatchers start in a tenant
without invitations when no change is before its commit any more: they share no
state with the gate, and the race they are about, with the immediate
invalidation, comes after it. `MaxClaims` of 2 lets a claim lapse and the late
report of the first meet the second. Three rings are a key that is rotated
twice: processes before, between and after. Requests of one kind are alike, so
`MCInit` orders their processes by `Rank`. One piece per answer tells a
stored answer from a whole one, and three calls are a stream, a repetition of it
and a successor. Publishers, attempts, sessions, tokens, tenants, calls and the
like are interchangeable; symmetry is used only in runs without liveness
properties. Deadlock is checked in `dataset_publication`, where a process can
always begin or give up; elsewhere requests end, bounds are reached, and then
nothing is left to do.

Fairness. The publisher and the worker are endless loops of their processes,
the broker delivers what it holds, and pauses and leases run out with the
clock: each of those steps is weakly fair, per process. Crashes, lost
connections, cancellations and rejections are not fair and are bounded by
`MaxFaults`. In `Idempotency` a request that was accepted keeps executing; a
step that waits for a row lock is only weakly fair, which suffices because the
lock's holder cannot be skipped for ever and attempts are finite. In
`ContractReviewRuns` the event loop resumes each of the three tasks of a call;
a review is bounded by its time limit and the wait for the cleanup by five
seconds, so these ends are among the fair steps. In `IdentityAccounts` a
process runs a request it has begun; that requests are begun, and that old
writers drain, is not assumed. `EveryRequestEnds` rests on every ring taking
its locks in one order. The other modules state no fairness: nothing calls the
dispatchers of the outbox or resumes a publication by itself, and a stream
whose process has died is settled only when somebody comes by.

### What the documents say and the code does not do

Two runs check a statement of the repository and find a counterexample.

- `ai_job_authority`: the design says a change of authority stops every effect
  not yet committed. The handler reads users, memberships and roles in the
  snapshot of its first SELECT, so a revocation that commits while it waits at
  the inbox does not stop the start.
- `tenant_owner`: `application/tenancy.py:1066` refuses to remove the last active
  owner. A change waits at the gate while its target, in its snapshot a lawyer,
  is made an owner, and the other owner steps down, counting it; if the client
  of the waiting change named the version that this gives the row, `If-Match`
  agrees, the roles in its snapshot are not those of an owner, the owners are
  not counted, and none is left. `LastOwnerStays` says that there is no other
  way, however many removals race. It takes a client that guesses and a second
  membership of type owner.

Reading the code for the models showed more. None of it breaks a property
above; paths of documents are below `src/docs/`.

- AI jobs: a cancellation leaves the unpublished outbox row pending, where the
  design (`superpowers/specs/2026-09-03-tenant-durable-ai-job-runtime-design.md:431`)
  supersedes it; the delivery is then recorded and dropped. The publish limit
  (`:637`) is not compared when a lapsed row is claimed (`ai_jobs.py:344`). A
  job whose executor is dead stays running: nothing takes over its lease
  (`ai_jobs.py:234`, `project-status.md:84`).
- Idempotency: the design (`:568` of the same document) answers the loser of a
  race with the winner's result. An operation that reads before it reserves
  (`application/ai_job_service.py:189` before `:194`) keeps the snapshot of that
  read, cannot see the winner's job (`:220`) and answers "not found".
  `RetryIsReplayed` says that this befalls only requests sent before the first
  answer was given: one sent later is replayed the same result.
- Sessions: a validation that is slower than a rotation writes the old expiry
  back to the cache (`application/sessions.py:844`). It affects nothing while
  the service has no cache.
- Permission rollout: finalize does not check that every tenant has converged,
  as the same design asks (17.3, 17.4); the creation of a tenant writes no state
  row (17.2); an overtaken batch can set an applied generation back (17.4).
- Tenancy: neither dispatcher of the outbox, nor anything that fills the cache,
  has a caller in production, so that no liveness is claimed for it.
- Identity: a login whose process lacks the newest version answers that the
  password is wrong, not that its key is missing, when another login moves the
  account between its snapshot and its locking read. The connection with the
  advisory locks comes from the pool that serves the transactions, so that as
  many requests as the pool is large wait until its timeout.
- Contract review: `cancel` of the service cancels whichever call of the run is
  registered; an event stream may report a failure of a run whose draft was
  saved; a call cancelled between the commit of its claim and its return leaves
  the run running until its lease has expired.
- Conversations: a `start` whose snapshot is older than the end of the turn
  before, and which locks after it, is accepted with a history that lacks this
  turn; `HistoryIsWhole` says that it lacks no other. Other late starts end at
  the unique keys, as an internal error and not as "busy" or a replay. A client
  may be told "incomplete" of a completed turn whose commit was not heard of,
  and gets no last event when the shielded finish raises.

## 4. What is proved

For every number of jobs, publishers, handlers, attempts, keys and so on, from
the named assumptions on the constants only:

- `TypeCorrect`, `DeliveryCorrect`, `NoDuplicateExecution`, `NoMessageSwallowed`
  and `RuntimeImplementsLifecycle` of the AI jobs. `ClaimedAtMostOnce` is not
  inductive: that a row names its job's only claim needs to know that an
  envelope keeps the identifier it was first built with (`MessageInv`), that
  handlers between insert and commit are alone with their message, and that the
  status of a job and its inbox row were written together (`InboxInv`), over
  the shape of a job row (`JobInv`). `DeliveryInv` is their conjunction.
- `ClaimsCorrect`, `OneHolder` and `NothingPublishedIsLost` of the AI jobs, over `DeliveryInv`. A version of an outbox row is drawn by one
  claim, so that two claims that both still hold the row are the same
  (`ClaimInv`). A message that reached the broker stays somewhere, queued, in a
  handler, dead or recorded (`ReachedStays`); a publisher that has its confirm
  and still holds the claim is right about that (`ReceiptInv`), and only such a
  publisher marks the row published. `PublishedInv` is the conjunction.
- `RecordsCorrect`, `OneWritePerKey`, `RecordsTellWrites`, `AnswersAgree` and
  `RetriesAreReplayed` of the idempotent writes. `RecordInv` adds to the
  properties that whoever works on a key owns its lock (`LockInv`), so that the
  row it has seen is the row it replaces (`DraftInv`), and that a committed row
  never changes, so that an answer given once stays true (`AnswerInv`). For
  `RetryIsReplayed` a second invariant follows a request from the moment it is
  sent behind another one's answer (`SentAfter`): its view has the entity, so that
  its replay cannot miss it, and the record of its key is completed (`ToldOfRow`),
  so that nothing is in progress.
- `SessionsCorrect` of the device logins, every property of `session_rotation`
  and `session_access` from it (`ChainNeverBreaks`, `FamiliesDieWhole`,
  `LiveSessionsAreAuthorized`, `DeadCredentialsAreRefused`,
  `DoublePresentationsKill`), `SessionsTyped`, `StaleReadsAreHarmless` and
  `SessionsImplementFamily`. `SessionsProofs` shows that every step leaves the
  tables alone or is one of five transactions (a creation, an exchange, a
  revocation, a membership change with its revocations, an activation), and that
  a refresh with its locks is alone with its session (`LockInv`); this needs the
  references between rows (`ReferenceInv`). From there the second half of the
  module shows that a refresh that waited with a token nobody spent still sees the
  session and the membership as they are (`StateStays`), which is what makes its
  answer (`RefreshInv`) right, and that an access token carries an
  `authz_version` no newer than its membership's, so that one that is dead stays
  dead (`ValidationInv`). `SessionInv` is their conjunction.
- `SendsOnce`, `LateSwitchReserved`, `ReadersServedTheRecord`, `ReplacesExactly`
  and `ForwardOnly` of the publication, with its types. The argument has two
  layers. `Reservation` relates the state of a row to what the processes and the
  requests in flight are about to do: the process that has claimed a row is the
  only one between claim and acknowledgement, so that at most one switch leaves
  under it, and one in flight keeps the row `switching` and thereby the alias
  occupied. `Agreement`, for aliases that are switched by the journal alone,
  relates the target of the alias to the inventory through the row in between.
  `ForwardOnly` maps the aliases ever published outside to those the register
  has let go (`Counted`: a publication outside still under way is one of them).
- `RolloutCorrect`, `TransitionsAreWhole` and `AppliedMeansGranted` of the
  rollout. The properties are inductive but for what a claim in memory rests on
  (`ClaimsFit`): its tenants have a state row. That its transition was begun, or
  is still under way, is not known and not needed: state row and permissions are
  written in one transaction or refused together.
- `MembersCorrect`, `MembersTyped`, `LastOwnerRemains`, `AuthorityStaysCurrent`,
  `MembersJoinOnce` and `TasksSettleTruly` of the tenant. `MemberInv` says what a
  request knows at each step (`RequestsFit`): before the gate only that the roles
  it has read are current as long as the versions are, behind the checks
  everything they compared, because whoever is in a transaction holds the gate.
  Versions only grow, so an informed client's `expected` that equals the locked
  version equals the snapshot's too, and its target's role is the current one;
  of another client the proof assumes nothing.
  `InvitationsFit` and `OutboxFits` tie invitations and tasks to the requests
  that wrote them.
- `AccountsCorrect`, `NamesAreUnique` and `AccountsAreFound` of the identities.
  All rings contain the legacy version, so whoever works on a name holds its
  legacy lock and is alone (`LockInv`), but for writers of the previous release:
  these write the legacy version only, and are gone before any other is written
  (`DrainInv`). Hence what a registration has seen of its name stays true until
  it commits (`AbsenceInv`, `InsertInv`).
- `ConversationsCorrect`, `OneAnswerPerRequest`, `SettledTurnsStay`,
  `EndsAreTrue` and `HistoriesAreWhole` of the conversations, with their types.
  Turns only grow: one is appended, gets a piece or is settled, and only the
  last one, that of the lease, can be open (`LeaseInv`). So the snapshot of a
  start is an earlier state of the turns (`ViewInv`), which a start that finds
  the lease free and the keys unused has outrun by one settlement at most. A
  stream knows how much of its turn it has passed on even when somebody else
  settled the turn (`OwnTurnInv`), and an answer that is sent once more is that
  of a settled turn (`ReplayInv`).
- `ReviewsCorrect`, `ClaimsMatch`, `ReviewsAreOfTheFile` and `EndsAreFinal` of the
  contract reviews, with their types. `ClaimMatchesCall` and `ReviewedAsStored`
  are not inductive: a save writes what its call remembers, not what the row
  says. No step takes a row its file, its claim before its end, or its end
  (`Keeps`), and no step but a claim changes what a call works on (`Follows`).
  Hence the file a call took is the row's for as long as anything of the call
  lives (`CallInv`, `SaveInv`), the entries of the registry are calls behind
  their claim (`EntryInv`), and what is attached was stored before (`UploadInv`).
  The theorems are about `Spec`; the run starts from those of its initial states
  in which the uploads bring different files.

Each inductive invariant also holds of the instances that TLC checks: it was run
there before it was proved.

Only model-checked: the liveness properties (`RunsEnd` and the others stated
under fairness). Liveness under fairness and ENABLED are beyond the prover, as is
induction over data; no module proved about declares a RECURSIVE operator.

## 5. What is not modelled, and the plan

Retry, effects and maintenance of AI jobs have rows and columns but no code yet
(`src/docs/project-status.md`). Most of what is left of the source is without
state of its own: schemas, validation and wiring of the HTTP API, queries,
migrations, the text processing and the import of the corpus, prompts, parsers,
adapters of external services, scripts. What else `PROJECT.json` calls not
modelled or partly modelled is in this plan, in the order of what is at stake:

1. The single row locks of each unit of work. Read one after the other, all
   explicit locks of the security tables follow Tenant, Refresh, Session, User,
   Membership, Role, except that a login with several versions locks identities
   before users and an acceptance or the bootstrap the other way round; whether
   two of them can meet on the same rows is open. A victim of a deadlock is
   rolled back, which the models have as an abort.
2. Document versions against the object store, the activation of rule packs,
   the review of applications and the bootstrap administrator.
3. Departments and the roles of one department, the expiry of invitations,
   platform administrators.
4. The window of the rate limits and the embedding cache: each one atomic step
   of Redis or of one process.

Every invariant and every action property of the runs is proved. To be proved
next, as refinements of abstract specifications not yet written: the turns of a
conversation as a log that only grows and whose last entry alone is open, and a
review as a row that is claimed once and written once.

## 6. Running it

    tlc -workers 2 -config MCSessions.cfg MCSessions
    tlapm IdempotencyProofs.tla
