# TLA+ specifications of AI Operations Automation

The backend under `src/backend` is a FastAPI service over PostgreSQL. Every
mutation is one handler that opens a session, runs one or more transactions,
locks rows, checks guards, writes domain rows together with audit and outbox
evidence, and stores the outcome under an idempotency key. Several server
processes run the same code against one database. What makes it hard is what
happens *between* the statements of two such handlers, and between a commit and
the answer the client receives (or does not). These specifications model that.

Paths below are relative to `src/backend/src/ai_operations_automation`.

## The system

| Component | State it keeps | Operations | How it interacts |
| --- | --- | --- | --- |
| `command_idempotency` | `command_idempotency_records` (unique scope and key digest, Processing or Completed, stored response) | `reserve`, `complete` | called inside the caller's transaction by every command |
| `start_ai` | `service_requests` (version), `logical_operations`, `integration_attempts`, `attempt_callback_credentials`, audit, outbox | `StartAiInterpretationService.execute` | reserve, lock request, operation, attempts, write, complete, commit |
| `attempt_start` | `integration_attempts` (state, version, started_at), audit, outbox | `AttemptStartService.execute` | reserve, lock attempt, operation, request, siblings, credentials, write, complete, commit |
| `attempt_callback_auth` | none; it locks the attempt, its operation, request, siblings and credentials for its caller's transaction | `verify`, `assert_transaction_bound` | called inside a transaction its caller owns; the callback commands that will own it are documented but not in the code |
| `intake` | `accepted_intake_keys`, `inbound_deliveries`, `contacts`, `service_requests`, audit, outbox | `process_valid`, `process_rejected` | up to three transactions per call, public endpoint |
| `machine_auth` | `machine_request_nonces` (writes), identities and credentials (reads) | `authenticate` | a dependency of the two machine endpoints: it reads in one session and commits the nonce in another transaction, both before the command's transaction opens |
| `auth` | an in-memory key cache per process, shared by the threads that run its dependency | `verify`, actor and role lookup | runs before the protected query |
| `service_requests` | none | request detail query | read only |
| `config`, `app`, `api`, `db`, migrations | settings, engine, schema | construction, routing | compose the above |

The endpoints are `async def` and call the synchronous services directly, so one
process executes one command at a time; concurrency comes from several
processes. The exceptions are the `await` of the request body in machine
authentication, where another request may run, and the human authentication
dependency, a plain function that FastAPI runs in threads. Nothing in the code
retries; clients do.

The hard behaviours, each listed with its line in `PROJECT.json` under
`hazards`: races for a key between the lookup and the insert; a winner that
rolls back; a reservation object that outlives its transaction; a commit whose
answer is lost; lock-order inversion between the two machine commands;
timestamps taken before lock waits; a lookup and an insert in different
transactions; validation that depends on the serving release; copies of one
signed request that race or come back after their nonce was deleted; credentials
that end while a call is in flight; a nonce spent by a command that then fails;
a verified callback context used outside its transaction; a cache whose content
and age are assigned separately by several threads.

What makes each component correct:

* command idempotency: a key is executed at most once, its record is final, and
  every answer about it is read off that record;
* start AI and attempt start: evidence is atomic with the command record, no
  update is lost, one operation per input and configuration, one start per
  attempt and only by the assigned service, no wait for ever;
* intake: one request per key, a whole committed graph, a truthful outcome for
  every delivery;
* machine authentication: a signed request is accepted at most once, never when
  its signer had ended before it arrived, and refused only for a lasting cause;
* callback authentication: what a verified caller was told stays true until its
  transaction ends, an attempt gets one result, the current callback is served;
* key cache: a withdrawn key stops being accepted, a published one is found.

## Modules

| Module | Contents |
| --- | --- |
| `CommandOnce` | the abstract specification: one write-once ledger cell per key, answers read off the cell; implemented by `CommandIdempotency` and by `Intake` |
| `CommandIdempotency` | `CommandIdempotencyService` and the transaction around it, one step per SQL statement or transaction boundary |
| `AiExecution` | Start AI and attempt start over the rows they share; contains `CommandIdempotency` as an instance |
| `Intake` | the intake service and its endpoint |
| `MachineAuth` | `WorkflowServiceAuthenticator`: the two transactions of a call, the nonce table, the life of credentials |
| `MachineCommands` | the two machine endpoints as a whole: `MachineAuth` composed with `CommandIdempotency` |
| `CallbackAuth` | `AttemptCallbackCredentialVerifier` among the sessions that lock the same rows |
| `KeyCache` | `SupabaseJwtVerifier`'s key cache under threads |
| `CommandIdempotency_proofs`, `AiExecution_proofs`, `Intake_proofs`, `MachineAuth_proofs`, `MachineCommands_proofs`, `CallbackAuth_proofs`, `KeyCache_proofs` | theorems about the module of that name, checked by TLAPS |
| `AiEvidence_proofs` | theorems about what `AiExecution` leaves on record; extends `AiExecution_proofs` |
| `MCCommandIdempotency`, `MCAiExecution`, `MCIntake`, `MCMachineAuth`, `MCMachineCommands`, `MCCallbackAuth`, `MCKeyCache` | symmetry sets and constant values for TLC |

Definitions named in a comment as a *mutant* are plausible mistakes in the
definition they precede (a missing check, a missing lock). No specification
uses them; with the mutant in place of the definition, TLC finds the property
listed with it in `PROJECT.json` violated, which shows that the property
depends on that code.

### CommandIdempotency

A *worker* is a database session. `txn[w]` is what its open transaction is
doing: `pc` is the next statement, `own` the uncommitted record, `locked`
whether it holds the winner's row lock, `outcome` what will be answered.
`token[w]` is the reservation object the caller still holds, named by the
transaction that created it. `rows` are the committed records.

| Action | Code (`command_idempotency/service.py`) |
| --- | --- |
| `Open` | the caller's `session.begin()`, checked by `_require_outer_transaction` |
| `Lookup` | `reserve`, the first `_find`, then `_classify` |
| `Insert` | the savepoint flush that succeeds |
| `UniqueViolation` | the savepoint flush that raises `IntegrityError` |
| `ReadWinner` | `_find(lock=True)` and `_classify` of the winner |
| `Complete` | `complete` with all its writes |
| `RejectCompletion` | `complete` raising `ValueError`: not this session's, not this transaction's, or no longer Processing |
| `Commit`, `Raise` | the caller's transaction ends after a result, or by the `IntakeError` of a conflict or incident |
| `CommitIncomplete` | external: a caller that commits a reservation it never completed |
| `Respond`, `LoseResponse` | the client learns the outcome, or never does |
| `Abort` | a database error (503), an exception or a crash inside the transaction |

PostgreSQL at READ COMMITTED is external: a statement sees committed rows and
its own; an insert waits for another transaction's uncommitted row of the same
unique key (`InFlightElsewhere`); `FOR UPDATE` waits for the holder. *Careless*
workers are callers that commit without completing and keep their reservation
object, which the service's guards exist for. The production callers are
careful: `AiExecution` and `MachineCommands` instantiate the module with an empty
`Careless`.

### AiExecution

A step is a statement that can wait (`SELECT ... FOR UPDATE`) together with the
guards that follow it up to the next such statement. `run[w]` holds the step,
the transaction's `now()`, the AI configuration of the process and the row locks
held. `Wants(w)` are the rows the next statement asks for, `Blockers(w)` the
sessions that hold them. The first failing guard decides the command, which is
recorded with `Idem!Complete` in the same step. Rows are written when the
transaction commits (`CreateWork`, `StartWork`): everything updated is locked
before, and nobody else reads inserted rows, so earlier visibility cannot be
observed. A failure between two flushes of the handler is an `Abort`:
PostgreSQL rolls all of them back, and the flushes are not steps of the model. So
`EvidenceIsAtomic` and `OperationGraph` are about what belongs to the
transaction, not about the order of the writes within it.

Ids of the operation, the attempt and the command coincide (three random UUIDs in
the code).

| Action | Code |
| --- | --- |
| `LockRequest`, `LockOperation`, `LockAttempts` | `start_ai/service.py` 140-167, 169-209, 376-409 |
| `LockAttempt`, `LockOwnOperation`, `LockOwner` | `attempt_start/service.py` 116-139, 141-147, 148-321 |
| `CreateWork`, `StartWork` | the writes of 187-339 and 317-379 |
| `Commit`, `Raise`, `Abort`, `Deliver`, `LoseResponse` | the idempotency action of that name plus release of the locks |

Three actions are external. `Tick` moves database time. `LeaveTriage` and
`Conclude` stand for the commands the documentation specifies and the code does
not have yet: moving a request out of `TriagePending` and recording an attempt's
result. They obey the row locks. `DeadlockVictim` is PostgreSQL aborting a
member of a wait cycle; the handler answers 503.

The credential of an attempt is not a variable: Start AI creates exactly one,
nothing replaces it yet, so the credential-history checks of attempt start hold
by construction and its expiry equals the attempt's deadline. The request's
text has no writer either, so the input hash of a request is constant. The id
of an attempt is random: a client names it only after the transaction that drew
it has ended (the guard of `Open`).

### Intake

`call[w]` is one handler: the lookup transaction, the transaction that inserts
the reservation with the delivery, contact and request, and the transaction
that reads the winner after a unique violation. The endpoint's order matters:
`Receive` validates with the rules of the release that serves the call, and only
then is the key looked up. `Rulesets` are the sets of bodies the running
releases accept. `known` is a history field: the reservation that was committed
when the call arrived.

### MachineAuth

`call[h]` is one handler: `now` its process clock, read once before the body is
awaited, `received` the nonce transaction's time. A *request* is what a client
signed: a nonce, a timestamp and the credential version used. Any copy of it
may arrive at any time. Process clocks may be off by `Drift`.

| Action | Code (`machine_auth/authenticator.py`) |
| --- | --- |
| `Receive` | 87-117: the clock, `validate_timestamp`, the wait for the body |
| `ReadIdentity`, `ReadCredentials` | 118-169: the two statements of the reading session, and the comparison with each candidate's secret |
| `BeginNonce`, `InsertNonce`, `RefuseNonce`, `CommitNonce` | 170-199: the nonce transaction |
| `Return`, `Abort` | the context or the 401; a 503 or a crash |

External: the operators (`Rotate`, `Revoke`, `Disable`), the documented deletion
of old nonces (`Purge`) and time. A request whose timestamp is stale is never
received: it is answered before any state is read.

The code keeps a nonce for `nonce_retention_seconds` from the *process* clock at
the call's arrival, and its settings require only that this exceed the skew. A
timestamp may lie a full skew ahead of that clock, so a nonce can expire while
its request is still in the window. Nothing in the code deletes nonces, so this
is not a bug today; `MarginAssumption` states what a deletion must respect
(`2 * Skew + Processing` after the expiry) for `AcceptedOnce` to hold, and TLC
finds the replay when the margin is too small.

### MachineCommands

`Execute` is the point between the two components: `authenticate` has returned,
its nonce is committed, and the command opens a transaction of its own under the
`Idempotency-Key` header, which the signature does not cover. Every failure
between the two is a behaviour of the module. `opened` is a history field: which
request each command transaction serves.

### CallbackAuth

`call[c]` is one callback transaction: what it was called with, its `now()` and
its row locks. One step is one `SELECT ... FOR UPDATE`, with `Wants` and
`Blockers` as in `AiExecution`. The sibling query locks its rows together; the
real statement takes them in order, which only adds waits of the kind modelled.

| Action | Code (`attempt_callback_auth/verifier.py`) |
| --- | --- |
| `LockAttempt`, `LockOperation`, `LockRequest`, `LockSiblings` | 100-129 |
| `LockCredentials`, with `Verdict` | 130-244 and `_validate_graph`, 246-275 |
| `Conclude`, `Carry`, `RejectContext`, with `Bound` | a caller and `assert_transaction_bound` (`models.py`) |

External: the result callback that uses the context (`Conclude`), and the
commands that create what it meets: `StartAttempt`, `Retry`, `Replace`,
`Revoke`. They are as the contracts describe them and obey the row locks.

### KeyCache

`call[t]` is one thread in `verify`. `keys` and `loadedAt` are the two attributes
of the shared verifier. `CheckCache`, `Fetch`, `Install`, `Stamp` and `Get` are
the reads and assignments of `_key` in their order; the fetch is a
call to the provider and takes up to `MaxLoad`. `known` and `overwritten` are
history fields.

## Runs

All bounds are constants: `MaxTx` and `MaxCalls` cap the transactions or calls of
a behaviour, `MaxClock` the clock, `MaxVersion` the credential versions,
`MaxAttempts` the attempts. Deadlock checking is off in every configuration
because a behaviour legitimately ends once the caps are reached and every
session is idle.

| Run | Instance | Shows |
| --- | --- | --- |
| `idem_service` | 3 sessions, one careless, 1 key, 2 bodies, 2 snapshots, 3 transactions | `TypeOK`, `ReservationExclusive`, `RaceLoserFindsWinner`, `AnswersAgree`, `CommittedIsFinal`, `ImplementsOnce`, `EveryCommandEnds` |
| `ai_commands` | 2 processes, 1 request, 1 service, 2 keys, 2 configurations, 3 transactions, clock 0..1 | `TypeOK`, `EvidenceIsAtomic`, `AuditTrailComplete`, `OperationGraph`, `StartRecordedInWindow`, `OneOperationPerWork`, `StartedOnce`, `AttemptsMoveForward` |
| `ai_liveness` | 2 processes, 2 services, 1 key, 3 transactions, no external writers | `StartedByAssignee`, `EveryCommandEnds` |
| `ai_wait_cycle` | 2 processes, 2 services, 2 configurations, 3 transactions | `NoWaitCycle` is violated |
| `ai_late_start` | clock 0..1, 2 transactions | `StartsBeforeDeadline` is violated |
| `intake_calls` | 3 handlers, 1 key, 2 valid bodies and 1 invalid, 3 calls | `TypeOK`, `GraphComplete`, `ConflictJustified`, `LaterCallsSeeAcceptance`, `RaceLoserFindsWinner`, `AcceptancesAgree`, `ImplementsOnce`, `EveryCallEnds` |
| `intake_revalidation` | two releases side by side | `ReplayIgnoresCurrentRules` is violated |
| `machine_auth` | 2 handlers, 2 signed requests with one nonce, 2 credential versions, clock 0..4 | `TypeOK`, `EndedSignerRefused`, `RefusedForCause`, `AcceptedOnce` |
| `machine_commands` | 2 handlers, a command and its retry under one key, 3 transactions | `OneCommandPerRequest`, `RetriesAgree`, `EveryRequestEnds` |
| `callback_auth` | 2 callers, 2 attempts, 2 credential versions, clock 0..1 | `TypeOK`, `AuthorityHolds`, `SettledOnce`, `CurrentCallbackServed`, `EveryCallbackEnds` |
| `key_cache` | 2 threads, 2 key ids, clock 0..5 | `TypeOK`, `RefusedForCause`, `WithdrawnKeyExpires` |
| `key_refresh` | the same | `PublishedKeyIsFound` is violated |

Why the bounds suffice.

* `idem_service`: the races need at most three sessions: a winner, a waiter, and a
  retry that meets the outcome. Keys interact only through a reservation
  presented for another key, which one key cannot show; `CommittedRowsAreFinal`
  and `AnswersRestOnCommits` cover it, being proved for every set of keys.
* `ai_commands`, `ai_liveness`: one transaction creates work, and a second and a
  third make every pair of competing commands on it, the deadlock included. One
  tick separates transactions, and with a window of one it reaches the deadline.
  The service an attempt is assigned to matters only for `StartedByAssignee`,
  which has the run with two.
* `intake_calls`: keys never meet (every row of a call hangs off its own key).
* `machine_auth`: two copies are enough for a race, and a clock of four lets a
  nonce be written, expire, pass its margin, be deleted, and its request come
  back at the last moment of its window. The second request reuses the nonce
  under the next version, so a rotation and the overlap both happen.
* `machine_commands`: only the order of the two transactions is at stake, which
  `machine_auth` leaves open, so its clock stands still; everything clocks do to
  a nonce is in that run and in the proofs.
* `callback_auth`: two attempts are a failed one and its retry, which is every way
  an attempt can contradict another. The first deadline is one or two ticks away,
  so a call can begin before it and end its wait at it. Another service is refused
  before it has any effect: `LockAttempt` is the only step that tests it.
* `key_cache`: two threads make every overwrite. With a cache time and a load of
  one, the stale key of `WithdrawnKeyExpires` would have to be accepted at time
  five, which the clock reaches.

### Fairness

`Progress` (weak) says that a process goes on executing its handler. Inserts and
locking reads get strong fairness: they are enabled only while nobody holds the
key or the row, and PostgreSQL serves waiters in queue order, so a waiter that is
enabled again and again proceeds. In `AiExecution`, where every handler step may
wait for a row, the whole handler is strongly fair, and the deadlock detector is
weakly fair: it runs after `deadlock_timeout` and always fails one member of a
cycle. `CallbackAuth` has the same two assumptions, where the strong one includes
the caller's own progress with a context it was given. `MachineCommands` has weak
fairness for a handler's own steps and strong fairness for the two that wait for
another session: the nonce insert, and the command's insert or read of the
winner. `MachineAuth` and `KeyCache` state safety only. Opening commands, crashes, lost responses, the clock and the external
writers are never assumed to happen.

### Disagreements with the documentation

* `NoWaitCycle`: ADR 0004 asks multi-aggregate commands for careful lock
  ordering. Start AI locks request, operation, attempts; attempt start locks
  attempt, operation, request. A second Start AI for a request and the start of
  its attempt can each wait for the other.
* `StartsBeforeDeadline`: the API contract lets a start succeed only while the
  callback context remains valid. The handler evaluates that guard after its last
  locking read, but compares the expiry with `now()`, the start of its
  transaction. The property compares the deadline with the clock in the very step
  that evaluates the guard (`LockOwner`), and makes no claim about the time of the
  commit: with `clock` for `run[w].now` in that step, which is what
  `clock_timestamp()` would read, TLC finds no violation on the same instance.
* `ReplayIgnoresCurrentRules`: the API contract returns the original result of an
  accepted replay without re-running current validation. The endpoint validates
  first, so while (or after) a release with a narrower rule is deployed, an exact
  retry of an accepted body is answered `409 IDEMPOTENCY_CONFLICT`.
* `PublishedKeyIsFound`: an unknown key id forces one refresh
  (`test_auth_unit.py`). The thread that refreshes looks its key up in whatever the
  shared attribute then holds, so another thread whose older document arrives in
  between makes a correctly signed token fail with 401.

Met while modelling, and not the subject of a run:

* A late callback for an attempt that has already succeeded, or whose operation
  has moved to a retry, meets `_validate_graph` before the state check and is
  answered as an inconsistent graph (500), where the API contract describes a
  refusal.
* A call in flight across a rotation finds a credential activated after the time it
  read at its arrival and is answered 401, although its signer is within the
  overlap; `RefusedForCause` lists the case.
* A nonce may expire within its request's window (see `MachineAuth` above).
* Two callbacks for two attempts of one operation lock each other's attempts in
  opposite orders, so PostgreSQL may have to break a deadlock between them;
  `EveryCallbackEnds` rests on that.

## Proofs

`CommandIdempotency_proofs` proves, for all values of the constants that satisfy
the module's assumptions:

| Theorem | States |
| --- | --- |
| `TypeCorrect` | `Spec => []TypeOK` |
| `AtMostOneReservation` | `Spec => []ReservationExclusive` |
| `AnswersRestOnCommits` | `Spec => [](AnswersAgree /\ ConflictJustified)` |
| `WinnerIsFound` | `Spec => []RaceLoserFindsWinner` |
| `CommittedRowsAreFinal` | `Spec => CommittedIsFinal` |
| `ServiceImplementsOnce` | `Spec => ImplementsOnce` |
| `NoIntegrityIncident` | `Careless = {}` implies `Spec => []NoIncident` |

None of these invariants is inductive. The inductive invariant `IInv` adds to
`TypeOK`:

* `Identities` - transaction ids are unique among open transactions and never
  exceed `lastTx`, so a new record's id differs from every earlier one; without
  it two records could share an id and an update would hit the wrong one;
* `Calls` - what a session at each program point owns and has decided, and
  which record a held reservation names;
* `Exclusive` - two live records of one key are one record, stated per owner;
* `RaceFound` - a session that lost the race has a committed winner;
* `Outcomes` - a decided or delivered answer is justified by a committed record,
  or by the session's own record if it is about to commit.

Each action preserves `IInv` by a lemma of its own; the theorems follow with
temporal reasoning, and the refinement from `IInv` by mapping every action
either to `Record`, `Reply` or a stutter of `CommandOnce`. The assumptions used
are those of the module: `Careless` is a set of workers, `MaxTx` is a natural
number, and `None` is not a key, body or snapshot. `ConflictJustified` and
`NoIncident` are proved only: no run repeats them.

`MachineAuth_proofs` proves, for every number of handlers, requests and versions
and for every window, retention, drift and margin that satisfy the assumptions:

| Theorem | States |
| --- | --- |
| `TypeCorrect` | `Spec => []TypeOK` |
| `RequestAcceptedOnce` | `Spec => AcceptedOnce` |
| `EndedSignersAreRefused` | `Spec => []EndedSignerRefused` |
| `RefusalsAreCaused` | `Spec => []RefusedForCause` |

The invariant of the first two adds to `TypeOK`:

* `CallsFresh` - a call in flight passed the window by its own clock, which is
  within the drift of a time that has passed;
* `TransactionsYoung` - a nonce transaction is no older than `Processing`;
* `InsertsUnique` - two handlers that have inserted are inserting different nonces,
  none of them recorded;
* `RowsRetained` - a nonce in the table expires `Retention` after a clock reading
  at which its request was in the window;
* `SpentRemembered` - the nonce of a spent request is still in the table, or so much
  time has passed that no clock within the drift, nor a call already in flight, can
  hold the request fresh.

The last one is why `AcceptedOnce` holds after a deletion and cannot be stated
without the three before it. `EndedSignersAreRefused` has its own invariant,
`SignerInv`: a call whose version had ended when it arrived is still before the read
that will refuse it, or was refused, and what that read will find (a disabled
identity, a withdrawn credential, an overlap that is over) has stayed true, because
credentials never come back. `RefusalsAreCaused` rests on `CauseInv`: at most one
version is `Current` (`OneCurrent`), so the count the code takes of them fails only
when there is none; a version that was never activated has no request in flight
(`SignersKnown`, `Unactivated`); only spent requests have rows (`RowsSpent`). A call
refused because no version was `Current` keeps a cause when a later rotation ends
that: the same rotation retires its signer's version, if it was not withdrawn before.

`MachineCommands_proofs` proves, for every number of handlers, requests and keys:

| Theorem | States |
| --- | --- |
| `UsesAuthentication` | `Spec => Auth!Spec` |
| `UsesIdempotency` | `Spec => Idem!Spec` |
| `OneCommandForEachRequest` | `Spec => []OneCommandPerRequest` |
| `SignedRetriesAgree` | `Spec => []RetriesAgree` |
| `EveryRecordIsSigned` | `Spec => []RecordsAreSigned` |
| `EndpointsAcceptOnce` | `Spec => Auth!AcceptedOnce` |
| `EndpointsImplementOnce` | `Spec => Idem!ImplementsOnce` |

The composed module takes only steps its two components allow (the first two
theorems), so their inductive invariants hold of it and their step lemmas are cited
by name. What the composition adds is `Served`, who serves which request: an accepted
call's request is spent, serves no transaction yet and is held by no other handler
(`AcceptedHeld`), because a call becomes accepted only by committing a nonce that was
never committed before; and `Signed`: behind every open transaction and every
committed row is the one request opened for it, with the body that was signed.
`RecordsAreSigned`, stated in the proof module, says of the committed rows that each
stands for exactly one request, spent, with the row's body: a failure between the
two transactions can lose a command but not make one up. TLC checked `Signed` on the
instance of `machine_commands`, and on one with two different bodies, before the
proof. The assumptions are those of the two modules, restated by name in
`MachineCommands`, and that a request carries a body.

`AiExecution_proofs` proves, for every number of sessions, requests, services, keys
and configurations:

| Theorem | States |
| --- | --- |
| `CommandsUseIdempotency` | `Spec => UsesIdempotency`: the commands take only steps of `CommandIdempotency`, so its theorems hold of them |
| `WorkIsCreatedOnce` | `Spec => []OneOperationPerWork` |
| `AttemptIsStartedOnce` | `Spec => []StartedOnce` |
| `AssigneeStarts` | `Spec => []StartedByAssignee` |
| `StartsAreInWindow` | `Spec => []StartRecordedInWindow` |
| `AttemptsNeverMoveBack` | `Spec => AttemptsMoveForward` |

Its invariant takes `IInv` of the idempotency service, instantiated with the
variables of `AiExecution`, and adds:

* `Typed` - the shapes of the rows, the clock and the sessions;
* `LocksExclusive` - no row is locked by two sessions;
* `Sessions` - what a session at each step holds, and that what it decided still
  agrees with the rows it has locked; without it the step that writes could not rely
  on guards evaluated statements earlier;
* `AttemptIds` - no two attempts share an id, and each is that of a transaction that
  has ended;
* `StartsOnRecord` - an attempt that a committed command recorded as started is no
  longer `Pending` and belongs to that command's service;
* `TimesOrdered` - transactions begin in the order of their ids, so a session that can
  name an attempt did not begin before that attempt's own transaction.

`AiEvidence_proofs` proves, over the same constants, what those commands leave on
record:

| Theorem | States |
| --- | --- |
| `RowsAreTyped` | `Spec => []TypeOK` |
| `EvidenceCommitsWithRecord` | `Spec => []EvidenceIsAtomic` |
| `TrailIsComplete` | `Spec => []AuditTrailComplete` |
| `RowsAreConsistent` | `Spec => []OperationGraph` |
| `SuccessesAreTrue` | `Spec => []AnswersAreTrue` |
| `CommandsImplementOnce` | `Spec => Idem!ImplementsOnce` |
| `CommandsLeaveNoIncident` | `Spec => []Idem!NoIncident` |

The first four share `TrailInv`, inductive together with the `IInv` of
`AiExecution_proofs`:

* `VersionsHeld` - a session that goes on from the request's lock still sees the
  version its client expects, and a request in triage; without it the event it writes
  might repeat a version;
* `VersionsCounted` - a request's version is the number of its operations, plus one
  while it is in triage and two after: each operation raises it by one, and so does
  leaving triage. With the bound on transactions it bounds the versions `TypeOK` allows;
* `VersionsOfStates` - an attempt's version is that of its state, so no two changes
  of it write the same version;
* `RowsLinked` - an operation has the attempt of its own id and refers only to that
  attempt's success;
* `CreationsWitnessed`, `StartsWitnessed`, `EventsWitnessed` - a stored 202 and its
  operation, a stored 200 and its event, an event and its record, each way;
* `EventsOwned`, `RequestTrails`, `AttemptTrails`, `OutboxCarries` - every event is of
  a row that exists, and each row's events are one per version.

`RowsAreConsistent` is why the handlers' branches for an operation without attempts,
or with a success that is not among them, are dead code. `AnswersAreTrue`, stated in
the proof module, says that a success a client was given, first hand or replayed, is
borne out by the rows for ever: a 202 by an operation of the request it named, a 200
by an attempt of its own service that has left `Pending`, each with the event of
exactly the version it reports. It needs `ToldInv`: the version a session is about
to report is the one its command writes. TLC checked it on the instance of
`ai_commands` first. The last two carry the promises of the idempotency service over
to the two commands.

The proofs use the module's assumptions; `NoneAssumption` says that the value for
an absent column is none of the commands, versions, codes, results or rows it stands
beside.

`Intake_proofs` proves, for any sets of handlers, keys, bodies and releases:

| Theorem | States |
| --- | --- |
| `TypeCorrect` | `Spec => []TypeOK` |
| `GraphIsComplete` | `Spec => []GraphComplete` |
| `AnswersAgree` | `Spec => []AcceptancesAgree` |
| `LaterCallsBound` | `Spec => []LaterCallsSeeAcceptance` |
| `RaceLosersFindWinner` | `Spec => []RaceLoserFindsWinner` |
| `ConflictsAreJustified` | `SingleRelease => (Spec => []ConflictJustified)` |
| `IntakeImplementsOnce` | `SingleRelease => (Spec => ImplementsOnce)` |

Its invariant says that the committed rows form whole graphs with unused ids
(`Rows`), that an answer, and the delivery a handler is about to commit or answer,
agrees with the reservation of its key (`Answered`, `Calls`), and that open calls have
ids of their own and open inserts keys of their own (`Apart`). Because reservations are
never removed, what was true of a pending delivery when it was decided
(`Truthful`) is still true when it is answered. The last two theorems need
`SingleRelease`: all running releases validate alike. Then a second invariant,
`ReleaseInv`, says that no reservation holds a body that does not validate, which is
why a body rejected by validation differs from its key's accepted one. The run
`intake_revalidation` shows what happens without the assumption.

`CallbackAuth_proofs` proves, for any numbers of callers, attempts and credential
versions and any clock and window:

| Theorem | States |
| --- | --- |
| `TypeCorrect` | `Spec => []TypeOK` |
| `VerifiedAuthorityHolds` | `Spec => []AuthorityHolds` |
| `AttemptsSettleOnce` | `Spec => []SettledOnce` |
| `CurrentCallbacksServed` | `Spec => []CurrentCallbackServed` |

The invariant adds to `TypeOK`: `LocksExclusive`; `AttemptsInOrder`,
`CredentialsInOrder` and `ResultsOnRecord`, which relate the states of an operation's
attempts, of an attempt's credentials and of its result; and per session `Holds` (the
rows locked at each step), `Authority` (what a verified caller was told is still so,
because it holds those rows) and `Refusal` (why a refused caller was refused: for a
reason that lasts, or seen under a lock it still holds).

`KeyCache_proofs` proves, for any numbers of threads and keys and any cache and load
times:

| Theorem | States |
| --- | --- |
| `TypeCorrect` | `Spec => []TypeOK` |
| `WithdrawnKeysExpire` | `Spec => WithdrawnKeyExpires` |
| `RefusalsHaveCause` | `Spec => []RefusedForCause` |

Its invariant bounds the age of everything a thread can still act on: what the cache
holds was published no longer than two loads before its time stamp (`CacheInv`), and
a document fetched, or a key found, by a thread was published no longer than a fixed
time before that thread checked the cache (`Timed`, `Outdated`). `Searching` follows a
published key from the document into the cache, unless another thread's document
replaced it.

Every invariant and every action property of the passing runs is proved, and so are
the refinements. Only model-checked are the liveness properties (`EveryCommandEnds`
of `CommandIdempotency` and of `AiExecution`, `EveryCallEnds`, `EveryRequestEnds`,
`EveryCallbackEnds`): fairness and `ENABLED` are outside the prover's reach.

## Not modelled

* Hash functions, canonical JSON and query forms, key and header syntax, token
  parsing and claims, response schemas, safe snapshot validation: pure functions of
  one input; bodies, keys, signatures and snapshots are values that are equal or
  not.
* The role lookup of human authentication and the detail query: single reads without
  state, each in a session of its own, with no second read to disagree with.
* `config`, `app` and the routers: construction and wiring. The settings' relations
  that matter are assumptions of the modules (`RetentionAssumption`).
* Migrations: the schema they leave is the models' (`db/models`), whose unique and
  check constraints appear as guards or in the type invariants; upgrade and downgrade
  run alone.
* Publication of the outbox, the callback commands, credential replacement and
  revocation, rotation and nonce deletion: not implemented in the code; external
  actions where a component meets their effects.

## Plan

1. (done) `CommandOnce`, `CommandIdempotency`, `AiExecution`, `Intake`.
2. (done) `MachineAuth`, `MachineCommands`, `CallbackAuth`, `KeyCache`.
3. (done) Proofs of every module: the invariants and action properties of the passing
   runs, and the refinement of `CommandOnce` by the service, intake, the two commands
   and the composed endpoints.
4. Left to prove: abstract specifications of an attempt's life (assigned, started,
   settled once) and of a nonce ledger, and their implementation by `AiExecution` with
   `CallbackAuth` and by `MachineAuth`.
