# Verification of the Fnet services backend

TLA+ models of the backend under `src/app/` (FastAPI, SQLAlchemy on PostgreSQL,
Redis Streams, FortiGate devices over REST), model-checked with TLC on small
instances and proved with TLAPS for every instance. All components that keep state
are modelled, and all safety properties of the runs are proved.

## The system

| Component | State | Operations | Talks to |
|---|---|---|---|
| Event bus (`infrastructure/brokers`, `core/events`) | three Redis streams, the consumer group's positions and pending entries | publish (XADD), read (XREADGROUP), dispatch to handlers, acknowledge (XACK), start, stop | every service publishes; handlers of activity, auth, users consume |
| Activity log (`activity`) | `activity_logs` | one row per event (`*` handler), queries | bus |
| Clients (`clients`) | `clients`, `client_technicians` | create, update, delete, assign technicians | users (are the technicians active), bus |
| Devices (`devices`) | `devices` | register (probe, root VDOM), update, delete | clients, vdoms, FortiGate, bus |
| VDOMs (`vdoms`) | `device_vdoms` | create, update, delete, synchronise with the hardware, ensure root | devices, clients, FortiGate, bus |
| Start-up (`main.py`, `infrastructure/db`, seeders) | all tables once | create tables, seed credential, benchmarks, permissions, superuser; start the consumer | database |
| Accounts (`auth`, `users`) | `auth_credentials`, `users`, roles, permissions | register, log in, Google, log out, administer users and roles | bus, each other |
| Hardening (`hardening`) | rule catalogue, profiles, reports, findings | audit a device or VDOM, query, export | devices, vdoms, FortiGate |
| Backup audit (`hardening/parsers`, `/hardening/backup`) | none | parse an uploaded backup, evaluate the rules | rule engine |
| Core (`core`) | none | settings, tokens, encryption, permission checks | all |

A request has one database session (`get_db`), which is closed without a commit:
what a service does not commit itself is rolled back. `autoflush` is off and
`expire_on_commit` is off. All services run in one asyncio process and every
`await` is a point where another request may go on. An event is published after
the commit of the change it tells of, in a separate system, so either may fail
without the other. The consumer is a task of the same process; the container is
restarted always, and during a deployment two processes share the consumer group.

What is hard here: the commit and the acknowledgement of an event are two steps;
the Redis pool sends a timed-out command again; check-then-insert across awaits
against unique indexes and foreign keys; row locks held while waiting for hardware
or Redis; stale objects in the session; start-ups that die half-way. Each is listed
in `PROJECT.json` under `hazards` at its line, with the properties that watch it.

What makes each component correct:

- Bus and activity log: a stream entry is logged at most once, is acknowledged only
  after its row is committed, is handled by one process, in stream order; no entry
  blocks the others; a lost entry can be found again or was trimmed.
- Inventory: keys and references hold; a request commits all of its change or
  nothing; a synchronisation, which commits VDOM by VDOM, leaves nothing that the
  device did not report and is complete when it succeeds; events tell the truth; a
  device is born with its root VDOM; VDOMs are linked only to clients that have been
  active; a request does not undo another's columns; nobody waits for ever.
- Technicians: the list is replaced in one step; nobody twice; the last list counts.
- Start-up: whatever was started before and wherever it failed, a process that
  serves has the data of its own release.
- Hardening: a report is whole, is about the partition it names, and its score and
  totals agree with its findings.
- Backup audit: what is read is what the nesting of the backup says, wherever the file
  ends and whatever other sections it has.
- Accounts: the trail of login attempts agrees with their answers; a Google identifier
  names one account, which has proven its address; roles that are assigned are stored
  (they are not, see below); every request is answered.

## Modules

| Module | Models | Composes / used by |
|---|---|---|
| `EventLog` | what the pipeline promises: an event that reaches the bus is logged at most once, or lost | refined by `EventPipeline` |
| `EventPipeline` | publisher, streams, consumer group, consumer processes, handlers | `INSTANCE EventLog` with the refinement mapping |
| `EventPipelineProofs` | types, inductive invariant, at-most-once, commit before acknowledgement; the refinement of `EventLog`, loss, order, credentials | extends `EventPipeline` |
| `Inventory` | clients, devices and VDOMs under concurrent requests | |
| `InventoryProofs` | types, keys, all-or-nothing, links; events, root VDOMs, synchronisation, concurrent updates | extends `Inventory` |
| `TechnicianAssignment` | `client_technicians` under concurrent requests, statement by statement | |
| `BootSeeding` | `init_db` and the seeders over releases, failures and restarts | |
| `HardeningAudit` | audits of one device, the rule engine's scores, deletions of its VDOMs | |
| `Accounts` | registration, logins, administration of users and roles, the handler that provisions credentials | |
| `BackupAudit` | a backup as the device writes it, the parser, the endpoint that audits it | |
| `TechnicianAssignmentProofs`, `BootSeedingProofs`, `AccountsProofs` | their theorems | extend the module they are named after |
| `FoldLemmas` | what folds over finite sets and sequences compute | used by the next two |
| `HardeningAuditProofs`, `BackupAuditProofs` | their theorems | extend `FoldLemmas` and the module they are named after |
| `MC*` | constants of the runs | extend the module they are named after |

### EventPipeline

`streams` (entries with their trimmed prefix), `delivered` and `pending` (the
group), `rows` (committed activity rows), `creds`, and per process `pc`, its batch
and the open transaction. `Publish` is `RedisStreamPublisher.publish`; `Boot` is
`lifespan` up to `create_task` with `_ensure_consumer_groups`; `Read` one
XREADGROUP and the loop over its response; `RecordActivity`, the specific handler,
`Commit`, `Ack` the steps of `_process_message`; `Fail` its swallowed exception. The
faults (`PublishFault`, `ReadFault`, `DatabaseFault`, `CommitAnswerLost`,
`AckFault`, `WorkerFault`, `BootFault`) are what time-outs, the retrying pool, a
failing database and a dying process do; a budget `MaxFaults` bounds them.
The bus is open: an entry can come from any producer and stays after a release, so
the handlers of `auth.user_registered` and `user.created_by_admin` are exercised
although no service call of this commit gets far enough to publish these two
(`AuthCredential` is created without its `id`, `BaseRepository.create` is given an
ORM object).

### Inventory

`clients`, `devices`, `vdoms` are the committed tables; per request `pc`, its
operation, the changes it has flushed and not committed. An operation is a first step
(`CreateDevice`, ...: lookups and checks up to the first await that matters),
the steps that flush, commit and reload, and `Publish`. Uncommitted rows hold their
unique keys and locks: an action that needs one waits (`Locked`, `HostHeld`, ...).
`Abort` is any exception or crash: the session is rolled back. Abstractions: one
name stands for the unique columns name and tax id; an update changes one column
at a time; a new row is named after the request that made it, as its uuid is fresh;
a request does one operation; the probe answers any serial number or none.

### TechnicianAssignment

The DELETE and the INSERT of `set_assigned_technicians` row by row at READ
COMMITTED: the snapshot of the DELETE, row locks, undecided entries of the primary
key, the deadlock detector. A row is its user and the request that inserted it.

### BootSeeding

`db` are the committed tables, `work` what the session would commit. One action
per seeder step, in the order in which `main.py` imports the seeders; `SyncCatalog`
commits in the middle, as `sync_rule_catalog` does. Each start may be of any release,
which fixes the benchmark files; content of a rule is the release that wrote it.

### HardeningAudit

`vdoms` and `reports` are committed; per request `job` holds what `run_audit` and
`execute_audit` have read. `AuditVdom`, `AuditDevice`, `AuditOffline` resolve the target,
`SelectRules` the rules, `Fetch` asks one endpoint, where an error of any kind leaves
no data, `FlushReport` evaluates and inserts the header under its foreign key,
`CommitReport` the findings. The device's answer is abstracted to the evidence the
operators extract from it: for each rule how many units are met, or why none is
counted. Scores are hundredths of a percent. The rule engine (`EvaluateRule`,
`Classified`, `Scores`, `Summary`) is a set of operators; rounding takes either
neighbour at a tie. With very many units a mean of less than 100 % rounds to 100.00 although
a rule is only partly met; `ScoreAgrees` excludes that case by name (`Distinguishable`: no
rule has so many units, and there are not so many rules, that one unit is less than a
hundredth of a percent of the score). The endpoint for a backup file stores nothing and is in `BackupAudit`;
the report's other references (device, profile, user) are left out.

### Accounts

`creds` and `roles` are committed tables, `bus` the events, `tokens` the access tokens
issued; per request `pc` and `job`. A user is its id and never changes its address.
`Login` is `authenticate_user` up to its first publish, `GoogleLogin` with `FindByEmail`,
`Link` and `CheckLinked` the steps of `authenticate_google_user` between its awaits,
`Publish` and `PublishFault` the event each of them waits for before it goes on,
`IssueToken` the answer. `Authorize` is `get_current_user` with `PermissionChecker`;
`CreateUser` and `UpdateUser` end as the code does, with an exception inside
`BaseRepository`; `FlushRoles` writes the roles, holds their rows and never commits.
`ProvisionCredential` is the consumer's handler. Passwords, hashing, signatures and
Google's verification are outcomes.

### BackupAudit

The device writes the backup line by line, well nested (`OpenSection`, `OpenEntry`,
`Setting`, `CloseEntry`, `CloseSection`), and `Upload` may take it at any moment, so the
file may end anywhere. `FlatLine` and `TableLine` are the bodies of the parser's two loops,
folded over the lines; `Status` the check of one key in every entry; `Said` reads the
same text by its nesting and is the reference the parser is compared with: it counts the
depth of every line from the header of its section (`Depth`, `Body`) and takes of each entry
(`Entries`, in order by `Place`) the last value of each key that is not nested deeper
(`Meaning`). It has no memory of its own and shares nothing with the parser. One section of
entries and one of settings stand for the three that the parser reads (their loops are
the same two), one for all that it does not.

## Runs

| Run | What it asks | Bounds |
|---|---|---|
| `pipeline_two` | at most once, commit before acknowledgement, one process per entry, traceable credentials and losses, refinement of `EventLog`; the inductive invariant of the proofs | 2 processes, 3 events, batches of 2, 2 faults |
| `pipeline_one` | stream order; every entry settles | 1 process, 3 events, batches of 2, streams of 2 (so trimming happens), 2 faults |
| `pipeline_dup` | *violated*: one row per `event_id` | 1 fault |
| `inventory_two` | keys, all-or-nothing, truthful events, links, column updates, device and root together, synchronisations complete or half done, liveness | 2 requests of all ten operations, 1 client and 2 devices at the start, 2 names, 3 hosts, root and one more VDOM |
| `inventory_deleted` | *violated*: a device whose deletion was announced is gone | 1 request |
| `technicians_two` | one row each, last list included, atomic, answered | 2 requests, 3 users of which 2 active, any subset of 2 users assigned at the start |
| `boot_releases` | a serving process has its release's data, from the second start on the superuser's credential; coherent leftovers | 3 releases, any number of starts and failures |
| `audits_two` | reports are whole, agree with their score, refer to what exists, never rewritten | 2 requests, a device without root and with one more VDOM, 3 rules over 2 endpoints |
| `audits_vdom` | *violated*: an audit asks its own VDOM | 2 requests, root and one more VDOM |
| `accounts_two` | the trail of logins, proven links, liveness | 2 requests of all operations, 4 users (a superuser, one with roles, one inactive, one without a credential), 2 Google identifiers |
| `accounts_roles` | *violated*: roles that were assigned are the user's roles | 1 request |
| `backup_lines` | the parser against the nesting, the verdicts | backups of up to 8 lines |

The bounds are enough for what the properties distinguish: two processes or
requests suffice to interleave any two critical sections, and the proofs cover more of
them; one event of each kind of handler and one whose row the database
refuses; two faults so that a fault can strike the recovery from the first; of each
unique column the values that are taken at the start and one more, so that there is one
to collide on and one that is free; a second device, so that a VDOM name may be taken on
one device and free on the other;
rules of 1, 2 and 3 units, so that a partial result falls on either side of the threshold;
8 lines hold a table whose entry has a section with a setting nested in it, or two entries
with a setting each, and every way to cut them off.
The start-up model is unbounded but for the set of releases.
Deadlock checking is off where requests, events or faults run out, on for
`BootSeeding`.

Fairness. `pipeline_one` assumes weak fairness of each process's progress: the event
loop runs every ready task, a blocked XREADGROUP returns after 2 s, and the container
is restarted (`restart: always`). `Publish` and the faults are not fair.
`inventory_two`, `technicians_two` and `accounts_two` assume weak fairness of each request's
own steps: hardware and Redis calls have time-outs, PostgreSQL grants a free lock and
breaks deadlocks. New requests, crashes and the consumer's handler are not fair.

## What the checks show

All the properties of the passing runs hold. Four statements of the repository do not:

- `pipeline_dup`: `activity_logs.event_id` is documented as there for idempotence, and
  nothing uses it: a retried XADD is logged twice.
- `inventory_deleted`: `delete_device` never commits. Neither does `update_device`.
- `audits_vdom`: a live audit of a client's VDOM asks for the data of `root`, because
  `DeviceConnectionData` (`devices/schemas.py:60`) drops `has_vdom_enabled`; `Target`
  models what the code would ask if it did not.
- `accounts_roles`: `POST /users/{user_id}/roles` flushes the roles, publishes
  `user.roles_assigned`, answers 200 and never commits; `users/permissions.py:24` says
  that its permission allows one to modify the roles granted to a user.

Further deviations seen while modelling, without a run of their own: an update of a
VDOM ignores `client_id: null`, which `vdoms/schemas.py:19` offers for unlinking; the
answer to an assignment of technicians shows the list from before it; a start that fails
at a later benchmark keeps what `sync_rule_catalog` committed, against the comment at
`hardening/seeder.py:129`; `register_user` never succeeds, against
`tests/unit/auth/test_auth_service.py`, and neither do creation and update of a user
(they change and publish nothing either); a second device that reports no serial number
is turned away, as `prober.py:49` gives it the placeholder that the unique index has
already; a consumer task that dies while it creates the groups
(`redis_consumer.py:38`) is not noticed before shutdown, and the entries it would have
read wait (`EveryEntrySettles` excuses them);
two overlapping assignments of technicians leave the union of their lists, where `clients/repository.py:85` speaks of
synchronising it; the superuser has a credential only from the second start on
(`auth/seeder.py:20` runs before the superuser is there; `CredentialFromSecondStart`);
a table nested in an entry of a backup (`secondaryip`) replaces the entry and may end the
outer table early; a profile that does not exist is answered 500 and not 422 to a backup,
as the repository raises before the check at `hardening/service.py:272`;
an unreachable device gets a report with score 100, as `fetch_endpoints_data` swallows
every error and the check at `hardening/service.py:191` never fires; the number of
evaluated rules in a report's answer (`hardening/schemas.py:134`) omits partial results.
Where a deviation has no property that would catch it getting worse, its entry under
`hazards` says so.

## What is proved

Every theorem is for all values of the constants, from the named assumption of its module
(`ConstantsAssumption`, `InventoryAssumption`, ...), which TLC evaluates in the runs. Each
module of proofs has an inductive invariant, a lemma per action or group of like actions
that it is kept, and the theorems as its consequences.

`EventPipelineProofs`. At-most-once is not inductive by itself: a process that crashes
between commit and acknowledgement leaves a pending entry that *is* in the log, so one
must know that nobody holds it. `IndInv` says that the group's position separates what
was handed out from what was not, that only handed-out entries are in a batch or in the
log, that two batches are disjoint and that of a batch only the entry just committed is
in the log. From it `AtMostOnceHolds`, `OneWorkerHolds` and `CommitBeforeAckHolds`.

On top of that invariant:
- `Implements`: every step of the pipeline is a step of `EventLog` or a stutter under the
  mapping of waiting, taken, logged and lost entries; it needs that an entry once past
  the group's position never waits again.
- `LossLeavesTraceHolds`: what was handed out is logged, still pending or was trimmed
  before its turn (`Recoverable`).
- `OrderHolds`, under the hypothesis that there is one process: what it holds and has not
  written comes after all that is written (`InOrder`). With two it is false.
- `CredentialsTracedHolds`: a process about to insert a credential is at an event that asks
  for one (`Traced`).
- `LossNeedsACauseHolds`, under `OneCreationPerUser` (no two events create the same user,
  as their ids are fresh): while no fault has happened, all that was handed out is in the
  log, in hand, refused by the database for its content, or trimmed (`Accounted`).

`InventoryProofs`: `TypeCorrect`, `KeysHold`, `AllOrNothingHolds`, `LinksHold`. A device is
flushed in one step and committed in another, so its unique values must be known to be
reserved in between (`Reserved`); links to clients rest on what the requests carry having
been active when it was validated (`Fits`, `ActiveKnown`).

Also there: `BornWithRootHolds`, `OnlyAskedChangesHolds`,
`EventsTellTheTruthHolds`, `SyncCompleteHolds`, `SyncLeavesOnlyReportedHolds`. `Effect` says
what one step of one request can do; `PastInv` that a row inserted once is never inserted
again (`Settled`: its request has committed, or is a synchronisation that has passed the
name), that an event is the last step of its request, that what a synchronisation has
passed is registered or deleted, and that what it has still to register was reported.

`TechnicianAssignmentProofs`: `TypeCorrect`, `OneRowHolds`, `LastListHolds`, `AtomicHolds`.
What a session has deleted is still there for the others and marked by it alone; what it
has inserted collides with nothing committed but what it deletes; before it commits it
has inserted its whole list.

`BootSeedingProofs`: `TypeCorrect`, `ReferencesAlwaysHold`, `ServedIsOwn`, `ProfilesStayPure`,
`CredentialSeeded`. Both what is committed and what the session would commit are coherent
and of whole releases, and each seeder step has left behind what its release asks for.

`FoldLemmas` has what the next two need. The library states induction with an operator as
its parameter, which no prover here can instantiate; `Induction` is about a set of naturals
instead, and a property is proved of all of them as a set. From it follow the existence and
uniqueness of the function that a fold over a set of numbers iterates (`FoldExists`,
`FoldUnique`), that a sum is the same in any order and bounded by its terms (`SumByElements`,
`SumBounds`), and that a fold over a sequence is read step by step from its front although
its definition takes the last element away (`ReadingExists`, `ReadingUnique`, `ReadingStep`).

`HardeningAuditProofs`: `TypeCorrect`, `ReportsReferAlways`, `ReportsWhole`, `ScoresAgree`,
`ReportsStayFrozen`. A draft that is flushed under its foreign key already has its findings and
refers to what exists, also while VDOMs are deleted. Counters and scores are sums over the
findings; that one finding short of its units keeps the mean below 100 % after rounding is
arithmetic on the bounds of those sums (`ScoreFollows`).

`BackupAuditProofs`: `VerdictsHold`, for backups of any length. The parser goes through the lines
once and remembers five things; the reference counts. `ParserSteps` gives what the parser
knows after one more line; `Deepens`, `BodyGrows`, `EntriesGrow`, `PlacesGrow`, `MeaningMore` what
one more line changes in the reference. The invariant (`Followed`) says for each section that
is read where it is in what is open (`Sits`: an entry of a table is open directly above it,
and no other as long as the table is simple), that the parser is then where the backup is
(`InStep`: over if and only if the section has ended, an item if and only if an entry is open,
as many items as complete entries), and that the items are right up to the last unspoilt
entry (`FirstRead`). Once a table is nested in an entry the parser is no longer where the
backup is; what it read before that stays right, because it is only added to. TLC confirms
the invariant on backups of up to seven lines.

`AccountsProofs`: `TypeCorrect`, `TraceHolds`, `LinksHold`. A request at each step has on the
bus what its next answer presupposes; a link that is about to be written is either free or
fails at the unique index.

Only model-checked: liveness (`EveryEntrySettles`, `RequestsAnswered` of `Inventory` and
`Accounts`, `AssignmentsAnswered`), which this prover cannot show.

## Not modelled

Exporters lay out a stored report and keep no state; routers, CORS and settings are
configuration; hashing, encryption and signing are library calls, taken by their outcome; queries
of reports, profiles and logs change nothing. What each operator of the rule engine accepts
is abstracted to the evidence it yields. The permission checks are modelled for the operations
of `users`; those of the other domains precede operations that are modelled for any
caller. Liveness of audits is not checked: their waits are those of `Inventory` (a row
lock until the holder ends).

## Plan

The modules planned are written and, where the prover can, proved. What is left:

1. The composition of `HardeningAudit` with `BootSeeding`: an audit of the whole standard after
   a release dropped a rule, which stays active (`hardening/seeder.py:121`).
2. The answers that are read from stale objects (`clients/service.py:141`), which concern no
   stored state.
