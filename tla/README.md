# ForensicChain — verification project

TLA+ models of the ForensicChain services and of the web client in front of
them, TLC runs that check them on small instances, and TLAPS proofs, for every
value of the constants, of the safety properties of the ledger, the collector,
the custody pipeline, the session, the pages and the administration interface.
Everything is written from the code under `src/`; line numbers refer to it.

## 1. The system

ForensicChain takes in digital evidence, signs it, records it in a hash-chained
ledger, and keeps a custody timeline of everything that happens to it.

```
 browser ── nginx ──┬─ auth-service          users, cases, assignments, role rules
                    ├─ evidence-collector ── gRPC ── hash-sign       (stateless)
                    │     │  │            └─ gRPC ── immutable-ledger
                    │     │  └ shared volume
                    │     └ outbox_events ── outbox-worker ─┐
                    ├─ audit-reporter ──── direct publish ──┤  RabbitMQ
                    └─ chain-of-custody ── consumer ────────┘
```

| component | state | operations | hard part | what makes it correct |
|---|---|---|---|---|
| immutable-ledger | `ledger_records`, `ledger_state` (head per case) | AppendProofRecord, AppendVerificationRecord, GetProofByArtifactId, ValidateLedgerChain | concurrent appends, failing transactions, lost commit confirmations | one chain per case, no fork, head = history, validation true for untouched tables while the clock is not set back, false after a covered column or a row with a successor is gone |
| evidence-collector | `artifacts`, `outbox_events`, shared volume | upload, verify, get, download, list | five systems in one handler, none of them transactional with another | INGESTED is complete, events are backed by evidence, verdicts are sound |
| outbox-worker | `published`, `retry_count` | one polling cycle every 2 s | crash between publish and commit | at-least-once |
| RabbitMQ topology | queue, DLQ | publish, deliver, ack, reject | redelivery, missing queue | nothing published is lost |
| chain-of-custody | `custody_events`, `processed_event_ids` | consume, timeline | duplicates, retries, order | once per event, valid timeline, DLQ only after four attempts |
| hash-sign | keys | ComputeAndSignHash, RecomputeHash, VerifySignature | – | deterministic |
| audit-reporter | `reports`, report volume | generate, list, metadata, download, verify | four writes that fail independently | report on record matches the file |
| auth-service | users, cases, assignments | login, validate, admin interface | decisions cached in tokens, assignments read before an await | only assigned users write to a case, assignments carry the role of the account that was read |
| gateway | – | `auth_request` per request, 401 and 403 | – | grants exactly what the role rules say |
| forensic-ui: session | the token in `localStorage`, shared by all browser tabs | login, sign out, guards, redirects, axios interceptors | three copies of the role rules, tabs that do not know of each other, late 401s | no forbidden request, no session lost without a cause, no redirect loop |
| forensic-ui: pages | `useState` of the mounted page, its open requests | load, filter, verify, download, upload, generate, administer | answers late, lost, in another order, for a page that is gone or shows something else by now | the page shows what the services hold, and nothing turns for ever |
| deployment, scripts | – | – | – | – |

Interactions: gRPC calls with a 15 s deadline (the callee goes on after the
deadline), a shared table between collector and worker, RabbitMQ messages
with confirms and acks, HTTP calls for assignments, and the browser's requests,
which axios sends without a timeout and never cancels.

## 2. Modules

| module | models | state ↔ code |
|---|---|---|
| `LedgerLog` | what the ledger promises: one append-only log per case, one outcome per request | abstract |
| `Ledger` | `servicer.py`, `hash_chain.py` | `ledger_records`, `last_record_hash` are the tables; `lock` the row lock of `SELECT … FOR UPDATE`; `pc`, `previous`, `new_record` a handler's progress and locals; `clock` the host's wall clock |
| `LedgerAudit` | `Ledger` plus one alteration or loss of a row by something else | `damage` remembers what was done |
| `LedgerProofs`, `LedgerAuditProofs` | theorems about `Ledger` and `LedgerAudit` | – |
| `Ingestion` | `routers/evidence.py` with its gRPC clients | `row`, `integrity`, `outbox` are committed tables, `storage`, `temp` the volume, `upload`, `verification` the handlers' places, `inflight`/`ledger` the ledger as in `LedgerLog`, `broken`, `cut`, `times`, `columns` what its validator and GetProofByArtifactId can tell of the rows, `outdated` which artifacts were signed with former keys |
| `IngestionProofs` | theorems about `Ingestion` | – |
| `CustodyPipeline` | outbox → worker → broker → consumer → custody tables, and the audit reporter's direct publication | `sent`, `created_at`, `timestamp`, `retry_count` the outbox; `batch`, `done`, `bumped` the worker's cycle; `queue`, `dlq`, `bound` the broker; `consumer` the coroutine; `custody_events`, `processed` the tables |
| `CustodyProofs` | theorems about `CustodyPipeline` | – |
| `Session` | `App.tsx`, `useAuth.ts`, `ProtectedRoute`, `Layout`, `LoginPage`, `client.ts`; `rbac.py`, `jwt.py`, the validation behind nginx | `fc_token` is the storage; `tab` the location, mounted guard and token last read of each tab; `sent` the open requests; `logins`, `expired` the tokens |
| `SessionProofs` | theorems about `Session` | – |
| `ReadingPages` | dashboard, case page, artifact list, artifact page, ledger page | `page` is what the hooks of the mounted page hold, with its open requests (`asks`); `evidence`, `chain` what the services answer from |
| `UploadDesk` | upload page and upload handler | adds the uploads under way and the assignments |
| `ReportDesk` | report page and report handlers | adds report table, archive, anchored hashes, events, generations under way |
| `Pages` | one browser tab going through all of these | composes the three |
| `ReadingPagesProofs`, `PagesProofs` | lemmas about the reading pages; theorems about the whole tab | – |
| `AdminConsole` | administration page and `routers/admin.py` | `users`, `cases`, `assignments` the tables; `tab`, `modal`, `known` the components' state; `calls` the requests under way; `checks` what each `create_assignment` has read |
| `AdminProofs` | theorems about `AdminConsole` | – |
| `MC…` | instances for TLC | – |

How actions correspond to code:

- **Ledger.** `LockHead` = INSERT … ON CONFLICT and SELECT … FOR UPDATE (21–30);
  `StageRecord` = hashes, id, time, both writes (32–60); `Commit` = line 62,
  including the commit whose confirmation is lost; `Rollback` = 75–83;
  `Crash` = the service stops. Hashes are symbolic and free of collisions: the
  hash of a record is the sequence of payload digests it commits to.
- **Ingestion.** One action per stretch between two awaits, split where a
  crash leaves something behind. `SavePending`, `RejectUnsigned`,
  `RejectUnproved`, `Finalize`, `RejectUnfinished` are the five commits of an
  upload, each with the outcomes "took effect", "raised, took effect" and
  "raised, did not". A gRPC append becomes a request in `inflight` that the
  ledger commits or drops whenever it likes, so a timeout can race a late
  commit. `StartVerification … Conclude` are the steps of a verification.
  `chainValid` is what ValidateLedgerChain computes (servicer.py:162–222), which is
  not whether the ledger was touched: it sees a covered column that was altered
  and a row lost from the middle (`broken`); it does not see lost newest rows
  (`cut`) until something is appended after them, nor the columns a proof is
  served from (`columns`, models.py:19–22); and it rejects rows whose
  `created_at` contradicts their links (`times`). `DamageLedger`, `LoseNewest`,
  `DisturbTimes`, `ChangeColumns` and `ReplaceKeys` are such changes, and
  `ChainGrows` is what an append makes of them.
- **CustodyPipeline.** `BeginTransaction`, `BuildEnvelope`, `CommitOutbox` are
  the three moments of a handler that matter for order (`created_at`,
  `timestamp`, visibility). `SelectBatch`, `Publish`, `PublishFails`,
  `CommitCycle`, `AbandonCycle` are the worker's cycle. `Process`,
  `ProcessFails`, `Ack`, `AnswerLost`, `AckRaises`, `Requeue`, `Reject`,
  `HandlerRaises` are one turn of the consumer's loop.

- **Session.** React Router keeps the element of a `<Route>` mounted while the
  location moves between its children, so the guard is not run again:
  `shell` and `guard` record which one is mounted and what it read. `Redirect`
  and `Mount` are a rendering; `Rerender` is any input that makes the page read
  the token again; `Rejected` and `Answered` are the response interceptor.
  `Elsewhere` is every other tab of the browser profile.
- **Pages.** A request is an element of `asks` (or an upload or a generation
  under way); every handler's `finally`, `catch` and missing reset is in the
  action that takes its answer. `late` is set when an answer arrives after the
  answer to a later request of its kind: the code drops no answer, so nothing
  can be claimed of a page in that state, and the properties say so.
  `JumpTo…` is the browser's back button, which changes a URL parameter under
  a mounted page. The upload handler is the one of `Ingestion`, reduced to what
  the page can tell apart: `GiveUp`, `Store` and `Finish` include the commits that
  raise, whose answer is 500 and whose row may be there, marked or finished.
- **AdminConsole.** One action per button, one per handler of the service, and
  `Answered`/`Refused` for what comes back. `create_assignment` is three: it
  reads the case (`read_case`), then the user (`read_user`), then inserts, and
  other handlers may commit in between; `checks` is how far it has come. The
  checks of the other handlers are repeated by a unique constraint when they
  commit, so those are one step each. `tab` and `box` of a call say
  whether the component that made it is still mounted; a new row closes
  whichever dialogue is open when it arrives (483, 629). `raced` is set when a
  change could not be known to the list that is shown.

An operator named `X_Something` directly before `X` is a mutation: the
definition `X` as a plausible bug would have left it. It is not part of the
specification; each checked property is violated when one of them takes the
place of its original.

## 3. Runs

| run | instance | shows |
|---|---|---|
| `ledger_safety` | 2 cases, 4 appends, 4 record ids, clock set back once | no fork, head = history, proofs served, tables append-only, refinement of `LedgerLog`, all independent of the clock; the chain validates until the clock is set back |
| `ledger_audit` | 3 appends, one damage, fair | alteration or loss is noticed; every append is answered |
| `ingestion_uploads` | 2 uploads, view and download, 3 faults, a ledger that may never answer, no changes behind it | INGESTED is complete, events are backed, answers are true, and until something fails no upload stays PENDING |
| `ingestion_verify` | 1 upload, 2 verifications (original, altered file), 2 faults or changes in all: rows altered or lost, clock set back, a proof's columns or the keys replaced | verdicts sound as far as the validator sees, ledger and event agree, temporary files live as needed |
| `custody_safety` | 2 outbox events and a direct one, 2 faults, 1 retry | once per event, nothing published is lost, DLQ after all attempts, meaning of chain_valid |
| `custody_live` | 2 outbox events, 3 faults, reliable broker | every committed event is recorded or dead-lettered |
| `session` | 1 tab in full and the others, 4 roles, 2 logins, 1 request at a time, fair | requests agree with the gateway's rules; only a typed URL leads to the 403 page; sessions end for a cause; redirects settle |
| `pages` | 2 artifacts, 2 cases, 2 report ids, 3 requests by the user, 1 upload, 2 pages visited | lists, artifact, verdicts, ledger, upload outcome and reports are those of the services and of the right object; uploads were allowed; reports on record are backed; no spinner without its request |
| `admin` | 2 user names, 2 roles, 2 cases, 2 calls at once, 3 rows made | the page agrees with the tables once quiet; assignments carry the role of the account that was read |
| `custody_timeline` | 2 events, no fault | **violated**: timeline invalid without any failure |
| `custody_startup` | 2 events, no fault, queue not yet declared | **violated**: published events vanish |
| `custody_consumer_dies` | 2 events, 2 faults | **violated**: consumer coroutine ends, events wait for ever |

The violated runs are the disagreements between code and documentation that
came up while modelling (`findings` in PROJECT.json). Two earlier ones are
now exceptions inside passing properties: that a clock set back makes an
untouched ledger invalid is the exception of `ValidUntilClockSetBack`, and that
an EvidenceIngested event may belong to an artifact marked INGESTION_FAILED is
why `IngestedEventIsBacked` speaks of the ledger and the file, not of the status.

**Bounds.** Faults (exceptions, lost confirmations, crashes) share one counter
per model, `MaxFaults`; two suffice for every pair (a crash in the middle of
the handling of another failure), and the upload run has three, which reaches
a failing clean-up after a failing finalization followed by a crash. `MaxChanges` bounds what something
else does to rows, clock, columns and keys; in `ingestion_verify` failures and
changes together are at most two, which gives every pair of them (newest rows
lost and a failed validation, the clock set back and other keys) before, between
and during two verifications. `ingestion_uploads` has none: no property of it
reads them. Four
appends give two concurrent ones in one case while a third waits and another
case goes on. Three events of one artifact are needed, and present, to tell a
wrong predecessor from a right one. `CONSUMER_RETRIES` is 1 in the large
passing runs instead of 3: the retry path is the same at each count, and both
its ends (last retry, first dead-lettering) are reached with two failures; the
violation runs keep 3. `BatchLimit` 10 becomes 2 (a batch of several rows) and
1 (rows that have to wait). `TicksPerSecond` 2 lets a timestamp cut to
seconds tie with and precede finer ones. Deadlock is not checked because
every model may come to rest once its requests are done.

In `session` one tab is followed in full and the others are `Elsewhere`: tabs
share nothing but the stored token, and what another tab does to it is exactly
that action. Two logins give an old and a new token, of the same or of
different roles. In `pages`, three requests by the user are enough for one
request to overtake another while a third thing goes on (the effects of
mounting and of jumping come on top), two visits for a page left with work
behind it, two artifacts, cases and reports to take one for the other. A behaviour
with both an upload and the report page is not followed further (`Apart`, a state
constraint): the two share only which artifact ids there are, and those may be
added on every page (`IngestedElsewhere`); the theorems know no such bound. In
`admin`, two calls at once are every pair of racing handlers; three rows
(`MaxRows`; then no more are asked for) are the one that is there and, say, an
account made anew and its assignment, also with the account made anew between
what `create_assignment` reads and what it inserts. Symmetry is
used in these two only (cases and report ids; user names, cases and slots):
they check invariants only, and no definition or property names one of those values.

**Fairness.** Ledger: weak fairness of each handler's own steps; the thread
pool runs every handler, and the lock is handed on as soon as it is free.
Failures and crashes are never fair. Ingestion: weak fairness of each upload
handler, justified by the event loop and the 15 s deadlines; none for the
ledger. Pipeline: weak fairness of the worker's cycle (a `while True` with a
sleep), of the consumer's steps, and of starting a stopped service, which is
the operator's duty since docker-compose.yml has no restart policy. With a
broker that may fail this fairness is not enough, which is a finding
(`custody_consumer_dies`), not an assumption. Session: weak fairness of
rendering and of loading a document, the browser's own steps; users, other tabs
and servers owe nothing. Pages and console: none. axios has no timeout, so an
answer need not come, and a spinner may turn as long as its request is open.
`SpinnerHasItsRequest` and `ConsoleMatchesTables` say what the code can promise
instead: a spinner or a disabled button always has an open request that ends it,
and is gone when none is open.

**How to read some properties.** `DeadLetterAfterAllAttempts` counts failed attempts
per event, also when a crash has left two copies in the queue.
`NoPublishedEventLost` is checked with the queue declared; without it, see
`custody_startup`.

`VerdictIsSound` says what a verdict is worth given what ValidateLedgerChain
can see. VALID: the chain fitted together when the verification began, unless the
newest rows were lost, which nothing shows until another row is appended; and
the file is the one that was signed, with the keys then in use, unless
another artifact's hash and signature were put into the proof's row. TAMPERED needs
another file or such a row; INVALID_SIGNATURE other keys or changed columns.
LEDGER_CORRUPTED does not mean that somebody touched the ledger: a clock that was
set back, or a validation that failed, gives it as well.

`UploadOutcomeTrue` commits the page where the handler's answer does: 201, 503
and 403. A 500 and a lost answer leave the row's fate open (see section 5), and
the property then says only that an INGESTED row has its proof.

`AssignedRoleHolds` is about the account `create_assignment` read, whose id is
kept in `account` as history. Nothing in the tables ties an assignment to an account,
so a later account of the same name may have another role, whether it is made
before the insert or after it.

## 4. Proofs

`LedgerProofs` proves for all requests, cases and record ids, with no bound
on appends or on the clock:

| theorem | statement |
|---|---|
| `TypeCorrect` | `Spec => []TypeOK` |
| `ForkFreedom` | `Spec => []NoFork` |
| `HeadCommits` | `Spec => []HeadCommitsToHistory` |
| `LedgerIsAppendOnly` | `Spec => AppendOnly` |
| `LedgerImplementsLog` | `Spec => ImplementsLog` |
| `UntouchedLedgerValidates` | `Spec => []ValidUntilClockSetBack` |
| `AcknowledgedProofIsServed` | `Spec => []ProofServed` |

Assumptions: those named in `Ledger.tla` (requests name known cases, ids are
ordered, at most one proof per artifact, which the collector guarantees by
drawing a fresh `artifact_id` per upload). Argument: none of the properties is
inductive alone. The invariant relates lock, handlers and tables: whoever is
in a transaction holds the lock of its case and has read the present head;
whoever has staged a row has hashed it onto that head; record hashes of a
case are exactly the non-empty prefixes of its head. Forks, lost updates and
dangling heads are excluded by it. For the validation, a second invariant
orders commits by time: while the clock is not set back, a staged row is
younger than every committed row of its case, so the order by `created_at` is
the order of the chain; its last conjuncts fail as soon as the clock is set
back.

`LedgerAuditProofs` goes on from there, with one row altered or lost at any
moment and any number of appends before and after:

| theorem | statement |
|---|---|
| `AlterationsAreDetected` | `AuditSpec => []AlterationDetected` |
| `LossesAreDetected` | `AuditSpec => []LossDetected` |

Neither is inductive alone. `AuditInv` says that the chain is whole until the
damage is done; afterwards, that an altered row is still there and no longer
hashes to its name, which fails the validation wherever the row stands; or that
a lost row leaves a gap at its length of the chain (`GapInv`). Appends follow the
head in `ledger_state`, which the loss did not touch, so nothing fills the gap,
and the row next in length asks for a previous hash that no row has. None of
this looks at the clock, which is why both theorems hold for any setting of it.

`IngestionProofs` proves for any number of uploads, verifications and accesses,
any budget of failures, and a ledger that answers whenever it likes or never:

| theorem | statement |
|---|---|
| `CollectorTypeCorrect` | `Spec => []TypeOK` |
| `IngestedEvidenceIsComplete` | `Spec => []IngestedIsComplete` |
| `AnnouncedEvidenceExists` | `Spec => []IngestedEventIsBacked` |
| `AnswersStayTrue` | `Spec => []AnswerIsTruthful` |
| `VerdictsAreSound` | `Spec => []VerdictIsSound` |
| `OneOutcome` | `Spec => []OutcomesAgree` |
| `TempFilesLiveAsNeeded` | `Spec => []TempFileLifetime` |

Assumption: `IngestionParameters`. `UploadInv(a)` says for each place an upload
handler can be at what is in storage, in its row, in the outbox, in the ledger
and still on the way to it; the last is what a deadline that races a late commit
needs, since after a timeout the proof may appear at any later step.
`Untouched(a)` collects what a step of any other handler leaves alone, so that
each action is examined once for its own upload and once for all others.
Verifications are treated alike: `VerifyInv(v)` is the conjunction of
`TempInv` (its temporary file is there while it runs), `VerdictInv` (what it
read of chain, proof and keys is still true, or excused, when the verdict is made) and `OutcomeInv` (every record and event
of it, arrived or on the way, carries its one verdict). `VerdictInv` rests on
`WorldGoesOn`, which every step satisfies: lost rows stay lost, a chain that does
not fit stays so unless the rows at fault are among those lost, times once
out of order stay so, and old keys do not come back. So a chain that validates
at the end fitted at the beginning, or its newest rows were lost.

`CustodyProofs` proves for all events, retry limits, batch sizes and any
number of failures:

| theorem | statement |
|---|---|
| `PipelineTypeCorrect` | `Spec => []TypeOK` |
| `EventsAreRecordedOnce` | `Spec => []RecordedOnce` |
| `DeadLettersWereTried` | `Spec => []DeadLetterAfterAllAttempts` |
| `PublishedEventsSurvive` | `QueueDeclared => (Spec => []NoPublishedEventLost)` |
| `TimelineTellsTheOrder` | `Spec => []TimelineValidIffInOrder` |

Assumption: `ParameterTypes`. The type of an event's hash rests on the fact
that ORDER BY timestamp, id has a last row, which is proved from the
well-foundedness of finite sets. Each property has its own invariant on top
of the types: recorded events are marked as processed; a copy counts no more
retries than attempts have failed (one less while a failure is being handled);
what the worker has published in its open cycle is present already, and a
message about to be acknowledged is recorded or has its copy behind it. For the
timeline, `LinkInv` says that the hash of each row commits to the row that was
last by (timestamp, id) when it was inserted; a hash names its row, so the
chain the timeline page recomputes closes exactly when that row is also its
predecessor now, that is, when no row was slipped in between later. The
hypothesis `QueueDeclared` is needed: `custody_startup` violates the property
without it.

`SessionProofs` and `AdminProofs`:

| theorem | statement |
|---|---|
| `Typing` | `Spec => []TypeOK` of `Session` (proved, so no run repeats it) |
| `Forbidden` | `Spec => []ForbiddenOnlyAfterSwitch` |
| `EndsForCause` | `Spec => SessionEndsForCause` |
| `LinksAreWelcome` | `Spec => UnauthorizedOnlyByUrl` |
| `AssignedRoles` | `Spec => []AssignedRoleHolds` |
| `ConsoleShowsTheTables` | `Spec => []ConsoleMatchesTables` |

The first four, of `SessionProofs`, hold for any number of tabs, accounts, logins and requests,
from `SessionAssumption`. `Forbidden` needs an invariant that ties the mounted
guard to the page: while guard and page read the same token, its role is one
the shell admits, and a table lemma compares what pages of a shell request with
`is_authorized`. `LinksAreWelcome` needs a second table lemma, `Welcome`: whatever
a page draws a link to for a role, the guard of the target admits; and that
tokens are numbered as they are issued, so that the token a page was drawn for
cannot come back once another has replaced it. `AssignedRoles` needs ids that grow and unique user names:
the account the service finds is then the only one of its name, and a new account
is younger than every assignment left behind and than every account that a
`create_assignment` under way has read. `RolesRead` carries the role from that
reading to the insert, across whatever other handlers commit between, and
whether or not the dialogue that asked is still open.

`ConsoleMatchesTables` speaks of moments at which no call is under way; what
makes it inductive is what holds in between. `ConsoleInv` has four parts.

- `TypeInv`: among others, a list shows rows of its own table, and an answer
  under way holds rows its call can be answered with.
- `KeysUnique`: ids and case numbers are unique, so that a row struck from, or
  replaced in, the list is the one that was deleted or updated.
- `TabInv`. `Waits` says who waits for whom: a tab that is loading has exactly
  one request for its list under way, one that is saving exactly one new row,
  and no other tab's call is still awaited. `Shown` says that what is displayed
  differs from the table by exactly the answers on their way: for users
  (`Follows`), what the table has in addition is in an answer to a call that adds
  it, and what the list has in addition is the row of an answered deletion;
  for cases (`Mirrors`) the same with the rows replaced by an answered change of
  status; while the list itself is under way (`Blank`), nothing has changed since
  it was read. When the tab is `Outdated` (the list failed, or `raced`), nothing
  is claimed, as in the property.
- `ModalInv`: the same of the dialogue and the assignments of its case
  (`BoxWaits`, `BoxShown`); without a dialogue nothing is awaited by one.

The lemmas in front (`FollowsAdded`, `MirrorsReplaced` and the like) say of these
relations what one step of the service, one answer and one unmounted component
do to them, and the rest goes through the actions.

`PagesProofs`, on the lemmas of `ReadingPagesProofs`, proves of a tab that goes
through any number of pages, with any number of requests, uploads, generations,
artifacts, cases and reports:

| theorem | statement |
|---|---|
| `ListsShowTheirCase` | `Spec => []ListShowsItsCase` |
| `ArtifactPageShowsItsArtifact` | `Spec => []DetailShowsItsArtifact` |
| `VerdictIsOfLastSubmission` | `Spec => []VerdictOfLastSubmission` |
| `LedgerPageShowsItsCase` | `Spec => []LedgerShowsItsCase` |
| `UploadPageTellsTheTruth` | `Spec => []UploadOutcomeTrue` |
| `UploadsWereAllowed` | `Spec => []UploadWasAllowed` |
| `ReportsAreBacked` | `Spec => []ReportOnRecordIsBacked` |
| `VerdictsAreUnderTheirReports` | `Spec => []VerdictUnderItsReport` |
| `GeneratedAreListed` | `Spec => []GeneratedIsListed` |
| `SpinnersHaveTheirRequests` | `Spec => []SpinnerHasItsRequest` |

All follow from `TabIsRight` (`Spec => []Inv`). `Inv` has four parts.

- `DataInv`: what the services hold; it only grows (`DataGrows`), so what an
  answer said is not refuted by what is added later.
- `DeskInv`: the row of an upload under way is there, PENDING and its own, and
  the case was assigned when it was made; a row that is INGESTED has its proof
  in the ledger, also when the commit that made it so raised (`Vouched`).
- `ReportsInv`: which of its four writes each generation has behind it.
- `TabInv`: one disjunct per kind of page. Their common core is about the
  numbers of the requests: for each kind of request a page sends, the latest one
  is still pending, or its answer is the one displayed, or an answer was late.
  The properties hold once no request is open, which leaves the second case.
  The upload page adds that what was submitted is one of the uploads; the report
  page that the top of its list is what it generated, newest first (`Newest`,
  unless `raced`), that the box of verdicts belongs to listed reports (`Boxed`),
  and that disabled buttons have their requests (`Working`, `Living`).

Two assumptions on constants were missing and are now stated where the
constants are declared: the `null` of the code is none of the ids and records it
is compared with (`NullAssumption`, of `AdminConsole` too), and only finitely many report ids are drawn
(`ReportAssumption`), so that a list ordered newest first exists.

Only model-checked: liveness (`EveryAppendAnswered` and its like), which is out of
reach of the prover. Every invariant a passing run checks is also a theorem.

## 5. What the models of the client brought to light

None of these contradicts a sentence of the repository that a run could refute,
but a reader of the properties should know them; each is an exception in one.

- The case and artifact pages, the report page and the ledger page drop no
  answer. Whoever changes the case or goes back while answers are under way may
  see the rows, the metadata or the verdict of the previous object under the
  heading of the new one until the page is left (`late`, `jumped`).
- The dashboard waits for both its requests together; if one fails, the other's
  answer is lost and "No cases found." is displayed (DashboardPage.tsx:120, 213).
- A report generated while the list is loading vanishes from, or appears on,
  the wrong list (`raced`); an upload whose answer is lost is reported as failed
  and may well succeed (`lost`).
- The answer 500 to an upload says nothing of its row: a commit that raised after
  it took effect leaves it PENDING (evidence.py:91–98) or INGESTED (170–174), and
  one that raises while a failure is being recorded leaves it PENDING (110, 124).
  Nothing looks at such a row again.
- An account deleted and made anew while `create_assignment` is between reading
  it and its commit (admin.py:243, 261) gets an assignment with the former
  account's role; nothing in the tables relates the two.
- A failed login is a 401 like any other: the interceptor (client.ts:23)
  removes a session that another tab has opened, and loads the login page anew,
  so the message set in LoginPage.tsx:149 is never seen.
- Administrators are admitted to `/cases/:caseId` (App.tsx:32) and refused by the
  gateway; the artifact page requests the custody timeline for every role.
- A user's token stays good until it expires although the account is deleted,
  and its assignments stay behind for whoever gets the name next (admin.py:130).
- 409 for a closed case is shown as "User already assigned." (AdminPage.tsx:250).

## 6. Not modelled, and plan

Not modelled: contents of files and PDFs, formats, appearance and texts of
pages, logging, connection pools, key generation, passwords, JWT cryptography,
nginx routing, deployment. Schema creation (`create_all`) is assumed done;
ordering of container starts appears only as `QueueDeclared`. The console has
one administrator; what a second one does at the same time would be one more
reason for `raced`. The pages of a tab are those of one role at a time: which
role may see which is `Session`.

Done: ledger, audit, ingestion, custody pipeline; session, pages, upload,
reports, administration. Left:

1. `LedgerAudit` with the columns that the record hash does not cover and with
   several changes; `Ingestion` has both, on its abstraction of the chain.
2. Composition of `Ingestion` with `Ledger` (instead of its abstraction), of its
   outbox with `CustodyPipeline`, and `UploadDesk` refined by `Ingestion`.
3. The case test in front of every read endpoint, and what a report collects.
4. Proofs: the refinements of item 2.
