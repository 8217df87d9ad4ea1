# DICEE: formal models and proofs

DICEE collects the notices of seven Yonsei colleges. A cron job calls
`POST /internal/trigger-crawl`; Celery workers crawl one college per task, store the
notices in PostgreSQL and hand the new and changed ones to an AI stage. A FastAPI process
offers the login, the trigger and a health check.

Paths below are relative to the repository. A section per model follows the inventory.

## 1. Inventory

| Component | State it keeps | Operations | Interacts with |
|---|---|---|---|
| Crawl task (`app/services/tasks.py`, `crawl_service.py`) | one attempt per worker: links, payloads, changed ids | receive, open run, list, scrape, upsert, record, retry, enqueue AI | broker, sites, notices, crawl_runs |
| Notice storage (`app/repositories/notice_repository.py`, `models/notice.py`) | table `notices`, unique (college_id, external_id) | bulk upsert guarded by `content_hash`, RETURNING id | crawl task, rerun script, AI stage |
| Crawl history (`crawl_run_repository.py`, `models/crawl_run.py`) | table `crawl_runs` | insert "running", update by task id | crawl task, `/internal/crawl-stats` |
| Hand-off to the AI stage (`tasks.py:71-107`) | AI queue | `process_notice_ai_task.delay(id)`; the task is a stub | crawl task, notices |
| Broker and worker configuration (`app/worker.py`) | crawl queue and AI queue in Redis | deliver, acknowledge on receipt, redeliver after `visibility_timeout`, retry | all tasks |
| Crawl trigger (`app/api/internal.py`) | none | check the secret, enqueue one task per college with a staggered countdown | broker |
| Rerun script (`scripts/delete_notices_for_rerun.py`) | none | delete notices of one college | notices, concurrent crawls |
| Site crawlers (`app/services/crawlers/*`, `core/crawl_http.py`) | none | list page to links, detail page to title, date, body | college sites, crawl task |
| Login (`auth_service.py`, `user_repository.py`) | table `users`, unique (provider, provider_user_id) | exchange code, verify, select-then-insert, commit, tokens | Google, users |
| Web process (`main.py`, `core/database.py`, `api/health.py`) | module globals `engine`, `async_session_maker` | start-up probe with retries, health, shutdown | PostgreSQL, Redis |
| Seed and diagnostic scripts, schema and migrations, settings | tables | run by hand | PostgreSQL |

What makes them hard, and what correctness means:

- **Crawl task.** It runs in several processes, is retried, and may die anywhere; the only
  atomic points are commits and publications. Correct means: every committed change of a
  notice reaches the AI queue once, no more and no less, as far as failures allow; attempts
  of one message are sequential; a crawl is eventually over; the history tells the truth.
- **Notice storage.** Concurrent crawls of one college and the rerun script write the same
  rows. Correct means: the hash comparison decides for exactly one writer that a row changed;
  a row never returns to an older version of its posting.
- **Crawl history.** Rows are looked up by task id, which retries share. Correct means: an
  attempt does not spoil another attempt's record.
- **Site crawlers.** Keys come from row numbers, positions or URL parameters while boards
  change, are pinned and unpinned. Correct means: one posting, one row, for ever; an error
  page is never stored as a notice.
- **Login.** Select-then-insert races over a unique constraint, with a commit before the
  tokens are made. Correct means: one user per account, and a login answers with the tokens
  of that user or with an error.
- **Web process.** Globals are read at import and assigned at start-up. Correct means: the
  probe ends after a bounded number of attempts, the health report follows the database.

`PROJECT.json` lists the hazards line by line under `hazards`, with the properties that
cover each or the reason why none does yet.

## 2. Plan

| Order | Module | Contents | Status |
|---|---|---|---|
| 1 | `CrawlTask` | the crawl pipeline with workers, retries, redelivery, crashes, rerun script | done |
| 1 | `ChangeFeed` | abstract promise of the crawler to the AI stage; `CrawlTask` implements it | done |
| 1 | `CrawlTask_proofs` | type correctness, hand-off invariant, refinement, sequential attempts, final success | done |
| 2 | `Boards` | the seven site crawlers and the keys they derive from changing boards | done |
| 2 | `Boards_proofs` | type correctness, one row per posting, one posting per row, no key twice | done |
| 3 | `WebProcess`, `Login`, `Trigger`, composed by `WebApi` | start-up probe, globals bound at import, health, shutdown; overlapping logins over the unique constraint; trigger with a failing broker | done |
| 3 | `WebApi_proofs` | type correctness and all safety properties of the web process | done |
| 4 | `AtomicUpsert`, `BulkUpsert` | the upsert statement at one instant; the same row by row with row locks, the rerun script and deadlock victims, which implements it | done |
| 4 | `BulkUpsert_proofs` | type correctness, decisions, victims, refinement | done |
| 4 | `AiReadsCurrent` of `CrawlTask` | what `process_notice_ai_task` finds; the task writes nothing, so it needs no module of its own | done |
| 5 | `CrawlNotices_proofs` | `NeverOlder` without overlapping crawls; the table changes by the atomic steps of `AtomicUpsert` only | done |
| 5 | `CrawlRuns_proofs` | attempts run once, their rows show them, they only advance | done |
| 5 | more of `Boards_proofs`, `BulkUpsert_proofs`, `WebApi_proofs` | what was read is stored; nobody waits for ever unseen; logins wait one deep; statements, logins and probes only advance | done |
| 6 | theorems still worth proving | an abstract registry of users that `Login` implements; that the payloads `Boards` derives are among the outcomes `CrawlTask` assumes of a crawler | open |

## 3. `CrawlTask`: the crawl pipeline

### State

| Variable | In the system |
|---|---|
| `site` | version of each posting on the web |
| `crawlQ`, `sent` | crawl messages in Redis; every message ever published (history) |
| `runs` | `crawl_runs`, one slot per attempt (an attempt inserts at most one row) |
| `notices`, `writes` | `notices`, one slot per key; number of inserts and updates per key, which orders them |
| `published`, `lost` | AI messages ever published; changes whose publication a failure prevented (history) |
| `pc`, `job`, `todo`, `batch`, `raised`, `cause`, `held` | what a worker process knows of the attempt it runs |
| `faults`, `deletes` | failures and script executions so far, to bound them |

An attempt is a record of task id, retry number and delivery number. A notice's content is
the posting and its version: two contents are equal exactly when their `content_hash` is.
That an edit never restores an older text is an assumption of `EditSite`; without it a
restored text would look unchanged to a slow crawl, which the code cannot notice either.

### Actions

| Action | Code |
|---|---|
| `SubmitCrawl` | one `apply_async` of `post_trigger_crawl` |
| `Receive` | delivery; Celery acknowledges before the task runs (`acks_late` is not set) |
| `UnknownCollege`, `OpenRun` | lookup of the college, insert of the run and commit |
| `RefuseCollege`, `FetchLinks`, `FetchLinksFails` | dispatch and list page |
| `Scrape`, `SkipPost`, `ScrapeFails` | one turn of the loop of `crawl_college_sync`: payload, `None` or `continue` after any exception |
| `Upsert`, `UpsertRefused` | the bulk statement and its commit, or a row the database refuses |
| `RecordSuccess`, `RecordFailure` | `update_crawl_run_sync`, which takes any row of the task id |
| `Retry`, `GiveUp` | `autoretry_for` and `max_retries` |
| `EnqueueAi`, `Finish` | the `delay` loop and the return |
| `Crash`, `DbError`, `BrokerError` | failures, which abandon the attempt where it stands |
| `EditSite`, `Redeliver`, `DeleteNotices` | the sites, `visibility_timeout`, the rerun script |

Statements between two such points are one action: they touch nothing another process sees.
The college's row is read twice by the code and never changes, so one test is enough. The
links are scraped in any order, which includes the order of the page. The staggered
countdown of a trigger does not order anything (a crawl may be slow), so it is left out.

### Properties

| Property | Says |
|---|---|
| `TypeOK` | types; no attempt is numbered past `max_retries` |
| `HandoffTracked` | every write of a row is published, held by a live attempt, or lost to a failure |
| `HandoffOnce` | no write is held twice, or held and already published; nothing is handed over that was not written |
| `HandoffInv` | both, and only an attempt past its commit holds changes: the inductive invariant |
| `AiReadsCurrent` | an AI task finds the notice of its change, in that version or a later one, unless the rerun script has deleted it; the stored version is always one an AI task was due for |
| `OneLivePerLine` | attempts of one delivery of a task are sequential |
| `AttemptsRunOnce` | nothing published is published again, and no attempt inserts its `crawl_runs` row twice, so that `max_retries` bounds the crawls of a delivery (action property) |
| `LiveRunsShown` | while an attempt runs its row is there, so `update_crawl_run_sync` finds one; when messages are delivered once it says "running" |
| `SuccessIsFinal` | a row of `crawl_runs` at success stays there, when messages are delivered once |
| `FeedSpec` | the pipeline implements `ChangeFeed` |
| `NeverOlder` | with one worker a row never goes back to an older version of its posting |
| `TasksSettle`, `ChangesResolved` | a crawl is eventually over; a committed change is eventually published or lost |

`ChangeFeed` knows three sets: changes due, delivered, dropped. A change becomes due once, and
is delivered once or dropped once. The mapping takes `due` to the union of what is published,
lost and held, `delivered` to `published`, `dropped` to `lost`.

### Where the code and its documents disagree

Four runs expect a violation; each quotes what a document says.

- `crawl_lost_enqueue` (`ChangesReachAi`): rows are committed before their AI tasks are
  published, so one failure in between loses the tasks for ever: the next crawl finds equal
  hashes. `docs/ROADMAP.md:248` says that a changed hash enqueues the AI task.
- `crawl_scrape_errors` (`ScrapeErrorsRaise`): `crawl_college_sync` swallows
  `RequestException` of a detail page; `docs/ROADMAP.md:287` forbids exactly that.
- `crawl_bad_row` (`ValidRowsStored`): one refused row rolls the batch back;
  `docs/ROADMAP.md:310` asks for partial success.
- `crawl_open_run` (`NoRunLeftOpen`): a retried task leaves a row at "running" with no failure
  of the infrastructure: `update_crawl_run_sync` finds one of several rows of the task id.

### Runs, bounds and fairness

| Run | Instance | Why it is enough |
|---|---|---|
| `crawl_safety` | 2 workers, 2 tasks of one college, 2 postings with 2 versions, 1 retry, 1 failure, 1 deletion; workers and tasks symmetric | two crawls overlap at every step; a retry, an edit, a deletion and a failure can fall between any two steps; a third worker adds no new kind of conflict on a row |
| `crawl_live` | 2 workers, 2 tasks, 1 posting, 1 retry, 1 failure, no symmetry | temporal checking on the smallest instance with a retry and a lost change |
| `crawl_edges` | 1 worker (the deployed `--concurrency=1`), 3 tasks of different colleges, colliding keys, a refused posting, 2 deliveries | fires the rejections, redelivery and collisions, and is the only setting in which `NeverOlder` is true: with two workers a slow crawl overwrites the newer row |
| the four violations | 1 or 2 tasks, no failure except in `crawl_lost_enqueue` | smallest instances that show the disagreement |

Bounds are constants: `MaxRetries` (3 in production), `MaxCopies`, `MaxEdits`, `MaxFaults`,
`MaxDeletes`. All runs set `CHECK_DEADLOCK FALSE`: when every task is over, the edits are used
up and nothing fails, the bounded system has nothing left to do.

Fairness is weak fairness of each worker's own steps and of nothing else: a worker process
that is up keeps executing, and its network calls have a timeout
(`crawlers/*`: `timeout=10`). Sites, triggers, redeliveries and failures are never forced.
`crawl_lost_enqueue` uses the same fairness, so its counterexample is a real loss.

## 4. `Boards`: the site crawlers and their keys

One board is crawled again and again. `born`, `up`, `pinned` are the board; `links`, `batch` the
crawl (the lists `links` and `notices`); `rows` the college's rows of `notices`; `read` a history
variable with the postings whose complete page the crawl has read. `crawler` and `style` are
chosen at the start and never change. Crawls that overlap are the subject of `CrawlTask`, where a
crawler is reduced to its outcomes; here the outcomes are derived and one crawl runs at a time.

| Definition | Code |
|---|---|
| `Publish`, `Remove`, `Pin`, `Unpin`, `Number`, `OrdinaryRows` | the college's board (external) |
| `EngineeringLinks` ... `UicLinks` | the list function of each crawler: which rows, which `no` |
| `ParseEngineering` ... `ParseUic` | the detail function: which kind of page yields a title, a body, an exception |
| `GetLinks`, `ScrapeDetail` | `get_crawler` |
| `FetchList`, `Scrape`, `SkipLink`, `Upsert` | `crawl_college_sync`; the page of a link is read while the board goes on changing |
| `AbortAsync` | the asynchronous `crawl_college`, which lets an exception of a detail page through |
| `ExternalId`, `ExternalIdFromUrl`, `IsPayload`, `ContentHash`, `Written` | `build_notice_payload`, `_external_id_from_url`, the hash and the guard of the upsert |

How a key comes about:

| Crawler | `no` of a link | Stable? |
|---|---|---|
| engineering, science, ai, glc | displayed number; pinned rows are passed over | if the board never reuses or shifts a number |
| medicine | `articleNo` of the URL, else the constant `"Post"` | if every URL carries the parameter |
| business | displayed number, else (pinned) `idx` of the URL, else a key made of its path | no: unpinning changes the key, and a number may equal an `idx` |
| underwood | position on the page | no: postings that come or go shift it |

A page is one of six kinds, the ones some parser treats differently. A title and a key are
numbers or kinds, never text. The links of a page are scraped in any order; the real order
matters only where two links of a page can share a key (business, and medicine without article
numbers). Assumed of the boards: the numbers in URLs are never reused. Whether displayed
numbers shift after a removal (`renumbers`) is not known, so both are checked; so are
boards of which some URLs name no posting (`bare`), where `MedicineLinks` falls back to `"Post"` and
`_external_id_from_url` to the URL's path, here one key (0) for all bare URLs. A path whose last
segment is the posting's own counts as a number in the URL. The properties that need keys of one
meaning say so (`Stable`, `KeysApart`).

| Property | Says |
|---|---|
| `OneRowPerPosting`, `RowKeepsPosting` | with stable keys: one posting, one row; one row, one posting |
| `NoKeyTwice` | no statement and no table names a key twice |
| `ReadIsStored` | the duplicate check drops no posting that was read, where the keys of a page are distinct (`KeysApart`) |
| `ErrorPagesStayOut` | error pages are stored only by the two parsers that accept any heading for a title |

| Run | Instance | Shows |
|---|---|---|
| `boards_safety` | 7 crawlers, 5 styles (one with bare URLs), both modes, 2 postings, 2 crawls, URL ids that collide with displayed numbers | the properties; two crawls are enough to compare a row with itself, two postings for any confusion of keys. A third posting, which scrolls one off the page, adds no new relation between keys; the theorems cover it |
| `boards_positional` | underwood | `docs/CAUTIONS.md:107` says that crawling again does not store a notice twice; with positions for keys it does (`NoDuplicateNotice`) |

In the trace of `boards_positional` a posting is stored under position 2, the posting before it is
removed, and the second crawl reads every page of the board: it inserts the posting under position
1, while its row under 2 stays. The property is stated of crawls that have read every page, so a
skipped page is not needed; with one, a new posting has the same effect. When the
page is as long as before and all of it is read, every row is overwritten with the posting now at
its position, and no posting has two rows. The same run with business in place of underwood fails
too: a posting keyed by its number is pinned, and the next crawl stores it under its idx.

`docs/WORK_LOG.md:32` says that placeholders are skipped. The model shows that this holds of the
title only: the body's placeholder is compared with the title (`IsPayload`), so a page of kind
`noBody` is stored.

The boards may stop changing and the crawls are bounded by `MaxCrawls`, hence
`CHECK_DEADLOCK FALSE`. No fairness is assumed: all properties are safety properties.

## 5. `WebApi`: the web process

`WebApi` composes three modules. `WebProcess` is the process: import, `init_db`, the probe
loop, serving, `/health`, shutdown. `Login` is `POST /v1/auth/google`, `Trigger` is
`POST /internal/trigger-crawl`; both describe one request at a time, and `WebApi` interleaves
them while the process serves. `Crash` ends all three at once; the table `users` and the queue
survive.

| Variable | In the system |
|---|---|
| `phase`, `tries`, `boots` | where the process stands, attempts the probe has left, starts (bounded) |
| `db`, `bound` | whether `init_db` has assigned `engine` and `async_session_maker`; whether it had when `main.py` and `health.py` imported the names |
| `pool` | the engine's connections |
| `users`, `serial` | table `users` as committed; its id sequence |
| `spent` | authorization codes Google has exchanged: it exchanges each once |
| `pc`, `code`, `user`, `profile`, `write` | a login: its place in `google_login`, its code, the user it has loaded, the profile it will set, the row it has written and not committed |
| `answer` | its HTTP answer |
| `queue`, `asked`, `told`, `reply` | messages published; per trigger the colleges asked for, the list built so far, the answer |

| Action | Code |
|---|---|
| `Import`, `InitDb`, `ProbeSucceeds`, `ProbeFails`, `AbortStartup` | module import and `lifespan` up to its yield: `init_db`, `verify_db_connection` with its bounded loop and `sys.exit(1)` |
| `Shutdown` | `lifespan` after its yield, once the accepted requests are over |
| `BeginLogin`, `NoSession` | `get_db` opens a session or raises |
| `Identify`, `IdentifyFails` | `exchange_google_code` and `decode_google_id_token` |
| `Lookup`, `Insert`, `InsertConflict`, `Update`, `Commit` | `upsert_by_provider_uid` statement by statement and the commit; PostgreSQL makes a writer wait for the transaction that holds its row or unique key (`Unlocked`) |
| `LoginDbError`, `IssueTokens`, `RefuseTokens` | a failing statement (a failing commit may have committed); `create_jwt_pair` |
| `CallTrigger`, `RefuseTrigger`, `Publish`, `BrokerFails`, `Enqueued` | the checks, the loop, a broker error inside it (the message may be stored all the same), the answer |

`GET /health` changes nothing and is an operator, `HealthStatus`: what it answers in a state. A
refresh of the user between flush and commit (`user_repository.py:37`, `:49`) reads the transaction's own
row and is part of `Commit`. A profile stands for the claims `email` and `name` together, absent or some value: the code
treats the two alike. The secret check and the code lookup of the trigger are one outcome,
since they publish nothing.

| Property | Says |
|---|---|
| `OneUserPerAccount` | however logins overlap, one row per account and per id |
| `TokensOwnUser` | tokens are those of a stored user of the account whose code was exchanged, also when things fail after the insert |
| `ProfileKept` | no login erases a stored profile or makes a user disappear (action property) |
| `ServesOnlyProbed`, `StartupEnds` | a process with a database serves only after a successful probe; a start-up ends, whatever the retry setting |
| `AnswerTellsQueue` | 200 names exactly what was published; any other outcome has published at most one message per college asked for |
| `CrawlsSpread` | two messages of one request never share a countdown |
| `WaitsForCommit` | a login that waits has written nothing yet and waits only for one at its `COMMIT`; no transaction outlives its request; the row of an `UPDATE` is there |
| `LoginsAnswered` | again and again no accepted login is open |

Run `web_health` expects a violation. `HealthTellsDatabase` says that a process which serves
from a database its probe has reached answers "ok" when the database and Redis answer the check, as
`health.py:13` and `docs/ROADMAP.md:175` have it. `from app.core.database import async_session_maker`
(`health.py:7`) has copied `None` before `init_db` assigns the global, so the answer is "degraded"
while logins work. `import engine` (`main.py:16`) has the same cause and means that `Shutdown` never
disposes of the pool, whatever `docs/WORK_LOG.md:115` says. The run is one start of the process
without requests, which is all the trace needs.

Run `web_api`: two logins, three codes (two of one account, the first without a profile; one of
another), one trigger over two colleges, retry settings -1, 0 and 2, two starts. Two logins
already race in every order of lookup, insert, commit and failure; a third finds the same
states of a row. Two starts are needed for a crash and a second probe. Countdowns of two
messages are the smallest that can collide. Triggers of different calls share nothing, so one
is enough; the theorems cover any number.

Fairness: weak fairness of the start-up's steps, and of what the event loop does for an accepted
login when nothing fails (`LoginGoes`). Clients, signals, crashes and failures are not forced.
The HTTP client has a default timeout and PostgreSQL answers or breaks the connection, which is
why the steps that wait for them go on. `LoginsAnswered` and `StartupEnds` are recurrence
formulas (`[]<>`): with finitely many requests and starts they say that the last one ends too.
`CHECK_DEADLOCK FALSE`: when the starts are used up the process may be down for good.

## 6. `BulkUpsert`: one statement, row by row

`upsert_notices_bulk_sync` sends one `INSERT ... ON CONFLICT DO UPDATE ... WHERE content_hash IS
DISTINCT FROM ... RETURNING id`. `CrawlTask` takes it as one step. PostgreSQL does not: it visits
the rows one after the other, in the order of the `VALUES` list, waits where another transaction
holds the row or has inserted the key, compares the hashes of the row as it is after the wait,
and keeps the lock until the commit. The rerun script deletes rows in the same way, in the order of
the table. `AtomicUpsert` says what the pipeline relies on: a batch is applied at one instant or
not at all, and the ids returned are those of the rows changed at that instant. `BulkUpsert` implements it.

| Variable | In the system |
|---|---|
| `table`, `serial` | table `notices` as committed, one slot per key; its id sequence |
| `lock`, `draft` | the transaction that has locked or inserted a row, and the row as it sees it |
| `state`, `batch`, `seen`, `left`, `want`, `returned` | a statement: its outcome, its `VALUES`, the rows a script's snapshot shows, the keys still to visit, the key it is at, the keys it will return |

| Action | Code |
|---|---|
| `BeginUpsert`, `WriteRow` | `upsert_notices_bulk_sync` at one row |
| `BeginDelete`, `DeleteRow` | the `DELETE` of `scripts/delete_notices_for_rerun.py` at one row; a row that was deleted and stored again under another id is passed over |
| `Commit`, `Fail` (both through `End`) | `session.commit()`, or rollback and close of `get_sync_session` |
| `Reach`, `AbortVictim` | PostgreSQL: any visiting order; a transaction of a waiting cycle is aborted |

| Property | Says |
|---|---|
| `DecisionsStand` | what a statement has decided about a row stays right until its own commit |
| `VictimMakesWay` | a deadlock victim leaves some other transaction that runs, has committed or has failed |
| `WaitsEnd` | among any transactions that wait for no others, if one is running then one can go on or is in a cycle the detector sees: no lock outlives its transaction, nobody is stuck |
| `AtomicSpec` | the refinement |
| `StatementsEnd` | statements that wait for each other are parted, and all end |

`content_hash` NULL does not occur: `build_notice_payload` always sets it. A script whose row was
*updated* (not deleted) while it waited deletes the new version, as PostgreSQL does at READ
COMMITTED. That a deadlock victim is lost as a crawl (`OperationalError` is not in
`autoretry_for`) is the failure `DbError` of `CrawlTask`.

Run `upsert_locks`: two crawls with either of two list pages, two scripts, two rows. Two rows are
the least that can be locked in opposite orders; four transactions on two rows give waiting
cycles of length two with bystanders queueing behind them. Longer cycles are left to the theorems. The
states before the list page is edited and after it are both reached by choosing the batches. Fairness:
PostgreSQL executes a statement that need not wait, and its deadlock detector runs; failures are not
forced. `CHECK_DEADLOCK FALSE`: when all transactions are over nothing is left to do.

## 7. Proofs

`CrawlTask_proofs` proves, for all values of the constants that satisfy `ConstantsOK`
(subset and function types, finite `Keys`, natural bounds; nothing about sizes):

| Theorem | Statement |
|---|---|
| `TypeCorrect` | `Spec => []TypeOK` |
| `HandoffIsTracked`, `HandoffAtMostOnce`, `HandoffInvariant` | `Spec => []HandoffTracked`, `Spec => []HandoffOnce`, `Spec => []HandoffInv` |
| `AiTaskReads` | `Spec => []AiReadsCurrent` |
| `ImplementsFeed` | `Spec => FeedSpec` |
| `AttemptsAreSequential` | `Spec => []OneLivePerLine` |
| `SuccessStays` | `MaxCopies = 1` implies `Spec => SuccessIsFinal` |

`CrawlNotices_proofs` and `CrawlRuns_proofs` extend it, under the same assumptions:

| Theorem | Statement |
|---|---|
| `RowsNeverOlder` | `Spec /\ []NoOverlap => NeverOlder` |
| `OneWorkerNeverOlder` | if there is at most one worker, `Spec => NeverOlder` |
| `StoresAtomically` | `notices` changes only by `Apply` of one attempt or `Remove` of one script of `AtomicUpsert` |
| `RunsOnce` | `Spec => AttemptsRunOnce` |
| `RunningShown` | `Spec => []LiveRunsShown` |
| `NoAttemptGoesBack` | `Spec => AttemptsAdvance` |

`Boards_proofs` proves, for all values of its constants that satisfy `BoardsOK`:

| Theorem | Statement |
|---|---|
| `OneRowForEver` | `Spec => []OneRowPerPosting` |
| `PostingForEver` | `Spec => RowKeepsPosting` |
| `KeysOnce` | `Spec => []NoKeyTwice` |
| `ErrorPagesRefused` | `Spec => []ErrorPagesStayOut` |
| `ReadPostingsStored` | `Spec => ReadIsStored` |
| `TypeCorrect` | `Spec => []TypeOK` |

`WebApi_proofs` proves, for any number of requests, codes, accounts, calls, colleges, starts and
integer retry settings (`LoginOK`, `WriteOK`, `CollegesOK`, `RetriesOK`):

| Theorem | Statement |
|---|---|
| `NoDuplicateUsers`, `TokensAreOwn` | `Spec => []OneUserPerAccount`, `Spec => []TokensOwnUser` |
| `ProfilesKept` | `Spec => ProfileKept` |
| `ServesProbed` | `Spec => []ServesOnlyProbed` |
| `LoginsWaitShortly` | `Spec => []WaitsForCommit` |
| `LoginsGoForward`, `ProbesAreBounded` | `Spec => LoginsAdvance`, `Spec => ProbesCountDown` |
| `AnswersTellQueue`, `CrawlsAreSpread` | `Spec => []AnswerTellsQueue`, `Spec => []CrawlsSpread` |
| `TypeCorrect` | `Spec => []TypeOK` |

`BulkUpsert_proofs` proves, for any sets of crawls, scripts, keys, contents and pages (`StorageOK`):

| Theorem | Statement |
|---|---|
| `Decided`, `VictimsMakeWay` | `Spec => []DecisionsStand`, `Spec => []VictimMakesWay` |
| `ImplementsAtomic` | `Spec => AtomicSpec` |
| `NobodyStuck` | `Txs` finite implies `Spec => []WaitsEnd` |
| `StatementsGoForward` | `Spec => StatementsAdvance` |
| `TypeCorrect` | `Spec => []TypeOK` |

*Hand-off.* `HandoffTracked` and `HandoffOnce` are not inductive alone: a worker that is not
past its commit must hold nothing, otherwise the next upsert would forget its changes.
`HandoffInv` adds that. `StepKinds` reduces the next-state relation to four cases (commit a
batch, publish one task, abandon an attempt, touch no change), and one lemma per case does the
rest. The case of the commit rests on `ReturnedChanges`: the statement returns one change per
key it writes, numbered one past the last. The refinement uses the same four cases.

*Attempts and success.* `LineInv` adds to `OneLivePerLine` that queued messages, running
attempts and rows of `crawl_runs` stem from published messages: a new task or redelivery then
cannot meet an attempt of its own line. `SuccessInv` says that a task with a success row waits
nowhere and at most hands its changes over. It needs `MaxCopies = 1`: with a redelivered
message the second delivery may write "failed" over the success, because the update picks any
row of the task id.

*Boards.* `KeysInv` says that links, payloads and rows are all filed under the stable key of
their posting, and that serial numbers are unique. `ListedLinks` is the heart: whatever the page
shows, a link carries its posting's key. `PostingForEver` follows because two postings never
have the same stable key. `TypeCorrect` needs in addition that a board is finite, or a displayed
number would be no number.

*Web process.* `WebInv` is the conjunction of one invariant per part. `Parts` splits a step of the whole into a move of each part, so each
part is proved by itself. `OneUserPerAccount` is not inductive: it needs to know that an
uncommitted row is either new in account and id, or a rewrite of the stored row of its account
(`WriteInv`), and that two uncommitted rows never share either (`WritesApart`), which is what the
locks of PostgreSQL provide. `StoredUsers` shows once what a commit does to the table, and
`OneMoves` and `ReplyKeeps` reduce every action of a login to the request that moves. For the
triggers, `CallInv` ties the list being built to the published messages and bounds their
countdowns by its length.

*Bulk upsert.* `UpsertInv` adds to `TypeOK` and `DecisionsStand` who holds which lock: an unlocked
draft is the table's row (`LocksInv`), and a crawl has locked exactly the payloads it has passed
(`StatementsInv`). Then no one else can change what it compared, which is `DecisionsStand`, and at the commit
the rows returned are the rows that differ, which is the step `Apply` of `AtomicUpsert`. All
other steps map to `Open`, `OpenScript`, `Abort` or a stutter.

*AI task.* `AiReadsCurrent` rests on `HandoffInv`: a change is numbered no higher than the last
write of its row, a rewritten row keeps its id and gets the next number, and every write enters
the set of changes; so only `DeleteNotices` can take a row from under its id.

*Age of rows.* `NeverOlder` is false when crawls of one college overlap: a slow crawl writes over
what a faster one has stored meanwhile, and nothing in the code prevents it. `NoOverlap` says that
they do not, as with the single worker of `docs/DEPLOYMENT.md:149`. It is a hypothesis on the
behaviour, not on the constants, so crawls of different colleges may still run beside each
other. `AgeInv` then says that what a crawl has read is not older than the stored row
(`BatchCurrent`): it is read later than anything stored was, and no other upsert of the college
comes between. This needs that a crawl collects its own college's postings only and that nothing
is stored before it was posted.

*One storage, two models.* `StoresAtomically` says that in the pipeline the table moves only by
the steps of `AtomicUpsert`, and that the keys an attempt then holds are those the atomic upsert
returns; `ImplementsAtomic` says that the rows, locks and victims of `BulkUpsert` amount to the same
steps. Together they justify that `CrawlTask` takes the statement as one step.

*Attempts run once.* `FreshInv` adds to `LineInv` that an attempt which waits, or has just been
received, has no row (`RowsToCome`), and that it is the last of its delivery (`LastAttempt`); a
retry numbered one higher is then new. `RunningShown` rests on `OneLivePerLine`: the attempt that
could spoil the row of a running one would be of its own line. With a redelivered message there
are two lines of one task id, so the second half of `LiveRunsShown` is stated for `MaxCopies = 1`.

*What was read is stored.* `ReadInv` says that the links still to scrape have different keys, none
the key of a payload collected already, and that each posting read is among the payloads. The
work is in showing that the links of any list page have different keys, whatever is pinned. Business, and
medicine when URLs are bare, are excepted (`KeysApart`): there they need not have.

*Waiting.* `WaitsEnd` is proved from `UpsertInv` by taking a smallest set of transactions that is
closed under "waits for" and holds a running one: going on from any of its members leads back to
it, so each of its members is in a cycle and the detector sees it. A smallest set exists only
among finitely many transactions. That it is a property of the locks and not of the shape of the
model shows in `EndUnclosed`, a `get_sync_session` that forgets to close. Logins need no detector:
`WaitsForCommit` says that the login waited for is at its `COMMIT`.

*Progress.* `AttemptsAdvance`, `StatementsAdvance`, `LoginsAdvance` and `ProbesCountDown` are the
safety halves of the liveness properties: no step of anyone, no failure and no crash sends an
attempt, a statement or a login back: it stays where it is, or comes to a later phase, or has less
left to do. With the finite lists of links, ids and rows, the bound on retries
and the fairness of the runs, this is why they end; that last conclusion is TLC's.

Only model-checked: the liveness properties (`TasksSettle`, `ChangesResolved`, `StartupEnds`,
`LoginsAnswered`, `StatementsEnd`), which need fairness and are out of the prover's reach, and the
violated properties. Every other property of a passing run is a theorem, `NeverOlder` under the
condition above.

## 8. Not modelled

- HTML parsing below the kinds of pages of section 4 (dates, images, attachments, cleaning of text),
  TLS, Sentry, CORS and logging.
- Schema migrations: DDL run once, in sequence, by Alembic; the constraints they create are
  assumptions of the models. Settings and request schemas are data declarations.
- `scripts/seed_colleges.py` (one transaction that inserts the missing colleges, by hand, before
  anything else runs), `scripts/test_crawler.py`, `scripts/check_notices.py` and `run.py`.
- `upsert_notice`, `upsert_notice_sync` and `get_by_college_external_sync`, which nothing calls.
- The write of `ai_extracted_json`: no code does it yet, so the guard at `tasks.py:101` has nothing
  to guard. Once the AI stage writes it, a changed notice that keeps its old extraction is the
  first hazard to model.

## 9. Running

    tlasany WebApi.tla
    tlc -workers 2 -config crawl_safety.cfg MCCrawlTask
    tlc -workers 2 -config boards_safety.cfg MCBoards
    tlc -workers 2 -config web_api.cfg MCWebApi
    tlc -workers 2 -config upsert_locks.cfg MCBulkUpsert
    tlapm CrawlTask_proofs.tla
    tlapm CrawlNotices_proofs.tla
    tlapm CrawlRuns_proofs.tla
    tlapm Boards_proofs.tla
    tlapm WebApi_proofs.tla
    tlapm BulkUpsert_proofs.tla
