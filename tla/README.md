# A verification project for SecFin (stock_profiler)

TLA+ models of SecFin's data path: how filings get into the SQLite store, what
several processes and several commits do to it, and what the endpoints compute
from it; the TLC runs that check small instances, and TLAPS proofs of the
invariants that matter, for every value of the constants.

All source paths are below `src/`, so `src/src/secfin/...` is the Python
package, `src/deploy/...` the deployment units and `src/docs/...` the docs.

    tlc -workers 2 -config MCBackfill.cfg MCBackfill     model-check one run
    tlapm BackfillProofs.tla                             check one module's proofs

`PROJECT.json` lists the components, the runs, a mutant for every property (a
plausible bug in the code with which the property must fail), the source lines
every definition translates, the hazards and the theorems.

## 1. The system

SecFin turns SEC filings into a SQLite database and serves it over HTTP.  One
database file in WAL mode (`storage/connection.py`) is written by three kinds
of program, each a process of its own: the FastAPI application, the daily and
weekly batch jobs that systemd timers start in one-off containers, and the
backfills an operator runs by hand.  They share nothing but that file (and the
SEC's patience): no locks of their own, no messages.

| Component | State it keeps | Operations | What makes it correct | Module |
|---|---|---|---|---|
| **Bulk backfill** `ingest/backfill.py` | two bounded queues, the writer's batch, `raw_facts` + `ingest_checkpoints` | feed, parse, batch, commit, stop, resume | no company lost, doubled, or checkpointed without its facts; runs end | `Backfill`, `CheckpointedIngest` |
| **Fact cache** `storage/sqlite_repository.py`, `api/routes.py:480-534`, `ingest/incremental.py`, `ingest/frames_backfill.py` | `raw_facts` (merged by COALESCE); what a request has read and fetched; the incremental's list; the frame | look up, fetch on a miss, upsert, answer; ingest a day's filers; store a frame; screen | answers never go back; no source erases the other's columns; one bad company does not end the day | `FactCache` |
| **Statements, metrics, bridges** `normalize/statements.py`, `metrics.py`, `mapping.py`, `viz.py` | none: the facts of one company | build a statement, series, TTM, metrics, trends, bridges | what is told of a period is that period's; a walk closes; a reported figure stays | `StatementViews`, `MetricViews`, `BridgeViews`, `Statements` |
| **Ownership filings** (forms 3/4/5, 13D/G) `sec/insider.py`, its repositories, `ingest/insider_backfill.py` | filings and their rows | cache-aside read, warm, refresh, repair, resume | nothing dropped, never older, a repair covers all | `FilingCache` |
| **13F holdings, CUSIPs** `storage/sqlite_holdings_repository.py`, `normalize/cusip.py`, `ingest/institutional_backfill.py`, `location_backfill.py` | a snapshot by manager and quarter; the CUSIP map and each process's index of names | replace a snapshot, resolve, fill in places | every candidate reached; a resolution is kept | `HoldingsCache` |
| **13F register and flows** `normalize/register.py`, `flows.py`, `overlap.py`, `coholding.py`, `attribution.py`, `geography.py` | none: the holders read | eleven views of who holds an issuer | the views tell one story | `RegisterViews`, `Register` |
| **Filing index, covers, sections** `api/routes.py`, `ingest/filing_index_backfill.py`, `section_backfill.py` | index rows, cover facts, arrangements, sections, metrics, similarities | build on first view, fetch the instance, segment, score, compare | an absence is honest; a cover is of this release; pairs are compared | `FilingDocs` |
| **Weekly peer analytics** `run-peer-analytics.sh`, `metrics_backfill.py`, `peer_distribution.py`, `peer_ranks.py` | `metric_values`, `metric_distributions`, `metric_ranks`, status file | walk all CIKs, compute / clear / insert twice, resume | never half-written; the two tables agree; they catch up where a walk fits in the timeout | `PeerAnalytics` |
| **Sector jobs and tables** `analytical/*.py`, `ingest/sic_backfill.py`, `dupont_backfill.py`, `lifecycle_backfill.py` | fourteen tables | clear and insert, upsert, add a snapshot and prune | one run is shown; the group is the ranked one; snapshots go forward | `SectorTables` |
| **SEC client, ticker map** `sec/client.py`, `sec/ticker_cache.py` | time of the last request; the map and its age | throttle, refresh once for all waiters | the rate is kept; one map; every request ends | `SecAccess`, `ReadThrough` |
| **API gate** `auth/rate_limiter.py`, `api/auth.py`, the key routes | token buckets, keys, daily usage | admit, count, let our own pages through, sign up, change tier, revoke | no more than the tier allows (our own pages' requests apart), no less than it grants | `ApiGate` |
| **Backup and restore** `storage/backup.py`, `restore.py`, `run-backup.sh` | dated snapshots, `secfin-latest.db`, the live file and its `-wal` | snapshot, copy to latest, prune, restore | a restore point always exists; no foreign `-wal` is replayed | `Backup` |
| Bulk zip downloader, SEC document parsers, frontend, provisioning | | | | not modelled, section 8 |

How they interact:

* the parser processes and the writer of the bulk backfill exchange items
  through two `multiprocessing.Queue`s; everything else meets in SQLite;
* the API fills the caches of facts, filings, snapshots, covers and indexes on a
  miss, between two awaits; a backfill of each fills or replaces the same rows
  from another process, and most repositories read in autocommit;
* the facts that `FactCache` keeps whole are what `Statements` computes from;
  the snapshots that `HoldingsCache` replaces are what `Register` reads;
* the daily incremental (06:00) and the API write `raw_facts` while the weekly
  chain (Sunday 08:00) reads them; the sector jobs read its values and the SIC
  codes; the API reads all these tables at any time;
* the SEC requests of a process pass one throttle (`sec/client.py`; the bulk zip
  downloader, `ingest/downloader.py`, does not use it), and the API's requests
  resolve a ticker in one map first;
* the backup (07:00) copies the database page by page while anyone commits; a
  restore replaces the file under the same path, with the stack stopped.

What is hard to test in it: the order of process starts, signals and queue
operations; a stop or a power cut between two commits that belong together; a
job killed by `TimeoutStartSec`; a full disk in the middle of a copy; a resume
that relies on what the interrupted run had reached; in the API, state read
before an `await`, or before another process's commit, and used after it; and,
in what it computes, reports that restate, recode, amend or omit what an earlier
one said.  `PROJECT.json` lists each place at its line.

## 2. What is modelled, and how it corresponds to the code

### `Backfill`: the bulk backfill

A company is its place in the zip, a positive number; its facts are only
counted, because the writer cuts its batches by that count.

| Model | Code (`ingest/backfill.py`) |
|---|---|
| `StartRun` | checkpoints read, `pending_entries`, `slice_todo`, processes started |
| `InstallHandler` | `signal.signal(SIGINT, _on_sigint)`, after the starts |
| `FeedNext`, `FeedPut`, `FeedEnd` | the feed loop; its `put` blocks on a full queue |
| `PutSentinel`, `JoinChildren`, `EndRun` | one `_STOP` per parser, the joins |
| `ParserStart/Get/Parse/Put` | `_parser_worker`; an exception skips the company |
| `WriterStart/Get/Flush` | `_writer_loop`, its batch, the flush after the loop |
| `WriterDropsBatch` | `_flush_batch_safely`'s `except` |
| `CtrlC` | SIGINT to the process group, also while children are being started |
| `ParserDies`, `WriterDies`, `KillAll` | a process or the container is killed |
| `WalSync`, `PowerLoss` | `synchronous=NORMAL`: a commit may be taken back by a power cut, never in part |

`result_queue` is split by the parser that put the item: `multiprocessing`
keeps the order of one producer's items and says nothing of two producers'.
Its capacity is the semaphore `slots`, which a dying producer does not return.
A power cut ends every process; a killed container leaves what was committed.

`CheckpointedIngest` is what the pipeline promises, with no process in it: a
store whose facts and checkpoints grow together by batches of companies that
were not there before, and which a power cut takes back to an earlier commit.
`Backfill` implements it with the identity mapping on `db` and `disk`
(`RefinesIngest`).

### `PeerAnalytics`: the weekly chain

One period and one metric stand for all; a company's facts, and the value
computed from them, are the number of filings they reflect.  A row of the two
published tables is a function of its group's values, so the model keeps the
values themselves: two rows are equal when they were computed from the same
values.  Every commit of the code is a step of its own: each company's
`bulk_upsert` (`WriteRows`), each `clear()` (`Clear`), each bulk insert
(`BulkUpsert`); so is each point where the values are read (`RowsForCik`,
`Compute`).  `StepFails` is `run_step ... || exit $?`; `TimedOut` is systemd's
kill, which writes no status line; `ResumeByHand` is `--start-after` with a CIK
read from the data, and the steps that follow it.  `Filing` is the daily
incremental, at any moment.  `frontier`, `base` and `wholes` are history.

Kept constant or left out: a company's SIC code; the API as a second reader (it
reads the tables, it does not change them); an operator's resume that overlaps
the Sunday run.  A kill of the unit is taken to end its container, as the
script's foreground `docker compose run` does for its client.

### `Backup`: snapshots, retention, restore

The database is the number of its commits; a file that holds a copy is whole
when it has its `Size` units, and an empty file (`Blank`) is, for SQLite, a
database without commits.

| Model | Code |
|---|---|
| `BackupStart` | `sqlite3.connect(dest)` of `backup_db`: the dated file exists, empty |
| `CopyPages`, `CopyEnd` | `Connection.backup` with all pages at once: one read transaction, so the copy is of the database as at its first page |
| `TruncateLatest`, `FillLatest`, `FillEnd` | the two effects of `shutil.copyfile` to `secfin-latest.db`, and the run's success |
| `PruneOne`, `PruneEnd` | `prune_backups` unlinks one file at a time |
| `BackupFails` | the exception of a full disk, or of a source that is no database |
| `RestoreStart`, `RestoreTruncate`, `RestoreFill`, `RestoreEnd` | `restore_db`: sidecars unlinked, then `shutil.copyfile` |
| `StackDown`, `StackUp`, `VolumeLost` | `docker compose down`, `up`, `down -v` |
| `BackupKilled`, `RestoreKilled` | `TimeoutStartSec=900`, or an operator |

A copy has the same size whatever its version, no run starts on more than
`MaxFiles` dated files, and a run that starts on a full disk or an unreadable
database counts as a fault.  A restore does not overlap a backup run, which its
docstring excludes.

### `FactCache`: the store of facts as a cache

A company's filings are numbered in the order the SEC receives them; each
reports one fact of one fiscal period, and a later filing of the same period
restates it.  A row of `raw_facts` is the fact of one filing: `fiscal` holds
the rows that have `fiscal_year` and `fiscal_period`, `framed` those that have
`frame`, `rowids` the order of insertion, which is the order `screen()` returns.

| Model | Code |
|---|---|
| `File`, `DayMissed` | the SEC (external); a day whose index is never asked for |
| `Look`, `CheckKnown` | the first query of both cache-aside helpers, and `has_any_facts`; each is a read of its own, with the event loop held (`EventLoopFree`) and the database not |
| `Fetch` | the SEC's response to `fetch_raw_facts_all`: the company's history at that moment |
| `StoreAndAnswer` | after the `await`: `upsert_raw_facts` and the return |
| `RequestFails`, `ApiRestarts` | an exception of the fetch or the write; the process restarts |
| `IncrStart`, `IncrFetch`, `IncrStore`, `IncrEnd` | `run_incremental`: the index, one company at a time |
| `IncrFetchFails`, `IncrBreaks` | `continue` after a failed fetch; a failed write or `TimeoutStartSec` ends the run |
| `FramesFetch`, `FramesStore`, `FramesBreaks` | `_ingest_concept`: one frame, of all companies, in one transaction |
| `Upsert`, `Merged`, `Inserted` | `_UPSERT_FACT_SQL`: COALESCE on conflict, next rowid otherwise |
| `InScreening` | `screen` and `resolve_concept_values` |

A request's `least` (what the store, or else the SEC, had when it began),
`exempt` (a company with no `fiscal` row) and `owed` (the same client's last
answer to the same question), and the incremental's `due`, are history.
Companyfacts may or may not name frames (`FactsCarryFrame`); the code accepts
both.  The model is of facts over a duration.  For an instant fact the two
sources give different keys (companyfacts sets `period_end` and `instant`,
frames only `instant`), so the comment at `sqlite_repository.py:79-81` ("They
collide on this key") does not hold of them: the halves stay two rows, read
apart, and nothing merges.  One uvicorn process serves the API (`Dockerfile`);
a power cut that takes a commit back is modelled in `Backfill` only.

### `Statements`, with `StatementViews`, `MetricViews`, `BridgeViews`

The three views are `normalize/` in operators: `StatementViews` is `mapping.py`
and `statements.py` (a tag is `<<concept, i>>`, the i-th candidate of a concept),
`MetricViews` is `metrics.py`, `BridgeViews` is `viz.py`.  `Statements` gives
them a company: it files a report a quarter, drawn from accounts of its own, so
that an answer can be held against them.  At most one report of a history is
out of the ordinary: it restates earlier columns, changes a tag, leaves a line
out, or amends an annual report.

| Model | Code |
|---|---|
| `Publish` | the company and EDGAR (external); every report repeats earlier columns under its own fiscal year and period, and dates its cover page after the period |
| `Ingest`, `BackfillFrames` | the incremental, or a miss of another read; one frame row without period or filing date |
| `FullRead`, `PeriodRead` | `_facts_for_cik`, `_statement_facts_for_cik` around every read |
| `GetStatement`, `GetIncomeViz`, ... `GetConceptSeries`, `GetComponents` | the read routes and what the component backfills take |

Dates are half-quarters and a fiscal year is the one its end falls in; 52-week
calendars, units, labels, gaps between reports and taxonomies other than "dei or
not" are left out, and about 27 concepts appear in the reports.  The branch of
`build_concept_group` for an unknown group is left out.

A concept's history is `ConceptData`: the tag `ChooseTag` takes by coverage, and
what `TagHistory` gives of that tag on a basis.  The facts are read by a SELECT
without an ORDER BY (sqlite_repository.py:160-163); the model assumes the order of
the unique key, so that among the durations that end together the one that
starts last is seen last.  No property turns on it.

### `FilingCache`: forms 3/4/5 and 13D/G

Filings are numbered in the order of filing; `rows` counts the copies of what a
filing parses to.  The repositories write in one transaction but read before it,
in autocommit, which filings they have: `Plan` and `Commit` are two steps, with
another process's commit between them.  `RollingList` is the newest so many of a
company's filings, EDGAR's list and a query's `LIMIT` alike.

| Model | Code |
|---|---|
| `File`, `Listed` | EDGAR's rolling list of a company (external) |
| `Ask`, `Fetch`, `Plan`, `Commit` | `_insider_transactions_for_cik`, `_beneficial_ownership_for_cik`: the count, the await, the filings not yet cached, the write |
| `JobStart` .. `JobEnds` | `run_insider_backfill` without `--refresh` ("warm"), with it ("refresh"), `run_stale_repair` ("repair"), each resumable by `--start-after` |
| `Insert`, `Replace` | the two forms of `upsert_insider_transactions` |

### `HoldingsCache`: 13F snapshots and the CUSIP map

A quarter of each manager; a later filing amends an earlier one.  A filing
stands for its contents, so a snapshot is three numbers: the filing its
accession, its holdings and its place come from.  `Ask13F` and `ReadHoldings` are
the statements of `get_snapshot`; `JobStart13F` takes a zip as old as any moment
before; `LocStore` updates by manager and quarter, whatever filing is there by
then.  `Record` is `CusipResolver.resolve` with each process's own index of
names; `Relist` is SEC's name list (external).  A name ends in `13F` where
`FilingCache` has one like it: one module extends both to prove about them.

### `Register`, with `RegisterViews`

`RegisterViews` is what `flows.py`, `register.py`, `attribution.py`,
`overlap.py`, `coholding.py`, `geography.py` and the endpoints compute from rows:
the share vector and its concentration, composition, domiciles, conviction,
turnover, tenure, stable capital, retention, co-holding, overlap of peers,
attribution and filings since.  `Register` holds the reports (stored or replaced
whole: `Upsert`; a place filled in: `Locate`; a CUSIP resolved late: `Resolve`)
and answers requests query by query (`Ask`, `SeePeriods`, `SeeHolders`,
`SeePeers`, `SeeCusipSets`, `AskManager`, `SeePrior`, `Reply`), so that a report
may be replaced between two of them.  An owner's row carries both its dates, that of
the filing and that of the transaction or event; `DateOf` takes the one the code
compares by: a form 3/4/5's transaction date or else its filing date
(attribution.py:174), a 13D/G's filing date or else its event date (211).  Names, `max_edges`, the cut after twelve
combinations and rows without a CUSIP are left out; the peers are the constant
`Issuers`, which the code selects by SIC group.

### `FilingDocs`: index, cover page, sections

| Model | Code |
|---|---|
| `View`, `FetchIndex`, `WriteRow`, `RowsWritten`, `IndexFails` | `_ensure_filing_index`: on an empty index, EDGAR's list, one autocommit a row |
| `CoverLook`, `FetchInstance`, `ReplacePlans` | `_cover_for_cik`: cached and of this schema version, else the newest annual report's instance; the cover and the arrangements are two commits |
| `Reply`, `Claim` | ten endpoints; a claim is the window they report and what they say is in it |
| `BackfillStart` .. `BackfillBreaks` | `section_backfill.py`: the newest filings of each form, oldest first; sections, metrics and similarity are three commits |
| `WalkStart` .. `WalkEnds` | `filing_index_backfill.py` |
| `Deploy` | a release with a higher schema version |

The text of a filing is whether it can be segmented.  `builds` is history: how
often a company's index was written to.

### `SectorTables`: the precomputed tables

A row of a group is the set of companies it was computed from, with the run that
wrote it; a company's SIC group at EDGAR may change at any time.  Jobs run one at a
time, with a step for each commit: the profiles, the DuPont and lifecycle
components, the six tables replaced wholesale (clear, then insert), the three
upserted by company, the dated snapshots with their pruning.  A request makes
its queries one by one.  One fiscal period stands for all; "peers" is the pair
of tables that `PeerAnalytics` details; the medians a score needs are one read.

### `SecAccess` and `ReadThrough`: the throttle and the ticker map

Tasks of several processes; a task gives way only at a lock, at the throttle's
sleep or on the wire.  `Ask`, `FoundFresh`, `Refresh`, `Loaded`, `LoadFails` are
`TickerCache`'s `resolve` with both looks at the age; `Grant` is the wake-up of
`RateLimiter.wait`; `RestartProcess` ends a process with all it keeps in memory.  Time is
counted in ticks, as distances capped where no code tells larger values apart,
so behaviours go on for ever.  `ReadThrough` is what a map read through a cache
promises, without locks or tasks; `SecAccess` implements it with the mapping
`age <- age`, `asked <-` the tasks at the lock, in the queue or on the wire
(`ActsAsOneMap`).  `meter` counts one process's requests from an arbitrary moment.
A waiting task that is cancelled is left out.

### `ApiGate`: buckets, keys, quotas

No dependency awaits, so each is one step.  `RequestTooFast`, `Request` and
`CountFails` are `require_api_key`, `Anonymous` is `limit_anonymous_traffic`,
`Signup`, `ChangeTier` and `RevokeKey` the handlers that change keys.
`LetThroughAsPage` is what both dependencies do when `_is_first_party_browser`
says so (auth.py:33-52, 71-72, 100-101): the request passes before its key, its
revocation, its rate and its quota are looked at, and leaves no count.
`FirstParty` is such a request with any key or from any address,
`FirstPartySignup` the sign-up form.  `pages` and `visits` are history, and the
properties that bound something are of the other requests (`Gated`, `Limited`):
the exemption is meant for the web frontend, and whoever sends its headers has
it ("a UX gate, NOT a security boundary", auth.py:41).  Tokens are
counted in parts of which a request takes `Second`, so that a tick at rate r
refills r parts and the code's floats become integers.  `Restart` empties the
buckets and keeps the counts.  A key is its e-mail address (unique); hashing is
left out.

## 3. The runs

Each passes; each property has a mutant of the code with which it fails.

| Run | What it asks |
|---|---|
| `backfill` | with two parsers, queues of two and up to two faults of any kind: is a company ever lost, or checkpointed without its facts; does the pipeline implement the store that grows by batches; does every run end; is everything ingested? |
| `fact_cache` | with two clients, the incremental, the frames backfill, failures of each and filings at any moment: is an answer ever invented, or older than one given before; does one source erase the other's columns; does a finished incremental leave a company out? |
| `statements` | over every history of five filings from a year-end on, with one odd report: does an answer about a period show that period's report and nothing else; do walks close; are quarters and years of a series what they brought, as originally reported also past restatements; does a figure as originally reported ever move under its tag? |
| `filing_cache` | with two requests, three kinds of job, resumption and a filing in two lists: is a cached filing ever dropped, an answer ever older than one before, a stale row missed by a repair? |
| `holdings_cache` | with an amendment, a manager that cannot be parsed and names that come and go: does a backfill reach all its candidates; is a resolved CUSIP ever unresolved? |
| `register` | over every pair of managers' reports of three quarters, replaced between queries: do the views of a register agree, the two flows mirror each other, the views of the register's shape fit, is an owner's newest row the one that counts? |
| `filing_docs` | over rolling lists, releases, kills and two backfills: is "none on file" true, a cover of this release, every parsed pair compared? |
| `peer_chain` | with filings at any moment, two faults and resumption by hand: is what is served ever half-written or mixed; does a completed walk cover all companies; do the tables catch up where a walk fits in the timeout? |
| `sector_tables` | with companies that move between groups and jobs that break between commits: do sectors shown side by side come from one run; is the group told the one ranked in; does the snapshot served ever go back? |
| `sec_access` | with two requests and a batch job: is the rate kept, is there one map, does every request end? |
| `api_gate` | over midnights, restarts, failed counts, changes of tier and a request with our own pages' headers: is a burst bounded, a waiting caller served, the quota kept? |
| `backup` | with a disk that fills up, three faults and a lost volume: does the last good snapshot survive, is a foreign `-wal` ever replayed, do backups go on? |

### Bounds, and why they are enough

* `backfill`: four companies, one unparsable and first in the zip, one without
  facts, and batches of two facts, so that batches of several companies, a
  batch larger in companies than in facts, a last partial batch and an empty
  one occur; two parsers, so that one can be finished while the other still has
  items under way; queues of two with three companies and two sentinels to
  put, so that each queue fills up and blocks; `--limit 3`, so that everything
  takes two runs even without a fault; two faults, so that a fault meets the
  recovery from another.
* `fact_cache`: two clients, who may ask for one period and for the history of
  one company; it files of two periods, so that a question can have no answer,
  one, or a restated one; a second company keeps the incremental busy and its
  fetch can fail while the first's does not.  Two filings: a history can be read
  before, between and after them.  `FactsCarryFrame = {FALSE}` is the harder
  case, in which the two sources know different halves.
* `statements`: five filings, from a year-end on: an annual report that comes
  without the quarters before it, the three quarters, and an annual report that
  comes with them and repeats the year before; a frame before the first filing; reads of a half-year and of the year,
  of three statements, and of a series of a flow, of a cash flow and of a level.  One
  report may change a tag: a recoded annual report and then a plain quarter make
  coverage choose another tag than before.
* `filing_cache`: two issuers and four filings, one of them in both lists, lists
  of two: two 13Gs push the second issuer's only insider filing out of its list,
  the case in which a larger limit finds nothing any more.  Two requests, two
  runs, one fault: a request falls between each two steps of a run and of its
  resumption.
* `holdings_cache`: a manager that amends and one whose original cannot be
  parsed; two runs, two requests, two changes of the name list.
* `register`: two managers and three quarters, so that a manager can enter,
  leave and come back; an issuer with two share classes, one resolved late, and a peer;
  reports with an option, a duplicated line, a row without a count, a principal
  amount, no place.  Among the owners' rows are a 13D/A, a form 4 filed later of
  an earlier transaction, a form 4/A of the same transaction date, rows without a
  count or a date.  Tenure of eight quarters is out of reach.
* `filing_docs`: one company, five filings, a list of three: the list rolls
  twice.  One amended annual report, two releases, two runs, two requests, one
  fault.  The tables of different companies do not meet.
* `peer_chain`: three companies: two form a group of exactly the minimum size,
  so that losing one removes the group; the third has no SIC; the second filing
  of company 2 makes its metric N/A.  Three filings and two faults.  `Timeout`
  is 3: a walk of two companies with facts fits and one of all three does not
  and is killed; both occur.
* `sector_tables`: two companies, two groups, one move, three runs, one fault;
  the seven jobs and four endpoints with a protocol of their own (the flow, the
  lifecycle and the sector list repeat those of mix and spreads), two days and one snapshot kept.
* `sec_access`: an interval of two, a map of three and a window of four ticks: a
  load outlasts an interval, a map expires while others wait, and a window holds
  two requests and a restart.
* `api_gate`: a key and an anonymous caller, rates one and two, half-second
  ticks for a second and a half, more than the second at which idle time is
  capped; a quota of one is exceeded and raised to three.  One request
  (`MaxVisits`) comes with the headers of our own pages, with the key, revoked or
  not, or from the address.  Callers share nothing, and the theorems are for any
  number.
* `backup`: `--keep 1`, copies of two units in a directory of seven: room for
  the kept, the running and the latest copy and one leftover unit; three
  faults fill it up, and a run then meets the full disk at either copy.
* Every run's counters (`Max...`) are guards of the actions that count, and
  constants of the module.  The theorems hold for every value of them.

`CHECK_DEADLOCK FALSE` is set where everything may come to rest: the backfill
when all is ingested or a run hangs, and the models whose runs and requests are
bounded.

### What the properties leave out, because the code does otherwise

Met while modelling; each is visible in the definitions.

* **Fact cache.** Rows that the frames backfill alone has written answer
  `_facts_for_cik` as if they were the full history (routes.py:483-484 says
  "full company history"); `has_any_facts` and the period query are two
  transactions, so an incremental between them makes the answer empty.
  `AnswersFaithful` excepts both.  A re-run of the frames backfill inserts a
  restating filing beside the superseded row, which comes first in a screening.
* **Series.** Where the quarter before has no cumulative value, a half year or a
  year appears as one quarter of the quarterly series (metrics.py:119-136),
  which its docstring calls discrete; Q4 is a restated year less unrestated nine
  months; the newest TTM uses the last four quarters up to `end` even if `end`
  itself is missing (metrics.py:340-351); the last point of an FY trend can
  differ from the annual value.  `SeriesOfQuarters` asks for the cumulative value
  of the quarter before.  As restated it also asks for reports that agree; as
  originally reported it holds past reports that restate or amend, where the
  period's own report is on file and none tags the concept otherwise.
* **Statements.** A footnote group whose tags occur in a comparative column only
  is served on that column (statements.py:216-219); "latest filed wins" does not
  reach next year's restated comparative (statements.py:25-27); statements choose
  a tag by the first with a value, metrics by coverage; a frame row without a
  filing date wins as "originally reported" until the filing is ingested
  (`ReportedStays` is about stores without such rows).  The basis
  "as-originally-reported" is one tag's, the one chosen by coverage
  (metrics.py:166-174): a report that recodes a concept, or a plain one after it, may
  switch the tag, and the periods told under the first tag alone are gone from
  the concept.  `ReportedStays` says of each tag that its periods stay, and of a
  concept that its periods do as long as the tag does.
* **Register.** `diff_holders` keeps the smallest of a CUSIP's duplicate lines
  and `diff_snapshots` adds them up; co-holding sizes, the map and the overlap
  count option rows; activity series read each quarter twice; the shape's
  "prior quarter" may not be adjacent; a half-ingested prior quarter yields
  "new" holders; two 13D/G rows of one date resolve to the older accession.  A
  form 4/A of the same transaction date does not supersede what it amends: rows
  come newest filed first, are compared by transaction date, and the last of
  equals stands (attribution.py:108, 174), against the docstring at
  attribution.py:96.  `OneRegister` drops rows only for one of a later date, as
  the code dates them (`DateOf`).
* **Holdings.** An original fetched before its amendment and stored after it
  stays until the next backfill (`RunCovers` is what repairs it); a reader may
  see the accession of one filing with the holdings of another.
* **Ownership filings.** An insider answer can be empty after one that was not: a
  request for more filings than are cached fetches EDGAR's list again
  (routes.py:543) and shows what it finds, and the filing shown before may have
  aged out of it.  `NeverOlder` excepts this, and no more than this.  A 13D/G filing in two lists has its owners twice, against
  beneficial_ownership_repository.py:36-37.
* **Filings.** A cached cover is never read again until a release, so a newer
  10-K is not seen; a stop between its two commits leaves the arrangements
  untold (routes.py:1176-1177 says otherwise); an index cut short by a kill is
  final; a window with a hole is reported whole; the supply summary reads 400 rows
  of the window it reports; a run stopped before metrics or similarity is never
  completed, as sections alone count as done.
* **Sector tables.** The medians of a score, and the parts of a theme, are read
  in later queries and may be another run's; rows upserted by company outlive the
  company's membership; a back-dated snapshot may be pruned at once.
* **API gate.** A request with the headers of our own pages passes without a
  limit, also with a revoked key, and anyone can send these headers, as
  auth.py:39-43 says.  `BurstBounded`, `QuotaHolds` and `RevokedStaysOut` are of
  the other requests.
* **Operations.** The weekly chain's `TimeoutStartSec` of 8 hours
  (secfin-peer-analytics.service:15) is below the run time its script measures,
  about 16 hours (run-peer-analytics.sh:65-73), and the timer begins the walk
  from scratch: with these numbers every run of the timer is killed within the walk,
  and the tables stay as they are until an operator resumes it by hand.
  `CatchUpWithinTimeout` is therefore of walks that fit in the timeout (`WalkFits`);
  `--limit` of the bulk backfill starves what is behind N unparsable entries; a
  Ctrl-C while processes are being started hangs the run; `secfin-latest.db` is
  overwritten in place, and an empty database is backed up like any other; the
  throttle is per process while SEC's limit is per address, and the bulk zip
  downloader does not pass it.

## 4. Fairness

* `Backfill`: weak fairness of the parent's, each parser's and the writer's
  steps (the operating system schedules every live process), and of `StartRun`
  (the operator runs the program again while companies are pending; the
  documented way to finish after an interrupt).  None of a fault or of
  `WalSync`.  Because nobody reads a dead child's exit code and the joins have
  no timeout, the liveness properties except a run that has lost a process
  (`Crippled`); what happens to data in such a run is covered by the safety
  properties.
* `PeerAnalytics`: `TimerFires` (the timer is `Persistent=true`), the steps of
  the script, and systemd's kill.  None of `Filing`, `ResumeByHand` or faults.
* `Backup`: the daily start, the steps of a run, and those of a restore once
  begun.  Nobody is obliged to begin a restore, to restart the stack or to free
  the disk; `BackupsKeepUp` therefore excepts a disk left full by a fault and a
  database that is never whole again.
* `SecAccess`: weak fairness of time and of each task once it has asked: the
  event loop runs what is ready, `asyncio.Lock` is first come first served, and
  httpx ends every request with an answer or a timeout.  None of asking,
  failing or restarting.
* The others state none; their properties are about what a step may do.

## 5. What is proved

The proofs are in eight modules; they assume only the named assumption of each
model: types and finiteness of the constants, sizes not zero.  One theorem has a
hypothesis more, and says so.  Every safety and action property of a run is
proved but three invariants of `Statements` (section 6).  Where a proof module is
about several models, their `Init`, `Next`, `Spec` and `vars` have names of their
own (`BackupInit`, `AccessSpec`, `docsVars`).

**`BackfillProofs`** (any number of companies, parsers, faults; any queue and batch
size).  `TypeCorrect` needs one addition to `TypeOK`: the parent has an entry
in hand exactly when it is putting one.  `NeverTwice` (no company is in two
places) uses `IInv == Shape /\ OnePlace /\ IdleIsEmpty`: with no run, nothing is
left anywhere, which is what makes a resumed run start from the checkpoints
alone.  There is a lemma for each action that moves a company, and general ones
about what `Append`, `Tail` and prefixes do to "is in the queue" and "all
different".  `CrashSafe` and `Refinement` follow from a lemma that classes every
step by what it does to the store (`StoreSteps`); for the refinement, `OnePlace`
shows that a flushed batch consists of new companies.  `NoneForgotten`
(`WriterAccountsForAll`: a writer that has finished has accounted for every
company that was fed) has to rule out that a company is lost between two
processes while the writer counts its way to the end.  `StopsComeLast` says that
a `_STOP` is the last item of its parser, and that once a parser has taken one no
company is left in the work queue.  `Tallied` is the count: stops seen plus the
parsers that may still deliver one never exceed the number of parsers, and a
company that was lost with a process took a `_STOP` with it.  So
either nothing fed is lost or the writer never reaches its count, and waits.
Without either part the invariant is not inductive: a parser that dies in its
`put` would leave a writer that ends one company short.

**`ScheduledJobsProofs`**, of two models.

* *The weekly chain* (any companies, groups, SIC codes, minimum size,
  timeout).  The inductive invariant is `TypeOK`, where each local variable may be
  in use (`Places`), `PublishedFromWholeWalk`, what a running aggregate has computed
  (`Working`), that an unfinished walk has a base (`OneWalk`), and how far it is
  (`Walking`: every company is to be visited, in hand or fresh).  `RanksAgree`
  follows from `Working` and a lemma that both aggregates keep the same groups
  (`AggregatesAgree`), `NoCompanySkipped` from `Walking`.
* *Backups* (any retention, size, room and number of files).
  `RestorePointKept` rests on `PruneKeepsNewest` (the file removed is never among
  the newest `--keep`) and on `Progress`: the snapshot of the last completed run is
  still in the list, and a run that prunes has just saved the newest file.
  `WalNeverForeign` adds that from the unlinking on there is no `-wal` and the
  stack is down.

**`FactCacheProofs`** (any companies, periods, clients and number of filings).
The inductive invariant has four parts: `Stored` (rows are of filings, and every
company's fiscal rows are a prefix of its filings), `Requested` (at each point of
the handler, what a request has read, fetched or answered fits what it will be
measured by), `Worked` (the payload in the incremental's hand covers what its
index named, and what it no longer has to do is stored) and `Framing`.  The
argument is monotonicity: `StoreStep` shows that every step of every process only
adds to the store and to the filings (`Grown`), and `SoundKept` that what is
right of a request stays right when they grow; so each proof about a request
looks at that request's own step alone.  `HistoriesWhole` says that no history is
ever stored in part; `ScreeningKept` follows from `Grown` directly.

**`LimitsProofs`**, of two models.

* *The API's gate* (any callers, tiers, rates, quotas).  `BurstIsBounded` rests
  on `IBurst`: what a bucket and the window on its caller have together never
  exceeds what the rate has granted up to the last refill; the cap and a change of
  tier only lower the left side.  `NobodyIsStarved` rests on `IStarved`: a bucket
  has a token, or all that was refilled since it gave one.  `QuotaIsKept` pairs
  each request let through with its count; `RevocationIsFinal` shows that a revoked
  address stays issued and inactive, so that no request of it is let through.  All
  but `NobodyIsStarved` are of the requests without our own pages' headers:
  `PageShape` and `PageRows` show that one with them touches no bucket and no
  count, and raises what was let through and what came as a page alike.
* *The SEC's* (any processes, tasks, interval, TTL, window).  `RateIsKept`
  rests on `Metered`: what was sent since the count was opened is paid for by the
  time since, less what the throttle still owes.  `MapIsOne`, the refinement of
  `ReadThrough`, rests on `LoaderHolds`: only the holder of the lock loads the map,
  and only a stale one, so that a second waiter finds it fresh or loads it anew
  after a failure.

**`SectorTablesProofs`** (any companies, groups, jobs, requests, faults).
`SideBySideOfOneRun` rests on `TablesOfOneRun` and `ClearedFirst`: between its
clear and its insert a table is empty, so that an insert never joins rows of
another run, whatever failed in between; and since the rows of a table are one
run's at every moment, those of a request that reads it in one query are, too.
`PercentilesNameTheirGroup` uses it too: a company is in one row of the ranks, and
the group told is that row's, wherever the company has moved since;
`SnapshotsForward` uses that the snapshots are dated no later than today
(`Dated`) and that pruning keeps the newest, `MaxOfBounded`.

**`FilingProofs`** (any companies, filings, requests, runs, lists and limits), of
three components.

* *Insider and 13D/G filings.* `FilingsKept` is step by step.  For
  `AnswersNotOlder` the invariant follows what a request knows (`Sought`): from
  the moment it is asked, `floor` is the newest any answer had shown, and what is
  fetched later is at least as new or empty because the list has moved on
  (`NotOlder`); and what it has decided not to insert is in the table (`Stored`).
  The proof showed that the property as first stated, without the exception of
  an answer that is empty, is false: four filings are needed to see it, and the
  run now has them.  `ReparseIsComplete` rests on `Covered`: an issuer the run
  has passed has no stale row it owed, the one it is at has in hand every row
  that is still stale, and after an interrupted run every issuer up to `resume`
  is clean, but those tallied as missed.
* *13F holdings.* `HInv` says that what is about to be stored is a snapshot of
  the manager asked about, and that every manager behind the backfill is at the
  zip's filing, has failed, or was overwritten by a request
  (`BackfillCoversManagers`).  `ResolutionsKept` is step by step.
* *Filing index, cover pages, sections.* `AbsencesHonest` has to show that an
  index never has a gap between its oldest and newest row, though its rows are
  committed one at a time and the writer may be killed at each.  `IndexedOnce`
  is why: a company that was written to once had one writer, that writes newest
  first, so that what is written is always the newer part (`Solid`) and what is
  still to come is older (`ToFollow`).  A second writer, with a list that has
  moved on, breaks exactly this, which is why the property is of companies
  written to once.  A claim that was honest stays so (`HonestKept`), since its
  window does not grow.  Its hypothesis `FewEvents` is that no company has more
  8-Ks than the 1000 rows the query reads (routes.py:1205, 3914): beyond it the
  code does report a window it has not read, and the theorem is not claimed.
  The run's constants satisfy it.
  `CoversCurrent` needs that no row is of a later version than the running code
  and that a release ends the requests (`CoverFresh`).
  `FilingsCompared` needs that the filing before (`FindPrior`) does not change
  once both are parsed, although rows are added to the index meanwhile: a parsed
  filing is indexed, and a filing newly indexed is not parsed (`PriorKept`,
  `ParsedPriorKept`); and that the filings of a company are done oldest first,
  so that none is parsed after its successor was compared.

**`RegisterProofs`** (any managers, issuers, reports and requests, over any number
of quarters).
`RegisterViews` writes its sums as folds of the library, which are recursive
functions; what such a function computes is proved here without an induction
scheme, by looking at a smallest set on which it would be wrong (`SmallestSet`,
`SumIterates`).  From this come the laws the views need: any element may be
taken out first (`SumTake`), disjoint parts add up (`SumSplit`), a count by key is
the count (`CountByKey`), and so on.

* *State.* `InvariantHolds`: reports and the rows read have their types, the rows
  of one manager read by one query are of one cover page (`OnePlace`), and an
  answer is made from as many registers as its kind needs (`Counted`).  It says
  nothing of two registers being of the same moment, and nothing below needs
  it: reports may be replaced between two queries.
* *Flows.* `FlowsMirrorHolds`: where no report lists a CUSIP twice, the smallest
  line and the sum of the lines are the same (`TotalOfOne`), so both sides take
  the same differences; and an issuer's net is the sum of its managers' moves.
* *Shape.* `ShapeAgreesHolds`: a streak of two quarters or more is just a manager
  present in both newest registers (`StreakIs`), each length is in one band
  (`BandIs`), and each newest manager survives in the one cohort it entered with
  (`SurvivorsAre`).
* *One quarter.* `OneRegisterHolds`: domiciles, categories, conviction and map
  partition the managers of the vector, or of all rows.  For the concentration, a
  ranked list exists and its first k have the most shares of any k
  (`Concentration` picks the least k with half of them); the Gini coefficient is
  taken over the ascending list, and `GiniHolds` adds the managers one by one to
  show that it is the sum of the differences of all pairs.  In the attribution an
  owner has one newest row, by the date the code takes, and dropping one of an
  earlier date, which shifts the places of those behind it, leaves that row the
  newest (`LatestSame`).

**`StatementsProofs`** (any company: any quarters, shapes of report and readers).
`InvariantHolds` says that reports are on file by rising date (`ByDate`: an
amendment is filed after what it amends and before the next quarter's report)
and that what is ingested is the first few of them.  Every read of the API is a
load of all or nothing (`ReadLoads`, route by route), so that a later load adds
only facts filed later than any on file (`FactsByDate`).  `PeriodStays` shows that
such facts change no period that had one, since on the original basis the first
filed stands.  `TagStays` lifts it to the durations and instants of every tag,
whatever later reports restate, recode or amend, and `FirstStays` to those of a
concept where coverage chooses the same tag before and after; together they are
what `ReportedStays` (`ReportedStaysHolds`) says.

## 6. What is only model-checked

* Liveness (`RunEnds`, `EveryCompanyIngested`, `CatchUpWithinTimeout`,
  `BackupsKeepUp`, `EveryRequestEnds`) is beyond the prover, which has no rule for fairness and
  `ENABLED`.
* `OwnPeriod`, `BridgeCloses` and `SeriesOfQuarters` stay with TLC, over all
  histories of the run.  What `StatementViews`, `MetricViews` and `BridgeViews`
  compute goes through `SelectSeq`, sorting by an operator and folds with a
  `LAMBDA`, whose laws take an operator as a parameter: the installed provers can
  neither state nor use them.  (The sums of `RegisterViews` are recursive
  functions, and the order of its rankings is a `CHOOSE`; these can be reasoned
  about, and are.)  In `RegisterViews`, the co-holding graph, the peer overlap, the median
  of tenure and the freshness of a quarter are in no property.
* The `TypeOK` of `FactCache` is not proved: which rows have a rowid depends on
  what `SelectSeq` leaves of a payload, and its laws, too, take an operator as a
  parameter.  `Shape` and `Stored` hold the rest of the types for the proofs.

## 7. Plan

1. A form of `StatementViews` whose choice of a fact among candidates is a
   `CHOOSE` over a set in place of a sorted list, so that `OwnPeriod` could be
   proved for statements as `ReportedStays` is for series.
2. Reports with a quarter missing and a 53-week year in `Statements`.
3. The dimensional walk, with two repositories and two commits for each zip.

## 8. Not modelled, and why

* The bulk zip downloader: a sequential download whose sidecar is written after
  its last byte.  What it does over a partial file is listed as a hazard.
* SEC document parsers, text scoring, embeddings, segments, classification:
  functions of one input without state, which the unit tests cover; the models
  take their results as values and let them fail.
* Tables of a single statement (embeddings, dimensional facts, audit matters);
  the dimensional walk, whose commits have the shape of the component walks.
* API wiring, validation of parameters, the shape of the JSON, the web frontend,
  fixtures, benchmarks and provisioning scripts.
