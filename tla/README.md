# ah-research: TLA+ specifications and proofs

ah-research studies and trades A-shares and H-shares: it searches and downloads filings,
extracts their text, collects official evidence of regulatory events, keeps durable
records of research runs, publishes reports, and backtests strategies over two markets
and two currencies. This directory holds TLA+ models of the parts whose correctness
depends on the order of steps, TLC configurations that check them on small instances, and
TLAPS proofs for every instance. Paths below are relative to the repository.

Run a check with `tlc -config MCRunStore_concurrent.cfg MCRunStore`, a proof with
`tlapm RunStoreProofs.tla`. `PROJECT.json` lists the runs, the properties, the source
lines every definition stands for, a mutation of the code that breaks each property, and
the hazards.

## 1. The system

| Component | State | Operations | What is hard |
|---|---|---|---|
| **Run store** `scripts/financial_run_store.py` | run directories, one `checkpoint.json` each, `index.json`, `.index.lock`, reports, shared artifacts | `resolve_run`, `complete_run`, `promote_artifact` | processes exclude each other with `flock`; two durable writes per operation; a crash between them; the index is repaired from the checkpoints by the next call; reports come and go outside the lock |
| **Research ledger** (same file) | `logs/research-ledger.json`, its binding in `checkpoint.json` | `bind_research_ledger`, `load_research_ledger`, and `complete_run`, which rewrites the same checkpoint | two files, not one; compare-and-swap on the bound hash; read-modify-write |
| **CAS publisher** `scripts/publish_text_cas.py` | the target, a `.partial` file, guard files, a lock file | `publish_text` | editors do not take the lock; the exchange comes before the comparison, so a mistake has to be rolled back while others write; guards are validated three times |
| **PDF extraction cache** `scripts/extract_pdf.py` | the cache directory of a PDF, staging and backup directories, a swap journal | `extract_pdf` | no lock; two renames with a journal between them; recovery by the next call, which may itself die; the PDF may be replaced meanwhile |
| **Backtest engine** `src/ah_research/backtest/` | cash per currency, positions, pending orders, locks, equity | the daily loop: corporate actions, execution, rebalance, valuation, lock expiry | orders live across days; halts and retries; T+N locks; two calendars and currencies; order sizes under costs with a minimum |
| **Walk-forward** `backtest/verify.py` | none | cutting a period into windows | rounding: no day may be judged twice or be seen before it is judged |
| **Filing search** `scripts/download_filings.py` | the answers of many queries, a catalogue, a manifest | `search_annual_reports`, `search_hkex_annual_reports`, `classify_annual_reports`, promotion, revalidation | the exchange publishes between two pages; answers are cut off; corrections and cancellations name a target or only a year; stored rows change their meaning |
| **Filing store** (same file) | the PDF and its sidecar, immutable copies and notes of origin, drafts and canonical manifests | `download_pdf`, `write_annual_manifest`, `promote_annual_manifest` | two renames per download; links that lose; a draft that is edited under review; crashes anywhere |
| **Event manifests** `scripts/build_event_manifest.py`, `collect_event_evidence.py` | evidence files, bundles, manifests | collect, publish, revalidate | everything is read twice because it may change; rosters with gaps; registers that have gone on; one event on two exchanges |
| **Data layer** `src/ah_research/data/` | a DuckDB cache, logs of fetched windows | prices, reports, constituents, rates, premiums | a log that vouches for rows written by another statement; prices adjusted for the window they came with; reports restated later |
| **Watchlist** `src/ah_research/watchlist/` | definitions and snapshots in the same DuckDB file | create, update, add, remove, delete, import, snapshot | read in one connection, write in another; one process has the file at a time |
| Backtest metrics, `engine` | none | statistics of a finished run | floating point |
| Market manifest, research reports | files | one linear script each | vendor formats |
| Profile renderer, chat, portfolio, strategies, analysis, integrations, CLI | none, or one session file | formatting, optimization, adapters | text and floating point |

How they interact: a research skill calls `resolve_run`, searches and downloads filings,
promotes a reviewed manifest, extracts the promoted PDFs (`extract_pdf`), collects event
evidence, binds its evidence as a research ledger, publishes `report.md` with
`publish_text` and then calls `complete_run`, which accepts only a report that is on disk.
The components meet in files: the run store sees the publisher as reports that appear and
disappear (`Publish`/`Unpublish` in RunStore); the extraction cache sees the downloader
as a PDF that is replaced (`ReplacePdf`); the search and the filing store share a
manifest, which the one fills and the other moves. The backtest is a single process; it
sees strategies as weights and the data layer as bars, corporate actions and rates. The
data layer and the watchlist share one database file.

What makes each correct: the run store never loses or duplicates a run and never hands
out one a crash can take away; the ledger's binding is never undone by a stale writer and,
without a crash, always loads; a publish either happens once on the expected baseline or
leaves nothing, and destroys no lone edit; a finished extraction survives every crash and
describes one content; a backtest conserves value, never looks ahead, never overdraws and
keeps the settlement rules; a search misses nothing and selects the report that counted on
the day; a promoted manifest is backed by immutable files for ever; an event manifest
holds together at one moment and covers the whole history of every role; the cache holds
what its logs say and answers a past day without hindsight.

## 2. Modules

| Module | Models | Properties |
|---|---|---|
| `RunRecords` | records, fingerprints, the choice of the latest run, initial and completed checkpoints | (operators) |
| `RunRegistry` | abstract: one table of runs, changed by single `Create` and `Complete` steps | is implemented by RunStore |
| `RunStore` | `resolve_run` and `complete_run`, one action per lock, decision and durable write; crashes; the clock | `IndexNeverAhead`, `OneUnfinishedPerInput`, `RepliesAreDurable`, `ImplementsRegistry`, `EveryCallEnds` |
| `RunArtifacts` | receipts, handoffs, and the names `promote_artifact` gives | (operators, with theorems) |
| `ResearchLedger` | bind, load and complete on one checkpoint and one ledger file | `NoLostUpdate`, `OnlyCrashesTear` |
| `PublishCas` | `publish_text`, one action per file-system call; editors, guards, crashes | `FailureLeavesNothing`, `OneWinnerPerBaseline`, `LoneEditSurvives` |
| `ExtractCache` | `extract_pdf`, one action per look at or change of the disk; failing system calls, crashes, replaced PDFs, overlapping calls | `NothingLost`, `CacheIsFaithful`, `AnswersWereSeen`, `SwapsSettle` |
| `Market` | calendars, currencies, rates with gaps, costs, settlement, lots | (operators) |
| `CashLedger` | what a priced fill does to cash and positions, reducing a buy to what cash allows | (operators) |
| `Backtest` | the daily loop over CashLedger: actions, orders, valuation, targets, lock expiry | `NoLookahead`, `NeverOverHolds`, `CashNeverNegative`, `FillsAreFair`, `SettlementHolds` |
| `WalkForward` | the windows of `walk_forward` | (operators, with theorems) |
| `FilingCatalog` | kinds of announcements, targets of corrections and cancellations, what is selected | (operators) |
| `AnnualSearch` | the queries of both exchanges, the manifest, promotion and revalidation of its rows | `SearchIsWhole`, `SelectionIsSound`, `NoLookAhead`, `WrittenIsPromotable`, `RevalidatedStands` |
| `Archive` | abstract: under a name at most one content, put there in one step, kept | is implemented by FilingStore and EventManifest |
| `FilingStore` | downloads, immutable copies, drafts and canon, one action per file-system call; crashes, edits | `ManifestsAreTrue`, `CanonIsBacked`, `OnlyEditsRetract`, `ImplementsArchive` |
| `EventRules` | subjects, tenures, queries, records and their merging | (operators) |
| `EventRegister` | registers that grow day by day, and manifests built for earlier days | `HistoryIsWhole`, `NoHindsight`, `NothingIsLeftOut` |
| `EventManifest` | collect, publish and revalidate against sources and files that change | `PublishedTogether`, `UndisturbedSucceeds`, `ImplementsArchive` |
| `DataCache` | the tables, the logs, and what every request leaves in them, whole or torn | `CoveredIsHeld`, `FreshIsContinuous`, `NoHindsight`, `NothingKnownIsMissing` |
| `Watchlist` | DataCache with the lists, the snapshots and the processes that open the file | `SnapshotIsOneCall` |
| `RunStoreProofs`, `RegisterProofs` (ResearchLedger with RunArtifacts; EventRegister with EventRules), `PublishCasProofs`, `ExtractCacheProofs`, `BacktestProofs` (with CashLedger, Market and WalkForward), `FilingProofs` (FilingStore; AnnualSearch with FilingCatalog), `EventManifestProofs`, `WatchlistProofs` (with DataCache) | | theorems (section 5) |
| `MC*` | instances of each model for TLC | |

`RunStore` EXTENDS `RunRecords` and instantiates `RunRegistry` with `runs <- cps`: the
checkpoints alone are the abstract table. `Backtest` EXTENDS `CashLedger`, which EXTENDS
`Market`. `AnnualSearch` EXTENDS `FilingCatalog`, `EventRegister` EXTENDS `EventRules`,
`Watchlist` EXTENDS `DataCache`. `FilingStore` instantiates `Archive` with its copies and
origins, `EventManifest` with its manifests.

### How state and actions correspond to the code

**RunStore.** `dirs`, `cps` and `index` are the run directories, their `checkpoint.json`
and `index.json`; `lock` is the flock; `mem`, `call`, `plan`, `reply` are the local
variables of a call. A run is the number of its `-vN` suffix; the model fixes one ticker,
skill, fiscal year and day, which all other runs of a store are independent of, except
that they share the lock. `CallResolve` reads the clock before the lock is waited for
(line 378 of `financial_run_store.py`), `Reconcile` is the read, repair and write of the
index, `Resume`/`Reuse`/`Allocate` are the three outcomes of the decision, and
`SaveCheckpoint` and `SaveIndex` the two durable writes. Each `_write_json_atomic` is one
step: it replaces the file with `os.replace`. `manual_review` is a status no code of the
repository writes and that the store treats as `in_progress`.

**RunArtifacts.** What is accepted as an entry of a ledger (receipt, request, handoff) and
under which name `promote_artifact` files an artifact. A hash stands for what it is a hash
of. The contracts of requests and ledgers are constant operators: the theorems hold
whatever they say.

**ResearchLedger.** A ledger value stands for its canonical JSON, hash and identifier at
once, and is taken to be valid: the contract of its content is validated before the lock
is taken and changes nothing. `complete_run` is here only as the other writer of the
checkpoint.

**PublishCas.** A content is named by who wrote it, so equal hashes are equal contents.
`Guards1`, `ReadBaseline`, `Stage`, `Guards2`, `Swap`, `Compare`, `Guards3`, `Reread`,
`Unlink`, `Restore` (three labels) and `Final` are the calls of `publish_text` in their
order. Renaming is `RENAME_EXCHANGE`. `superseded` is a history variable: contents an
editor replaced or removed, or a publisher took out as the baseline it was asked to
replace.

**ExtractCache.** A directory is a record of what was extracted, from which content, what
its metadata says, and whether `rmtree` has begun on it. `Look` is the two `if`
statements of the recovery evaluated one `exists()` at a time. `ExtractText`,
`ExtractImages`, `Describe` and `Described` each succeed or fail, and each may see another
content of the PDF than the one before. A system call may fail at every step: where the
handler of the second rename catches it, the handler's own steps follow (`InstallFails`,
`Undo`, `GiveUp`), and anywhere else, in the handler, in the recovery and when the old cache
is moved out too, the exception leaves the call with the journal and the backup as they are
(`IoFails`), and the `rmtree` of the finally clause may fail as well. `filled`,
`overlapped` and `tripped` are history variables; the last holds the calls `IoFails` ended.
Staging directories that such a call leaves before the journal exists stay on disk for
ever, in the model as in the code.

**Backtest.** `phase` is the position in the day. Bars, corporate actions and target
weights are drawn every day, so that a run covers every data set and every strategy over
the given values. `RebalanceDates` are computed from the periods the days fall in, as the
scheduler does. The valuation of a rebalance and of the end of the day is done once,
because nothing changes the books between them. Symbols of one exchange trade on that
exchange's days; SH and SZ share calendar, currency and settlement and are one market.
`bought` and `allowed` are history variables. `allowed` is, per symbol, the whole shares the
weight of the last rebalance pays for (`PaidFor`, a division of its own, which does not know
of lots), with the orders that halts had put back at that moment and the sales refused since;
a split or another ratio sets it to what it leaves of the position and its orders.

**FilingCatalog and AnnualSearch.** An announcement is the kind its title has (report,
corrected report, cancellation, correction notice, other, malformed), the year that title
names, the fiscal year its record keeps, the years it is about, an explicit target if there
is one, and its time; the patterns that tell the kinds apart are not repeated. HKEX may state
the end of the report period beside the title, and a notice then has two years
(`Consistent`). `_classify_annual_catalog` walks along the catalogue; FilingCatalog says
what comes out: `Target` of a notice, `Heard` and `Removes` for cancellations up to the
first that takes the chosen report away, `Uncorrected`, `Refused`, `Selected` and the
`Status` of every record. In AnnualSearch the exchange publishes (`File`) and turns a
report into its cancellation (`Withdraw`) at any time between two queries. `windowed` says
whether cninfo leaves out what is later than the window the query asks for, which ends on
the day of the search (the code filters again either way). `ReadPage` and
`ReadWindow` are the two search loops with their refusals; `Classify`, `Write`, `PromoteRows`,
`BeginRevalidation`, `Reask` and `Revalidate` are what is done with the answers. A manifest
is promoted from records rebuilt from what it stores of them (`Rebuilt`), not from the
answers; a revalidation compares the bodies of the answers (`BodiesOf`), not the moments
they were given. Time is in days and counts: that an `announcementTime` written as
milliseconds may come back one less (line 1846), and that the last check of a revalidation
takes the day of a time in UTC (line 2439), are not in the model.

**FilingStore.** One fiscal year of one company: `pdf` and `sidecar` are replaced by every
download, `copies` and `origins` are the archive, `drafts` and `canon` the two directories
of manifests. A manifest's place is its first name or the name with its own hash, which
`LinkDraft` and `LinkCanon` try one after the other. Every read, rename and link is a step
of its own, so processes interleave and die between any two. `EditDraft` is a reviewer.
`served` is a history variable.

**EventRules and EventRegister.** A tenure is a person, a role and two days; a record has a
category, a subject, a day, a day of publication and a state. `Continuous` is the walk along the
tenures of a role, `ValidRoster`, `HistoryStart`, `RequiredSources`, `ValidRecord`,
`Events` and `Aggregate` are the checks and conversions of `build_event_manifest.py`; what
an official answer looks like as JSON is abstracted to the fields that are read from it.
`ValidListing` is what the profile of a listed company has to say. `AnswerTo` is a source's
part: it answers with the records a query selects. That `_load_response_pages` and
`_events_from_live_pages` put the pages of an answer together, or refuse them, is not
modelled: `Answers` and `LiveEvents` are whole.
EventRegister lets the official rosters and registers grow, with pending events that
become final, and builds (`BuildManifest`) and revalidates manifests for today or an earlier
day; a revalidation asks for the roster (`SubjectsStand`) and the events (`LiveEvents`)
again. Every category is asked for from a day of its own; the code lets each of its sources
have one. Whoever declares the subjects may leave one out or take one as still serving. A
revalidation ends the run (a bound). `past` and `known` are history variables.

**EventManifest.** All reads of a job, in the order of the code, are its `Program`; a
process carries out one instruction after the other (`Fetch`, `Look`, `Link`, `Open`,
`Reopen`, `Agree`, `Keep`, `Ask`, `Same`, `Clear`). Sources change (`Change`), quotes move
all the time (`Quote`), files and bundles are edited. `moments` and
`settled` are history variables: the states of the world since the job began, and which of
them is the first at which all items had been read.

**DataCache and Watchlist.** A row of prices is the set of corporate actions it was
adjusted for; a figure of a report is its version. A request is the torn states it may
leave behind and the one it ends in. DuckDB lets one process have the file open, so what a
request leaves in the cache is one step; calls of the watchlist that open several
connections are several steps (`Read` and `Write`, `ImportDelete` and `ImportCreate`), and
a snapshot is taken while the process holds the file: its five connections are one step
because the repository it reads from has the same file open throughout. That is so for the
CLI (`scripts/_factories.py:25` opens the file that is also the store's default), but
`WatchlistStore.snapshot` takes any repository; with one over another file, another call may
come between its guard and its insert, and `SnapshotIsOneCall` says nothing of it.
`dated` is whether the source of reports says when each version became known. One that does
not gets the day of publication instead (`KnownAsOf`), and at most one restatement of a report
is published then, because two would share the key of their table; restatements are
marked as such either way. A source without any mark, whose rows all count as audited, is not
modelled.

### Abstractions to know of

- Money is integral: a proportional cost is rounded down to a unit and the loop's
  tolerance of one unit for a negative balance becomes zero, which is below the unit.
- The average cost of a position decides nothing. It is left out except for the division
  that updating it makes; where it divides by zero the run ends.
- At most one corporate action per symbol and day (a bound).
- The gross exposure limit of the code is the condition on `Frames`.
- Exchange rates are whole numbers.
- Titles, adapters and vendor tables are replaced by what is read from them.
- A content, an answer and a version stand for their hash.

## 3. Runs

| Run | Instance | States |
|---|---|---|
| `concurrent` | 2 processes, 2 inputs, 2 runs, 1 crash | 536 220 |
| `live` | 2 processes, 1 input, 2 runs, 1 crash, a clock that moves, fairness | 121 348 |
| `swap` | 2 publishers on an existing file, 2 edits, 1 deletion, 2 guard changes, 1 crash | 30 334 |
| `update` | 3 processes, 2 ledgers, 2 crashes | 23 426 |
| `long` | one A-share, 6 days with 4 rebalances, long-only weights, halts, both price limits, dividend, split, costs, T+1 | 5 306 197 |
| `pair` | an A- and an H-share, long and short, 4 days with an HK holiday, halts, limits, slippage, rates with a gap | 2 892 938 |
| `crashes` | 2 calls that may overlap, 2 crashes or failing system calls, 2 replacements, 2 models | 5 783 707 |
| `search` | either exchange, 3 announcements at 3 times, one of them without a readable year or with two, a search on the second, its manifest written that day or the next, pages of 1 row, windows of 2 | 2 548 006 |
| `evidence` | 2 downloads, 2 promotions, 2 addresses, 2 contents, 1 change, 1 crash, 1 edit | 124 723 |
| `register` | 3 days, one or two listings, two sources, a day to begin with for each category, 1 later tenure, 1 record | 963 790 |
| `events` | 2 processes, 2 jobs, 1 change, beginning with nothing or with a bundle | 129 538 |
| `data` | 2 symbols, 1 constituent, 2 days with a split, 1 report in 2 versions, from a source that dates them or not, 2 processes, 1 request, 3 calls | 1 051 070 |

All pass. What they show:

- **Run store.** Whatever process dies between the two writes, the checkpoint is ahead of
  the index and never behind it; this is what makes it sound to repair the index from the
  checkpoints. A crash that lost the index entry does not lead to a duplicate run. The
  whole store implements a table with indivisible `Create` and `Complete`, and every call
  is answered.
- **Ledger.** No read-modify-write undoes another, and only a crash separates a binding
  from its ledger.
- **Publisher.** A failed publish leaves nothing; one publisher per baseline succeeds;
  a lone edit of an existing file is never lost. With two edits around a rollback one can
  be lost: `_restore_exchanged_target` exchanges twice and its partial file is unlinked.
- **Extraction.** A finished extraction survives crashes and failing system calls of the
  swap *and* of its recovery, the next call that ends by itself clears away what they left,
  and no answer describes a content the PDF did not have during the call, as
  long as calls do not overlap. `CacheIsFaithful` holds even if they do. When they overlap,
  a hit may be answered with the metadata of a cache it did not validate, and recovery can
  take a live swap for a dead one: `overlapped` marks the states the other properties do
  not speak of.
- **Backtest.** For long-only strategies on A-shares, across halts, price limits, splits,
  dividends and costs with a minimum: no lookahead, no overdraft, and settlement holds also
  when a sale is retried under a lock that a later buy renewed. A position and its orders
  never come to more than the weight of its last rebalance paid for, plus the orders that
  halts had put back by then and the sales refused since; without such orders nothing
  overshoots, with them the code does (section 4). With shorts and two currencies value is
  still conserved up to costs.
- **Search.** A search that ends has seen every announcement up to the cutoff that had been
  made when it began (all there were, if cninfo does not apply the window), although pages
  shift and answers are cut off: every inconsistency is a refusal.
  The selected report is the newest of its year, nothing later cancels it, and a later
  correction notice only accompanies it. What comes after the cutoff changes nothing. What is written
  passes the checks of promotion, but for two cases: a notice whose year its row does not
  keep (section 4), and a row of the new day in a manifest written after midnight. What a
  revalidation confirms is so at its beginning, also when the exchange has published since
  the search and between the repeated queries.
- **Filing store.** A manifest names a content its address has served; canon is backed by
  an immutable copy and its origin, at every moment and after any crash; a manifest a
  promotion answered with stays, unless a draft is rewritten while it is promoted; copies and origins
  are an archive.
- **Events.** The walk along the tenures of a role accepts exactly the histories without a
  gap, however tenures nest, touch or overlap; nothing that was published later is in it, and
  nothing due is left out. A manifest published while sources and files change binds files
  to answers that held together, a job that nothing disturbs is not refused, and manifests
  are an archive.
- **Data.** What a log vouches for is in the cache, however a request was torn; a series
  just fetched is adjusted for one window; a past day is read with all that was known, and
  without hindsight but for restatements of a source that does not date them (section 4); a
  snapshot is of one call.

### Bounds and why they are enough

Two concurrent actors are enough for every two-party race, and one crash for a crash
between two writes; `update` adds a third process because a read-modify-write may be
overtaken by two others, and `swap` two edits and a deletion because the rollback looks at
the target twice. `MaxRuns = 2` allows a duplicate and a parent. The clock of `concurrent`
stands still: with it the choice of the latest run is by version; the proofs cover every
clock. `crashes` starts from an empty or a filled cache, so that two calls make a swap and
the recovery of it, and with two faults the recovery can die as well; two replacements
are a change and a change back. Six days with rebalances on the first, third, fourth and last
are an order, its fill, the expiry of its lock, a sale that is put back on the next day while
a buy is queued, overtaken by it on the day after and refused on the last one; and a buy that
is put back under a rebalance that orders it again (all of them were seen to be reached). A lot of 2, prices of 1 or 2 and capital
of 9 and 17 make orders that are full, reduced and refused. `long` needs capital that is no
multiple of the price, so that the minimum commission decides.

Three announcements are a report, what corrects or cancels it and what replaces that;
pages of one row shift with every publication, and windows of two rows are cut off and
split with three. Two downloads and two promotions give every pair of them, and two
addresses with two contents a content that both serve. Three days are a past day, its
history and a later one; two sources, one of which is first, an event both publish. One
change of a source or a file is enough to tear any pair of reads; two jobs are a collection
and the publication of it, a publication and its revalidation, or any two at the same time. In `data` the day of the split is inside a
window of two days, reports are about the first and may be restated on the second.

Processes, inputs, ledgers, publishers, contents and models are symmetric; a model value
says no more than that two of them differ. No symmetry is used for liveness.

Deadlock is checked for RunStore and ResearchLedger, whose processes call again and again.
The other instances have a finite number of publishers, days, calls, jobs or announcements
and then stop.

### Fairness

`FairSpec` of RunStore assumes weak fairness of every `Step` of a process, since a process
that holds the lock runs Python code without waiting for anything, and strong fairness of
`Acquire`, since the kernel queues the waiters of a blocking `flock` and a lock that is
released again and again is granted to each of them. Crashes, calls, reports and the clock
are not fair. No other module states liveness: the other components wait for nobody except
FilingStore for its lock, which is held over a few renames and is released by the kernel
when its holder dies.

## 4. Known divergences

Where the code does something its own words or tests do not say, the models follow the
code; the properties are stated for what holds, and these are listed here instead. Each
was met while modelling and compared with the source again.

- `scripts/publish_text_cas.py:156`. The rollback of a publish to an absent target reads
  the file and then unlinks whatever is at the path: an edit made between the two is
  destroyed, although the error is "Raised when a text artifact cannot be published
  without data loss." (line 16). `OnlyRollbacksLose` shows that, besides this, an edit is
  only lost in `_restore_exchanged_target`: by the second exchange back, or by one that
  fails because the target is gone.
- `scripts/financial_run_store.py:699`. Replacing a binding writes the ledger and then the
  checkpoint; a crash in between leaves a checkpoint whose hash is not that of the file,
  and every later load and bind raises, although the docstring at line 670 says "Atomically
  bind the singleton research ledger to a value-profile run." Nothing else does this
  (`OnlyReplacementsTear`) and no call mends it (`TornForGood`).
- `backtest/cash_ledger.py:237`. A cover of a whole short divides by zero shares and the
  run aborts; `rebalance_scheduler.py:98` documents "negative -> less negative -> cover".
- `backtest/order_executor.py:227`. The A-share rule looks at orders whose side is "short".
  A change from a positive position to a negative target is one order with side "sell",
  which leaves a negative A-share position, although the design says "Shorts on SH/SZ:
  blocked by default." (`docs/superpowers/specs/2026-04-29-ah-research-phase-2-backtest-design.md:382`).
- `scripts/extract_pdf.py:214`. `is_cache_valid` hashes the PDF again instead of using the
  hash of the start, so a PDF that is replaced and put back around it is answered from a
  cache of the other content, which line 575 is there to refuse.
- `scripts/extract_pdf.py:598`. Image descriptions that are missing fail the call, and
  nothing is cached. The module's docstring promises the opposite for a missing key: "images
  are still extracted but their ``.md`` files contain an error stub instead of a real
  description." (lines 22-23), and so do the note `main` prints, "LLM descriptions
  unavailable — see per-image .md stubs." (line 707), and the exit code for a result with
  errors (lines 714-715), which `extract_pdf` never returns. The conjunct `~cache.errors` of
  `CacheIsFaithful` states what the code does.
- `scripts/download_filings.py:702`. A row cninfo has turned into a cancellation becomes
  the target of the next notice of its year, "leaving no separate eligible record to
  anchor the replacement chain" (lines 524-525); a later cancellation that is referred to it
  is not among the candidates, and the search raises instead of going on without it.
- `scripts/download_filings.py:1068` and `:1074`. A notice of HKEX takes its fiscal year from
  `REPORT_PERIOD_END`, if that is given, and the record says of the same period end that none
  applies ("不适用"). The promotion rebuilds the notice without it (line 1841), reads another
  year from the title, or none, and refuses the manifest of a search that was accepted.
  `WrittenIsPromotable` demands promotion unless there is such a notice, or the date was read
  from the clock a second time after midnight (lines 772, 1175 and 3167).
- `scripts/build_event_manifest.py:2318`. The events of the first source of a category are
  taken as they are and only those of the others are merged into them; validation and
  revalidation (lines 2813 and 2901) merge all, starting from nothing. Two equal events of
  the first source are therefore published as two and refused as one.
- `scripts/build_event_manifest.py:2107`. A rolling query has to say
  `include_open_before_start`, so that what happened before its window and is still open is
  in the answer. A manifest for an earlier day is built from what the sources answer today:
  an event that was open on that day and has been concluded since is no longer open, and
  nothing notices that it is missing, if the source goes by the state it has now. Met while
  proving `NothingIsLeftOut`, which therefore demands an event from before the window only
  if it is open when the manifest is built. The model's sources go by the state of today
  (`Inside`); what the real ones do is not in the repository.
- `backtest/order_executor.py:220`. The lock of T+N is looked at for sells and covers only,
  although the plan says "Before executing a sell/short order, check `d <=
  position.locked_until`" (`docs/superpowers/plans/2026-04-29-ah-research-phase-2.md:1211`).
  A short order that limit-downs put back may be overtaken by a buy of its symbol, and then
  sells the shares that are locked. Met while proving `SettlementHolds`, which is therefore
  proved unless short orders of a locked symbol and halts come together, and checked for
  long-only weights; TLC shows the case on an instance of one A-share with
  `a_share_short_allowed`, signed weights, limit-downs and T+1.
- `backtest/order_executor.py:223`. A sale is refused while `d <= locked_until`, so shares
  bought on day 1 are sold on day 3 in Shanghai and Shenzhen and on day 4 in Hong Kong, if
  these are trading days. The design's pseudo code (line 313) and the plan
  (`2026-04-29-ah-research-phase-2.md:1199`, "day-2 sell rejected") say the same; but the
  design's list of tests says "sell day 2 succeeds (SH/SZ); same pattern day 1 → day 3 for HK"
  (line 509), which is T+N as the exchanges have it, and the docstring at
  `tests/unit/backtest/test_order_executor.py:182` "When ``locked_until <= d`` the sell goes
  through." `SettlementHolds` states what the code does.
- `backtest/backtest_loop.py:626`. An order that a halt or a price limit puts back keeps its
  size, and the next rebalance sizes another one by the position alone
  (`rebalance_scheduler.py:207`); both fill, and the position passes its target, against
  "conservative — never over-hold after a rebalance" (the design's line 386). The same when a
  sale is refused because of the lock, which is not retried. `NeverOverHolds` allows for just
  these orders; with them left out TLC finds it violated on the `long` instance.
- `backtest/corporate_actions.py:176`. A reverse split changes the position and not the
  orders that wait for their fill; `cash_ledger.py:257` sells what the order says, so an
  order sized before the split sells more than there is, and a long-only strategy ends with
  a short A-share position, against the same line 382 of the design. Met while proving
  `LongStaysLong`; TLC shows it on the `long` instance with `Ratios = {<<1, 2>>}`.
- `watchlist/store.py:158`. `add_symbol`, `remove_symbol` and `update` read the list in one
  connection and write it in another: of two at the same time one is lost.
- `chat/chat.py:59`, read and not model-checked. The user's turn is recorded first "so
  --resume works even if the API fails", and tool results are recorded as they come, but
  the answers of the assistant that asked for the tools (line 82) are kept in `messages`
  only. `_build_messages` (line 118) therefore rebuilds, on any later turn and after
  `--resume`, tool results whose request is not in the message before them.
- `data/converters.py:207`. Where a source gives no `known_as_of`, the day of publication is
  taken (tested at `tests/unit/test_converters.py:311`; `integrations/_protocols.py:56` does not ask for the
  column), "restatements override" says the docstring, and `model/schemas.py:63` that it is the
  day from which the value was knowable, which differs from the publication "only for
  restatements". A restatement from such a source that keeps the day its report was first
  published is read for days before it was made, by a read whose docstring says "PIT-correct"
  (`data/cache.py:175`). `NoHindsight` excepts restatements that are not dated, and nothing else.
- `data/config_repository.py:45`. Constituents are promised "PIT-correct"; a snapshot is
  written as memberships without an end, so a symbol that left the index before a later
  sample is still read as its member. `NoHindsight` is about what holds: nothing is read
  that was not a member on some earlier day.

## 5. Proofs

The proofs hold for every value of the constants that the `ASSUME`s of the modules allow
(sets of processes of any size, any bounds). Unless said otherwise a module follows one
line: a strengthening `IInv`; one lemma that the initial states have it, one per action
that the action preserves it; the theorems follow from it.

- **RunStoreProofs.** `IInv` adds to `TypeOK`: only the holder of the lock is inside a
  call (`CallInv`); the index is, entry by entry, the
  projection of a checkpoint or lags behind it (`DiskInv`); the index the holder has in
  memory is the exact projection of the checkpoints (`MemInv`); and a planned write is
  for a fresh directory and agrees with what the registry would create (`PlanInv`). The
  last two are needed for the refinement: the parent and the invalidated artifact of a new
  checkpoint are computed from the *loaded* index, and equal those computed from the
  checkpoints. The lemmas `LeastNat`, `GreatestNat`, `NewestExists` and `LatestExists` show
  that the choice by `_run_sort_key` is well defined. Theorems: `TypeCorrect`, `IndexSafe`,
  `NoDuplicateRun`, `DurableReplies`, `Refinement`. Three more say what this amounts to.
  `RunsAreKept` (an action property): a run on record stays on record, in the checkpoints by
  the refinement and in the index because the holder's copy is current (`PathInv` for the
  path it is bound to). `DescentIsOrdered`: the parent of a run is on record under a smaller
  number; as a run is not always created after its parent by the clock, this rests on the
  directories, which have the first numbers there are (`NumberInv`). `HolderGoesOn`: in every
  state the holder of the lock has a next step, no index makes `_reconcile_index` refuse it,
  and the bound `MaxRuns` stops nobody (a count, `RoomInv`), which is the part of
  `EveryCallEnds` that needs no fairness.
- **RegisterProofs, the ledger.** The copy of the checkpoint is current under the lock
  (`CopyInv`), and without a crash file and binding differ inside a call only (`FileInv`).
  Theorems: `TypeCorrect`, `NothingIsLost` (an action property), `LoadsWithoutCrash`. Two
  action properties, also checked by TLC on the instance of `update`, say what a crash does:
  `OnlyReplacementsTear`, a binding that can be followed ceases to be only when a call that
  replaces a binding dies between its two writes, so first bindings are safe; and
  `TornForGood`, from then on file and binding stay as they are and only completions succeed.
  And of RunArtifacts: `ReceiptFixesRequest`, two valid entries with the same planner
  inputs are for one claim and one request; `CandidateStaysWithItsClaim`, what is handed
  over belongs to the claim it was accepted for; `PromotionNeverCollides`, a promotion never
  meets another artifact under its name.
- **RegisterProofs, the registers.** Shown of EventRegister, with which the ledger has nothing
  in common but the module. What a manifest says is computed by recursive functions (the walk
  along the tenures, the picking of an answer, the merging of events). A recursive function
  is a `CHOOSE`, so nothing is known of it until some function is shown to satisfy its
  equation: `Climb`, induction up to a bound over a *set* of numbers, comes from the least
  number of a set, and gives `Walk`, that steps which stay in a set can be taken one after the
  other. From then on facts are shown step by step: `WalkIsWhole` (the days before the
  cursor are covered and the day of a cursor that stopped is not, because the tenures are
  sorted; that they can be is `OrderExists`), `Picked`, `OneMerged`, `Merged`, `AllMerged`.
  Merging keeps `FactsOf`, what a list says record by record, and keeps the provenances of
  its events apart (`Apart`), which together say that each wanted record is in one event
  (`WholeList`). The inductive invariant, `RegisterInv`, says that registers only go on:
  of every earlier day, the tenures and records of today are those of that day, except for
  what came after it (`Turned`, `Grown`). The checks of a manifest for that day turn down
  what came after it, so its roster and its records are those of the day. Theorems:
  `RegistersGoOn`, `HistoryStands`, `HindsightIsExcluded`, `TheRegisterIsWhole`, and
  `RevalidationSaysTheSame`: `build_manifest` and `revalidate_manifest` merge differently
  (section 4), but their lists say the same. They assume `ListingAssumption`, that every
  exchange has a required source in every category, which `REQUIRED_SOURCE_IDS` has.
- **PublishCasProofs.** `IInv` says which content is where at every label: no content is
  in two places (`UniqueInv`), what each partial file holds (`StageInv`), where a
  publisher's own body can still be (`BodyInv`), and that the baseline of a success is gone
  for good (`GoneInv`). Theorems: `TypeCorrect`, `FailureIsClean`, `SingleWinner`, and
  `LoneEditIsSafe`. For the last, as long as nobody deletes the file and at most one edit is
  made, the file is there; between the exchange and the end of a rollback the target holds
  the publisher's own body or that edit, and so does what the exchange back brought out; a
  baseline is dropped only once it counts as superseded. `OnlyRollbacksLose` is about any
  number of edits and deletions: it names the steps that may destroy an edit nobody replaced,
  all of them in rollbacks. TLC checked it for a target that exists at first and for one
  that does not, and found each of the named steps to be needed.
- **ExtractCacheProofs.** Calls take no lock, so nothing excludes overlapping calls; three
  parts of `IInv` hold all the same: `TypeInv`, `NamedInv` (a recovery knows the call whose
  journal it found) and `FaithInv` (a directory that is or may become the cache says the
  truth about what it was extracted from). The rest is about states that `overlapped` has
  not marked: what a call has hashed the PDF held since it began (`SeenInv`), calls run one
  after the other (`OrderInv`), and then the program counter of the one that runs says what
  is on the disk, `LabelInv`, and with nobody running the disk is what the last call left,
  `DiskInv` (together `SoloInv`). `DiskInv` is what a crash or a failed system call leaves
  and a recovery starts from: a journal that nobody works on is the last call's, which died
  or is in `tripped`; it would not be inductive without a label for every moment in between. Theorems:
  `TypesHold`, `CacheNeverLies`, `ExtractionSurvives`, `NoStaleAnswer`, `CrashesAreCleared`.
- **BacktestProofs.** One invariant per question, over `TypeInv`.
  *Fills:* the algebra of CashLedger, where every product of shares, prices and
  rates is named so that conservation is linear; a buy that is reduced is reduced to an
  affordable number of lots, since the greatest element of a finite set is in it.
  `FillsConserveValue` holds without further assumptions.
  *Settlement:* `LockInv` ties the lock of a position to its last buy, or says that it has
  run out; a lemma counts the trading days a lock waits for. Short orders are not checked
  against the lock, so `SettlementIsKept` needs that one of a locked symbol does not meet a
  buy: there are none (`LongInv`, for long-only weights or where `a_share_short_allowed`
  bars them), or nothing puts orders back and it is the only order of a symbol that is not
  held (`ShortInv`, which follows how a rebalance sizes its orders). Section 4 says what
  happens otherwise.
  *Targets:* `HoldInv` is `NeverOverHolds` with the fact that the queue of a day is empty but
  while it is executed. The orders of a queue are added up by a recursive function, of which
  nothing is known until one that obeys the recursion is shown to exist and to be the only
  one (`SumsExist`, `TotalIs`, both by a least counterexample); then an order that is added or
  taken away changes the sum by its part (`QueuedMore`, `QueuedRest`), a fill takes that part
  or less, and the lots of a target cost no more than its weight pays for (`LotsCostLess`).
  `OrdersMeetTargets` assumes nothing.
  *Holdings:* `HeldInv`, what is queued to be sold is held and queued once. `LongStaysLong`
  assumes long-only weights, and excludes the two ways in which it fails, halts (two orders of
  one symbol, section 4) and reverse splits.
  *Cash:* `CashInv`, no balance is negative; a buy is reduced to what the cash pays for,
  a sale pays its own costs. `NeverOverdrawn` assumes what the code leaves to its user. One
  currency, because a buy is sized by the cash of both together and a shortfall is taken from
  the base balance unseen. Sales that bring their costs (`SalesPay`), because the minimum
  commission may exceed the proceeds; it is demanded of whole lots only, unless a ratio
  leaves parts of lots (`LotInv`). And no dividends on short positions, which are paid
  without looking at the cash. Every assumption of these theorems but `NoHalts` holds in the
  `long` instance; without its halts TLC checked `HeldInv` and `CashInv` on it first.
  *Time:* `NeverLooksAhead` speaks of the orders that are executed, which were queued days
  before and may have been put back by a halt; `QueueInv` therefore dates the whole
  queue: until a day's valuation every order in it is older than the day, afterwards it may
  be of the day. For `walk_forward`, `JudgedOnLaterDays` shows that every window a
  strategy is judged on comes after the one it was fitted on, and `JudgedOnAllTheRest` that
  these windows follow each other without a gap or an overlap to the last day.
- **FilingProofs, the store.** The archive only grows, so what was validated against it stays
  valid. `IInv` follows what a process knows: a downloader, from the answer to the lock and
  again once the sidecar was read, that its address has served its body; a promoter, that
  its draft is backed by the archive. Theorems: `TypeCorrect`, `ManifestsTellTheTruth`,
  `CanonStaysBacked`, `NothingIsRetracted`, `Refinement`; and `NoPromotionIsTurnedDown`, with
  `DraftingInv` (what a downloader is about to draft is backed), `DraftInv` (so is every draft,
  the one at the first name until it is rewritten) and `PromoterInv` (a promoter's draft is
  backed and still there, unless it lies at the first name and drafts were rewritten).
- **FilingProofs, the search.** Announcements are numbered in the order of their times and a
  time never changes, so rows that were read at different moments still form a catalogue in
  order (`Catalogue`, kept by `ReadInv`); in such a catalogue a newest element exists and
  `Before` is the order of the numbers, and everything about selection follows without
  induction. `WholeInv` is about what is missing: pages of one unchanged total whose rows are
  disjoint and as many as the total are all of them (a count), and every day of HKEX is in a
  window whose answer was not cut off or in one still to be asked for (the halves of a window
  cover it), so that answers which were `Given` one after the other hold whatever had been
  made before the first (`CoveredIsWhole`, used for the search and for the revalidation).
  `ManifestInv` says that a manifest holds the rows and states of one classification that was
  not refused. Theorems: `NothingIsOverlooked`, `SelectionStands`, `LaterNewsIsIgnored` (two
  catalogues with the same live announcements have the same targets, cancellations,
  corrections and states, shown operator by operator), `ManifestsPromote` (a row that is
  rebuilt is the row again, and a later date with no row in between classifies alike) and
  `RevalidationStands` (equal bodies give equal records, whatever the answers were asked
  after).
- **EventManifestProofs.** `Refinement` needs no invariant: only a link publishes, and only
  under a free name. `ManifestsHoldTogether` does: versions of sources and files
  grow and never recur, so what a job finds equal before and after a moment was equal then;
  `IInv` dates every reading of a program and keeps a moment (`settled`) at which all held.
  `NobodyIsTurnedDown` follows what an undisturbed job has read: other jobs only add files,
  and a refusal at any step needs a change or an edit that excuses it.
- **WatchlistProofs.** A request goes through several states of the cache before it ends,
  so `IInv` is about caches: every torn or complete result of a request on a whole cache is
  whole. Theorems: `NothingIsMissed`, `NothingFromTheFuture`, `FreshSeriesAreContinuous`
  (an action property), `SnapshotsAreOneCall`; and `NothingKnownIsOverlooked`: with `FiledInv` (the dates of
  versions are in range, nothing is published after it is revealed, a report has one audited
  version) some version of those a day knows was known last, because dates and ranks count
  down to it (a least number exists); so a read returns, of every report, what was known
  that day, or something later. `FiledInv` also says that a version has the day of its report,
  and that a report is restated once if nobody dates its versions; `NothingFromTheFuture`
  rests on it.

Proofs changed the models. `AnnualSearch` and `EventRegister` name their specifications
(`SearchSpec`, `RegisterSpec`) and variables so that they can stand beside `FilingStore` and
`ResearchLedger`: the modules with theorems are few. `Status` of FilingCatalog takes the first
rule that applies with `IF ... ELSE`, since of a `CASE` whose guards overlap, as theirs do,
nothing can be proved. EventRules computes with recursive functions what it computed with the
folds and sorts of the community modules, which are recursive operators; and EventRegister
had one first day for all categories, with which the divergence at line 2107 could not be
seen. TLC checked `RegisterInv` on the instance of `register` before it was proved; the run
checks the properties that follow from it.

Model-checked only: `EveryCallEnds`, because liveness under fairness is out of the prover's
reach (`HolderGoesOn` proves what it needs besides fairness). Every other property of the
runs is a theorem; those of Backtest that are proved under assumptions on the constants,
`SettlementHolds` and `CashNeverNegative`, say above which and what happens without them.

## 6. Not modelled, and why

- The market manifest and `download_research.py` are linear scripts; nothing in them is
  concurrent or recovered, apart from a fixed name for a partial download.
- An event query of several pages is asked page by page (`build_event_manifest.py:565`); in
  EventManifest its answer is one item, asked for in one step. A page that changes between
  two of these requests is outside the model.
- `search_financial_reports` and the listing of profiles use the pagination that
  AnnualSearch models and classify by titles alone.
- The renderer and the reader projection are text to text; their output is published by
  `publish_text`. `discover_legacy_reports` only reads.
- The contracts of ledgers, event adapters and vendor tables say what a valid content is;
  they are constants or are replaced by the fields they yield.
- Portfolio construction, strategies, analysis, metrics and the statistics of `verify` are
  floating-point functions; Backtest draws every frame of weights instead.
- The chat loop is a bounded loop around a language model whose answers are unconstrained;
  its session is one file, appended to by one process (section 4 names what its resumption
  leaves out).
- Integrations, the CLI and configuration are adapters.

Hazards of these and of the modelled parts that no property covers: the tenure
of an event is matched with its connection by two rules in different words
(`build_event_manifest.py:1052` and `:1251`); validation drafts of one name are shared by
processes; a watchlist snapshot asks for the reports of its own day only (`watchlist/store.py:374`) and
takes its price from the adjusted series (`:368`), and with a repository over another file it
is not taken at one moment; `walk_forward` counts days of the
Shanghai calendar for any market (`verify.py:134`).

## 7. Plan

1. Done: RunStore with RunRegistry and RunArtifacts, PublishCas, ResearchLedger, Backtest
   over CashLedger and Market with WalkForward, ExtractCache, FilingCatalog with
   AnnualSearch, FilingStore and EventManifest over Archive, EventRules with
   EventRegister, DataCache with Watchlist; the proofs of section 5.
2. Next: a first day for every source of a category in EventRegister; the edits of
   a watchlist by two processes and the resumption of a chat session.
3. Then: a composition of FilingStore with ExtractCache through the promoted copies; the
   constraint pipeline of the portfolio as operators against a reference definition.
