# A verification development of the WorldCup football agent

TLA+ specifications of the backend in `src/app`, the instances TLC checks, and
proofs checked by TLAPS. The modules are translated from the code; where a
document and the code disagree, the code is modelled and the disagreement is
listed in [Known disagreements](#known-disagreements).

- [The system](#the-system)
- [Modules](#modules)
- [Runs](#runs)
- [Bounds and fairness](#bounds-and-fairness)
- [Proofs](#proofs)
- [Known disagreements](#known-disagreements)
- [Not modelled](#not-modelled)
- [Plan](#plan)

## The system

One process (FastAPI with an asyncio APScheduler, `scheduler.py`) runs every job
with `max_instances=1` and `coalesce=True`: two runs of one job never overlap, but
runs of different jobs do, at every `await`. Beside it an operator starts commands
(`cli.py`: `backfill`, `ledger`, `retrain`, `predict`, `reset-paper`, ...), each in
a process of its own. They share nothing but a Postgres database at READ COMMITTED
and a directory of model artifacts. The work of a job is a transaction opened by
`track_run` (`services/runs.py`), which commits, or rolls back and records the failure
in a row that was inserted by one transaction and is finished by another. So what
can go wrong here is mostly this: every *statement* sees the commits made before it,
and a decision is written long after what it was based on was read.

| Part | State it keeps | Operations | Interacts through |
|---|---|---|---|
| Odds snapshots (`services/odds.py`, `ml/dataset.py`) | `odds_snapshots`, one row per match, type, in-play flag and bucket | capture (stamp, request, store), compaction, pruning, the lookups of prior and close | read by predictions, ledger and CLV; the backfill writes into it |
| Results (`services/results.py`, `cli.py`) | `results`, one row per match; manual-review rows | HKJC pass, football-data fallback, flagging; backfill | settles bets, labels CLV records |
| Signals (`ml/predict.py`, `ml/jobs.py`) | `predictions` | one upsert pass over upcoming matches | candidates of the ledger, work list of CLV |
| Paper ledger (`services/ledger.py`) | `ledger_bets`; the bankroll is derived from it | settle, size, place, equity curve | reads signals, champion, quotes, results |
| Training data (`ml/features.py`, `ml/dataset.py`) | none: rebuilt from results, statistics and snapshots for every training and every prediction pass | feature pass, label filter, temporal split | read by retraining, backtest and predictions |
| CLV (`services/clv.py`) | `clv_records` | label backfill, work list, record | feeds the promotion gate |
| Registry and retraining (`ml/registry.py`, `ml/jobs.py`) | `model_versions`, artifact files | train, gate, promote, roll back | the champion decides which signals are served |
| Fixtures (`services/fixtures.py`, `cli.py`) | `leagues`, `seasons`, `teams`, `matches` | resolve and upsert, by HKJC's id; the backfill by natural key | moves kickoffs and changes statuses under every other job |
| HKJC client (`providers/hkjc/`) | time of the last request, one lock | throttled requests with retries and back-off | delays every fetch, two jobs share it |
| Run tracking (`services/runs.py`), scheduler (`scheduler.py`) | `ingestion_runs` | fire, start, finish, fail, flag | wraps every job |
| Backtest (`ml/backtest.py`) | none: a report | replay the value test and the stakes on the evaluation slice | reads what serving, the ledger and settlement act on |
| Reset (`services/reset.py`) | none | delete scoped tables in foreign-key order | manual |

What is hard, and what the properties are aimed at (`hazards` in `PROJECT.json`
gives the lines):

- **Statements of one run apart.** A ledger run reads due bets, sums profits, sums
  open stakes and reads candidates in four statements; compaction and pruning select
  in one transaction and delete in another; CLV reads its work list before the prices.
- **Two processes.** The command `ledger` beside the scheduled job, two retrains, the
  backfill beside the reconciler: unlocked reads, lost updates, unique-key collisions,
  deadlock.
- **Feeds that change their mind.** Kickoffs move, matches are called off, results are
  corrected, change source or lose their confirmation, champions change.
- **Late answers.** A quote is stamped before it is requested and stored after.
- **Crashes, shutdowns, roll-backs, failed passes**, after which a later run must make up
  and the operator must be able to tell what was done.
- **Two writers of one match.** HKJC's fixtures are known by its ids, the backfill's by
  season, teams and kickoff; both insert teams, seasons and matches.
- **One client, two coroutines.** Throttle, retries and back-off of two jobs interleave.
- **Time in the data.** A training row must not know what happened after its kickoff, a slice
  nothing of a later one, a champion nothing of what it is scored on, while results come in in
  any order and whole seasons are backfilled.
- **Boundaries.** Quarter lines and rounding, the cap and the minimum stake, buckets
  at kickoff, the work limit of CLV, the row count that marks a raw stream.

## Modules

| Module | Models | State and actions against the code |
|---|---|---|
| `Settlement` | `ml/labels.py`, `_settle_handicap`, `_round_dividend`, the payout rules of `settle_bets` | Pure operators. Lines in quarter goals, odds in hundredths, stakes in HKD, payouts in dimes, so that the arithmetic is exact; the one place where doubles matter (a half cent) is the choice `tie`. |
| `SettlementCheck` | `settle_bets` on one bet | A handicap bet, a score, the settlement, and the bookmaker's rule stated on the goal margin to compare it with. |
| `Backtest` | `ml/backtest.py` beside what it replays | `PlaceBets`, `SettleBets` and `RunBacktest` on one outcome of a 1x2 market, whatever becomes of its price between the prior and the kickoff; it drives `SettlementCheck`'s handicap bets too. |
| `Staking` | `ml/deviq.py`, `ml/value.py`, `_size_stake` | De-vig with denominators cleared, the value test, Kelly as an exact rational, cap and minimum. |
| `Ledger` | `ledger_update` at READ COMMITTED | `SettleRead`, `SumRealized`, `SumOpen`, `PlaceRead`, `Commit`/`IntegrityError`/`Crash`: one action per group of statements that see one snapshot. The other jobs are one action per transaction: `StartFetch`/`StoreOdds` (a quote is stamped by the first and stored by the second, over the row of its bucket), `PredictUpcoming`, `Promote`, `PublishResult`, `Reschedule`, `CallOff`. |
| `BettingBook` | the abstract specification | A purse and slips: a stake leaves the purse when a slip is opened, a payout enters it when it is closed. |
| `LedgerProps` | | The ledger's properties, the refinement mapping to `BettingBook`, the inductive invariant. |
| `OddsStore` | `services/odds.py`, the lookups of `ml/dataset.py`, the backfill's odds rows | `StartFetch`/`StoreOdds`/`FetchFails`; `CompactSelect`/`CompactDelete`, `PruneSelect`/`PruneDelete`, `JobFails`; `Move`, `FinalWhistle`, `Backfill`. One match and one odds type, because every statement groups by them. |
| `Results` | `services/results.py`, `_upsert_result` of `cli.py` | `ReadRow`, `WriteRow`, `CommitPass`, `RollBackPass` for each of the three passes and the backfill; `SelectCandidates`, `FetchFallback`, `FlagUnresolved`. |
| `Registry` | `ml/registry.py`, `retrain` | `BuildDataset`, `ReadChampions`, `Train`/`SkipTarget`, `Judge`, the statements of a promotion, `Commit`/`IntegrityError`/`Crash`, rollback. |
| `Clv` | `services/clv.py` | `BackfillLabels`, `SelectWork`, `ReadHkjc`, `InsertRecords`, `Fail`, beside the odds sync (two halves), the backfill, results and reschedules. |
| `Training` | `ml/features.py`, `load_training_rows`, `_frame`, `temporal_split`, `build_dataset`, the two ways of serving in `ml/predict.py` | The feature pass is a fold over kickoff groups of the state of `_State` (`Pass`, `Played`, `FeaturesFor`), the split and the served rows are operators of the tables; `ConfirmResult`, `Backfill` and `Retrain` change the tables and the champion. A feature is the set of matches it is computed from. |
| `HkjcClient` | `providers/hkjc/client.py` | `Execute`, `Acquire` (the lock, then the throttle's sleep), `Post`, `Answer`/`Retriable`, `Retry`/`GiveUp`, `Return`; `Rebuild` for a restart. A step is what a coroutine runs between two awaits; time is what is left of a sleep. |
| `Jobs` | `scheduler.py`, `services/runs.py`, the stages of `OddsSync.run` and `ResultReconciler.run`, `reset-paper --include-runs` | `Fire`, `Ask`/`Asked` over `HkjcClient`, then `BeginRun`, `Work`, `FetchRow`, `FinishRow`/`StaleRow` for the transactions of `track_run`, `Flag`; `BookkeepingFails`, `Stop`, `ResetRuns`/`EndReset`. |
| `Fixtures` | `services/fixtures.py`, `services/alias.py`, the fixture part of `cli.py` | `BeginSync`/`BeginBackfill`, `Upsert` or `Collides` per fixture, `Wakes` and `Deadlock` where one transaction waits for the other, `Commit`; `Move`, `Show`, `Tick`. |
| `LedgerProofs`, `OddsStoreProofs`, `ResultsProofs`, `RegistryProofs`, `ClvProofs`, `FixturesProofs`, `JobsProofs` | | Theorems about the module of that name. |
| `MLProofs` | | Theorems about `Settlement` and `Backtest`, and about `Training`. |
| `MC*` | | Instances for TLC: definitions of the small sets a `.cfg` cannot write. |

Interactions are modelled where they happen: `Ledger` and `Clv` hold the tables other
jobs write as variables and let those jobs do *anything* their own modules allow.
`PublishResult`, for instance, lets any row replace any other; which rows really win is
the subject of `Results`. The consumers' properties thus hold for every behaviour of
the producers.

Choices a reader should know:

- **Snapshots per statement.** A `Ledger` action is one statement, or several between
  which no commit of another job could matter to this run. `PlaceRead` merges the
  candidate, existing-bet and price queries: a feed committed between them touches one
  of the tables only, and commutes to before or after the step. The second ledger process's
  commit is the exception that matters, and it shows at the INSERT (`Conflicts`).
  `Commit` merges INSERTs and commit: an INSERT that meets a row committed later than
  the reads fails at either.
- **Updates wait for locks** (`Locked`). An UPDATE in `Ledger` waits until the process
  that has updated the row ends; a writer in `Results` does too, and a cycle of waits is
  broken by rolling one back. The ORM sends only columns whose value differs from the one
  read (`Patch`), which is how two sources can end up mixed in one row.
- **`Results`** reads the row of a match once per pass; the fallback's two SELECTs are
  one step, since only the backfill can commit between them.
- **`Registry`** knows a version by the number of its training, and its target and bars by
  the profile of scores it is given; the four ROI bars of the
  gate are one flag `sound`, since they are tested and reported together. Rollback is
  only called from tests today: it is an operator's action here. The `retired` and
  `champion` UPDATEs of a promotion are two steps with the locks they take.
- **`Clv`** leaves compaction out because `DeletionsSpareAnchors` shows that it keeps
  the lookup `Clv` makes. HAD odds serve predictions of both targets, as in the code.
- **`Jobs`** lets one question stand for the two batches of odds and for the pages and days of
  results. What a job does to its own tables is in that job's module; here its work commits or
  does not. A stop resets the client and both jobs: the lifespan's shutdown cancels the
  coroutines, and a crash leaves no more behind.
- **`Fixtures`** takes a club for what `TeamMatcher` takes for one (key, alias, fuzzy ratio). A
  sync stays within a slot of time, so the day it asked for is the day it fails on; the backfill
  may span days. Match and team rows that one transaction has written and the other meets
  make it wait, as the unique constraints do.
- **`Backtest`** keeps prices in hundredths and fractions as rationals: exact where the code
  computes with doubles.
- **History variables** (`seen`, `shifted`, `history`, `stable`, `answered`, `twins`, `raced`,
  `committed`, `lost`) remember what a property compares with; no guard reads them.
- **Mutants.** A definition commented "Mutant of X" is X with a plausible bug; it
  documents which mistake the property would catch and is used by no specification.

## Runs

| Run | States, time | What it asks |
|---|---|---|
| `settlement` | 110 thousand, 6 s | Does `settle_bets` pay what the bookmaker's rule says, to the nearest dime, on every line, half a cent under a tie excepted (`SettlementInv`)? Does the backtest replay what serving, the ledger and settlement do (`BacktestSeesTheLedger`)? |
| `ledger` | 1.4 million, 3 min | One process on a handicap market whose line moves, captures that are stored late and share a bucket, two versions, three kinds of result rows, one reschedule or call-off, a crash. Which result pays (`SettledByConfirmedResult`); stakes (`StakeWithinLimits`); the bankroll and the terms of a batch (`BatchTermsAreReal`); repeated runs (`IdempotentWhenQuiet`); refinement (`ImplementsBettingBook`). |
| `ledger_pair` | 60 thousand, 65 s | Two processes and a crash: `LedgerInv`, `OneBetForever`, `SettledNeverTouched`; under fairness `ConfirmedBetsSettle` and, as the loser of a race is rolled back whole, `ValueBetsArePlaced`. |
| `ledger_portfolio` | 941 thousand, 75 s | Two overlapping matches at a cap of half the bankroll: `Solvent`, `EquityCurveIsFinal`. |
| `odds` | 1.3 million, 2 min | Four captures, two to a bucket, a kickoff moved at any time, between the two transactions of a compaction too, the backfill, a failed fetch, compaction or prune, two jobs, the second past the retention: what readers look up is kept, and frozen but for an unprotected prune (`DeletionsSpareAnchors`, `FinalLookupsFrozen`, `CaptureNeverLosesClose`); `OddsInv` (with `PriorIsPreMatch`); under fairness `EventuallyCompacted`. |
| `results` | 85 thousand, 30 s | Two matches, sources that disagree, the backfill beside the job, a failure, deadlock: `HkjcRowStays`, `ResultsInv` (with `HkjcScoreIsHkjcs`); under fairness `UnresolvedIsFlagged`, `HkjcResultArrives`. |
| `results_gap` | violation | `FallbackOnlyFillsGaps`: the design's "matches still missing a result" against candidates chosen before a download. |
| `registry` | 785 thousand, 100 s | Two processes, both targets, two windows, and one of: a rollback, a crash, a champion that cannot be scored, a result that moves the window: `OneChampionKept`, `RollbackReversible`, `ReplacedByABetter`, `RegistryInv` (with `ArtifactIsTheVersions`). |
| `clv` | 758 thousand, 2 min | A prediction of each of two matches, one to a run, so that one without a price starves the other; a moved kickoff, unreadable quotes: finality, pre-kickoff close and confirmed labels (`ClvInv`, `RecordsAreFinal`), and under fairness the record of every prediction that is not starved (`PricedIsRecorded`) and the label (`LabelArrives`). |
| `training` | 14 thousand, 15 s | Six matches of three teams on ten calendars, several at one kickoff, ids in and against their order, results in any order, seasons backfilled: rows as of their kickoff and batches like single matches (`TrainingInv`), slices blind to later ones (`SplitsAreBlind`), a champion scored on what it never saw (`ChampionIsBlindToEval`). |
| `jobs` | 177 thousand, 1 min | The two jobs at one client, any answers, one failed bookkeeping transaction, stop or reset: the lock's state and what the run rows say (`JobsInv`), the distance of requests (`Throttled`), and under fairness that a job that was fired ends (`JobsEnd`). |
| `fixtures` | 1.2 million, 1 min | Two matches of three clubs, kickoffs that move, a day of Hong Kong that begins a slot before that of UTC, a backfill at any time: one row to a club (`FixturesInv`), the teams of a match for good (`TeamsStay`), collisions that end a day and that slot after their kickoff (`CollisionsEndNextDay`). |

Every property of a passing run is broken by a mutant of the code (`mutants` in
`PROJECT.json`): a lost filter, a strict comparison that slips, a missing anchor, a
unique index that is not there. `SettlementInv`, `TrainingInv` and
`BatchTermsAreReal` are conjunctions of named invariants. `LedgerInv`, `OddsInv`, `ResultsInv`,
`RegistryInv`, `ClvInv`, `FixturesInv` and `JobsInv` are their module's type invariant, the
invariants the code is meant to keep, and what has to be known of open transactions to keep
them: they are the inductive invariants of the [proofs](#proofs), checked here on the instance.

## Bounds and fairness

Bounds are constants with a name; each has the value at which the case it is about
happens and one more does not add a kind of case.

- Time is a few abstract units. `Lead`, `Lookahead`, `Age`, `Retention`, lookbacks and
  review ages keep the *order* they have in the settings (a fetch is shorter than a
  compaction's age, the prior's lead is longer than a fetch, retention is longer than a
  match takes to be compacted), not their ratio.
- Two matches where batches, portfolios or lock cycles matter; else one, because every
  statement of that component is per match. Two processes where they race. Two versions,
  as a champion and its successor. Two scores, to disagree; two or three quotes, so that a
  line or price can differ between the signal and the execution.
- `MaxMoves`, `MaxCrashes`, `MaxFailures`, `MaxCorrections`, `MaxBackfills`, `MaxStores`,
  `MaxEvents`, `MaxFires`, `MaxMishaps` bound how often such an event happens in a behaviour.
  Four stores are one more than the rows compaction keeps; `SyncTimes` says at which times the
  syncs of `Ledger` may start. Each job of `jobs` runs once, or one
  of them twice: once beside a run of the other, and once after a run of its own was stopped.
  `BankBound` only keeps sums finite and is never met.
- `Period` is how often the jobs of `OddsStore` are due; the two days of `fixtures` (`Days`,
  `Slots`) and the window of `Ahead` days let a fixture enter and leave what HKJC lists.
- `Throttle` of two units is longer than the first back-off (`BackoffBase`) and as long as the
  second (`BackoffCap`), so that retries arrive before, at and after the throttle's end.
- Premises of properties are not bounds: `shifted`, `late`, `twins`, `raced`, `Starved` and
  `SafeToPrune` name cases in which the code does not keep a promise. They are listed as disagreements.
- `Training` keeps the ratio of the two fractions of the split (`EvalPart` 2, `CalibrationPart`
  4 for 5 and 10), since `ChampionIsBlindToEval` is about it; windows of one to three matches
  are overrun by the six of the instance. Each state evaluates three feature passes.
- Symmetry is used only in runs without liveness properties, over sets no definition
  orders.

Fairness is weak fairness of a job's next step: the scheduler starts each job again
and a started run keeps executing; a fetch ends because every attempt times out
and the attempts are counted, which `JobsEnd` derives from the client: sleeps end, a request
is answered or times out (`httpx`, 30 s), the asyncio lock serves in the order of arrival, and a
row locked by a reset is released at that transaction's end. The backfill in `Results` gets
strong fairness for its locks: Postgres grants a released row lock to the waiter. No fairness is
assumed of the operator, of sources publishing, or of matches being played, except that a match of
`OddsStore` is over some day. `CHECK_DEADLOCK FALSE` everywhere: clocks and event bounds end,
and a behaviour may then really stop.

## Proofs

Every theorem holds for any sets of matches, versions, processes, coroutines, clubs, sources'
scores, quotes, beliefs and kickoffs, and any bounds, under the assumption named in its module.

| Theorem | Property |
|---|---|
| `LedgerProofs!TypeInvariant` | `TypeOK`, a conjunct of `LedgerInv` |
| `LedgerProofs!LedgerInvariant` | `LedgerInv` |
| `LedgerProofs!PaidOnConfirmedResults` | `SettledByConfirmedResult` |
| `LedgerProofs!StakesWithinLimits` | `StakeWithinLimits` |
| `LedgerProofs!TermsNeverRewritten` | `OneBetForever` |
| `LedgerProofs!SettledStaysSettled` | `SettledNeverTouched` |
| `LedgerProofs!BankrollIsThePurse` | `ImplementsBettingBook`, for one process: the refinement |
| `LedgerProofs!CurveIsFinal` | `EquityCurveIsFinal`, for one process |
| `LedgerProofs!BatchesAreReal` | `BatchTermsAreReal`, for one process and `Lookahead <= Lead` |
| `LedgerProofs!NeverInDebt` | `Solvent`, for one process, as long as `SmallBatches` holds |
| `LedgerProofs!PassesAreIdempotent` | `IdempotentWhenQuiet`, for one process |
| `OddsStoreProofs!OddsInvariant` | `OddsInv`, with `PriorIsPreMatch` |
| `OddsStoreProofs!AnchorsSurvive` | `DeletionsSpareAnchors` |
| `OddsStoreProofs!LookupsAreFrozen` | `FinalLookupsFrozen` |
| `OddsStoreProofs!CapturesNeverLose` | `CaptureNeverLosesClose` |
| `ResultsProofs!ResultsInvariant` | `ResultsInv`, with `HkjcScoreIsHkjcs` |
| `ResultsProofs!HkjcKeepsRows` | `HkjcRowStays` |
| `RegistryProofs!RegistryInvariant` | `RegistryInv`, with `ArtifactIsTheVersions` |
| `RegistryProofs!ChampionIsKept` | `OneChampionKept` |
| `RegistryProofs!RollbacksReverse` | `RollbackReversible` |
| `RegistryProofs!BetterReplaces` | `ReplacedByABetter` |
| `ClvProofs!ClvInvariant` | `ClvInv`, with `ClosingIsPreKickoff`, `LabelIsConfirmed` |
| `ClvProofs!FinalRecords` | `RecordsAreFinal` |
| `FixturesProofs!FixturesInvariant` | `FixturesInv`, with `OneRowPerTeam`, `RowsAreTheirMatch` |
| `FixturesProofs!MatchesKeepTeams` | `TeamsStay` |
| `FixturesProofs!CollisionsEnd` | `CollisionsEndNextDay` |
| `JobsProofs!ClientInvariant` | `ClientInv`, of `ClientSpec` |
| `JobsProofs!RequestsAreSpaced` | `Throttled`, of `ClientSpec` |
| `JobsProofs!JobsUseTheClient` | `Spec => ClientSpec`: `Jobs` implements its client |
| `JobsProofs!JobsAreThrottled` | `Throttled`, of `Jobs` |
| `JobsProofs!JobsInvariant` | `JobsInv` |
| `MLProofs!BetsSettleByTheRules` | `SettlementInv`, with `StatusFollowsMargin`, `DividendNearestDime` |
| `MLProofs!BacktestIsTheLedgers` | `BacktestSeesTheLedger` |
| `MLProofs!FeaturesAreAsOf` | `TrainingInv`, with `FeaturesAreAsOfKickoff`, `BatchServesAsSingle` |
| `MLProofs!SplitsStayBlind` | `SplitsAreBlind` |
| `MLProofs!ChampionStaysBlind` | `ChampionIsBlindToEval` |

With these every invariant and every action property of a passing run is proved; what is left to
TLC is listed under [Only model-checked](#only-model-checked).

### The arguments

Almost everywhere the table alone is not inductive: what a transaction will write it has *read*
some steps ago. Each invariant therefore says of every open transaction which of the things it
has read still hold when it writes.

**Ledger.** `SettledByConfirmedResult` is about the table, but between the read and the write the
result may lose its confirmation and another process may settle the bet. `LedgerInv` says of every
uncommitted run that each bet it will write exists, has the same terms, and is paid by the rules
of a result the match *has had* confirmed (`UpdateInv`, over the history `seen`, which only
grows), and that each bet it will insert is within the limits of the bankroll recorded with it
(`InsertInv`). A commit carries these facts over to the table. This holds with any number of
processes: the race costs runs and may re-settle a bet, but never breaks terms or pays on a score
that was not confirmed. With one process `SingleWriterInv` adds that nothing changes the table
under a run.

**Money.** The two sums a run keeps are those of `Merged`, the table with the run's settlements
(`MoneyInv`), so that the batch is sized from the table it is added to, and a commit moves the
bankroll by the payouts it enters less the stakes it places: the refinement. The equity curve
follows, as a later run stamps both its settlements and its bets later than the point. For the
terms of a handicap bet, `QuotesInv` says that a signal's odds and the line at its prior's cutoff
are of one quote; the cutoff has passed when the signal is made, because a prediction looks no
further ahead than the lead of the prior (`Lookahead <= Lead`; both are 48 hours in
`app/config.py`). Even then the quote at the cutoff may change: a capture stamped before the
cutoff is stored after it, or one stamped after it takes over the row of a bucket that began before
it. `shifted` remembers the matches this has happened to, and those that were moved; for all others
the past is kept (`PastKept`). `NeverInDebt` is arithmetic: each
stake is at most the cap's fraction of the batch's bankroll, `SmallBatches` says that the fractions
of a batch do not exceed the whole (20 bets at the configured 0.05), and settling only adds.
Without that premise the code promises nothing: the cap is per bet, and a larger batch may stake
more than there is. Idempotence: with unchanged inputs a run has settled what is
due, and its own bets leave a smaller bankroll, from which nothing it declined is worth more
(`WorthMore`: stake and threshold are monotone in the bankroll); time only takes candidates away
(`QuietInv`).

**Sums.** `SumFunction` folds over a set in an order nobody chose. The induction theorems of the
library take an operator as parameter and are out of reach, so `LedgerProofs` states induction for
sets: a set of naturals with 0 and every successor is all of them (`Counting`, from a least
counterexample), and a set of parts of a finite set that holds a part once it holds the part
without any one element holds them all (`Growing`). From them and the fold's own recursion follow the
facts needed: a sum does not depend on zeros, is additive and is bounded (`SumExtends`, `SumAdds`,
`SumBounded`).

**Odds.** The hazard is a deletion decided in one transaction and done in another.
`DoomedAreFollowed` says that a doomed row that was captured before a cutoff is followed by a
later row that is still before it; what the sync stores in between is newer than every row of its
own (`InFlight`) and, since compaction takes only matches that kicked off `Age` ago, was captured
in a bucket after the kickoff. `PruningIsIdle` says that after a compaction nothing of the
sync's is left to prune, counted for a run that is later than every match (`RunIsLate`), which
retention guarantees. Where it does not apply, `DoomedAreExpired` says that a prune takes only what
is past the retention, and `DoomedArePreceded` that whatever a compaction takes leaves an older row
behind, which the readers of any other kickoff find.

**Results.** A writer's transaction sends only what differs from the row it read. `ReadHolds` says
what of that reading is still true of the row (its source, its score, that it is confirmed) and
`WriteHolds` what the uncommitted row will be; locks make them stable, as no row is written by two
(`Placed`); every write of a row that was read is an UPDATE and takes its lock. **CLV** is simpler: `RunIsFresh` and `CapturesAreBehind` say that labels and prices
about to be written were true when read; a kickoff only moves into the future, past every capture.

**Registry.** One champion is a fact about every transaction's *view*: `ChampionsAreOrderly` says
that each view has at most one champion to a target, the last promoted, and that the index admits one
transaction per target at a time (`Holds`). `ClaimsAreOwn` says that the artifact paths of a run
are no other run's and no row's, as long as no two retrains shared a second, and `GateIsPassed`
that a challenger about to be crowned has passed.

**Fixtures.** `TeamsWritten` and `MatchesWritten` say of each open transaction what
`TeamsAreSound` and `MatchesAreSound` say of the tables, in the transaction's own view. The view
is not stable under the other's commit; that is where `raced`, and the uniqueness of team rows per
writer, enter. A match row hangs on team rows of its clubs (`Rooted`), so a later sync that finds
its row by HKJC's id finds the same teams.

**Jobs.** Whoever sleeps under the client's lock owns it and sleeps for as long as the throttle
still asks (`ClientInv`): a tick takes one from both sides, and a request, which starts the count
again, leaves nobody asleep. How long a back-off lasts plays no part. Every step of `Jobs` is a
step of the client or leaves it alone, so `Throttled` carries over. The rows of `ingestion_runs`
tell the truth because a run at work is of its job's stage and of no other's, its row is
`running` or deleted, and its work is committed exactly when it did not raise (`RunsHold`); the
keys of the two jobs are apart, so the newest row of a key is its job's.

**Settlement and the backtest.** The state is small and the arithmetic is all there is. A quarter
line is two half-stakes on the lines around it, so its status is a sum of two signs
(`HalfByMargin`, `QuarterByMargin`, `ThreeResults`) and the payouts of the halves add up to the
exact dividend of that status; `WholeCents` rounds whole cents to the nearest dime, and `HalfCents`
shows that half a cent can cost a dime just under a tie and nowhere else. Selection is compared by cross
products (`Clears`, `StakeIsFraction`): an expectation that clears the buffer at one price clears
it at any longer one. `BacktestInv` remembers of the bet, the payout and the report which market
they were made from.

**The feature pass.** What a pass computes is a fold over sorted rows, and here too induction is
stated for sets (`Climb`). `Knows(state, S)` says for each accumulator which of the scored rows S
it holds, every list in the order of the rows (`Lists`); it holds of nothing, and of one row more
when that row comes after all of S (`KnowsNext`), so by `KnowsAfter` of every state of the fold.
A row's group starts where exactly the earlier kickoffs have been applied (`PassRow`), the last n
of a list are the latest n of its matches (`WindowIsLatest`), and so each feature is the one the
calendar defines (`RowsAsOf`). That a batch serves like single matches needs no `Knows`: two lists
whose scored rows agree are folded to the same state, whatever unscored rows stand between them
(`SameState`).

**The split and the champion.** Slices are intervals of the sorted frame (`Slicing`), and a row is
made of itself and of rows before it, so none reaches into a later slice. For the champion the
table at hand is not enough: `ChampionMade` says that it came of a split of rows *still in the
frame*, as no result is ever withdrawn. A row of the new evaluation slice has as many rows before
it as the cut (`EvalRowsComeLate`); a row that was trained on has fewer than the old training
slice and the late rows together; and `CutStaysBeyond` shows that the cut cannot fall behind them
while the late rows are at most `EvalPart` to a calibration row, whatever was floored, raised to
one or snapped on the way.

### What they assume

- `LedgerAssumption`, `StakingAssumption`, `ResultsAssumption`, `RegistryAssumption`,
  `ClvAssumption`, `FixturesAssumption`, `TrainingAssumption`: types, `None` outside the data,
  finitely many matches, a club plays another, and (`FixturesAssumption`) one match for a pair of
  home and away clubs.
- `SettlementBounds`, `BacktestAssumption`: types, prices above 1.00, probabilities strictly between
  0 and 1, and the values that stand for "nothing" outside the data.
- `OddsStoreAssumption`: the orders the settings have. A bucket and a fetch together are shorter than
  the age of compaction (ten minutes against six hours); a fetch is shorter than the lead of the
  prior (48 hours; a lead of 0 is excluded); `Keep` is at least 3, the number of anchors
  (`COMPACT_KEEP_PER_GROUP`); and a match is over and compacted within the retention of its first
  capture (120 days), which excludes one that is postponed beyond it.
- `ClientAssumption`, `JobsAssumption`: types, the callers of the client are the jobs, a deleted row
  is no row; and `2^n \in Nat`, arithmetic the provers do not have.
- `OddsStore`'s `Quoted` is an assumption about HKJC, not about the code: a match that is over is
  no longer on the list whose odds the sync asks for.
- The theorems "for one process" have the premise `Proc = {p}`: the scheduled job alone
  (`max_instances=1`), nobody running the command `ledger` beside it. With two processes those
  properties may fail, see [Known disagreements](#known-disagreements).

### Only model-checked

- Everything under fairness, as the prover has no `ENABLED`: `ConfirmedBetsSettle`,
  `ValueBetsArePlaced`, `EventuallyCompacted`, `UnresolvedIsFlagged`, `HkjcResultArrives`, `PricedIsRecorded`,
  `LabelArrives`, `JobsEnd`.

## Known disagreements

`results_gap` is kept as a run. The others were met while modelling; each can be
reproduced by the change of a `.cfg` named here.

- **A second ledger process.** The design calls an `IntegrityError` "a bug, not a race"
  and `settle_bets` says settled bets are "never touched again". The command `ledger`
  is outside `max_instances=1` and the pending SELECT takes no lock: an INSERT may meet the other
  process's bet (`IntegrityError`, fired in `ledger_pair`), which rolls a whole run back, and a bet
  both have read as pending is settled twice: `SettledNeverTouched` needs its premise
  `HeldByNone`. Two processes may also size their batches from different tables, so
  `BatchTermsAreReal`, `Solvent` and `EquityCurveIsFinal` are claims about one.
- **Handicap terms of two quotes.** Odds come from the signal, the line from a lookup at
  placement. `HandicapTermsFromOneQuote` (a conjunct of `BatchTermsAreReal`) needs its premise on
  `shifted`: when in between the kickoff moves, a capture stamped before the prior's cutoff is
  stored after it, or a capture after the cutoff takes over the row of the bucket the cutoff
  splits, then the pair was never offered.
- **Equity curve.** `equity_curve` says that a point subtracts the stakes open "as of that
  event"; `placed_at` is the start of the transaction, `settled_at` a later clock reading, so
  bets placed in the run of a settlement count as open at it. `EquityCurveIsFinal` therefore
  speaks of later runs.
- **Bets on matches that are called off** never settle, against the design's "100%
  of placed bets eventually settle automatically"; `ConfirmedBetsSettle` is what holds.
- **Half cents.** `_round_dividend` says that a dividend is an integer stake times two-decimal
  odds; half the stake of a quarter line is not. Half a cent under a tie is rounded to the tie and
  then up: `PaysNearestDime` allows that dime (11 HKD at 2.19, half won: 17.545 is paid as 17.60).
  The ledger stakes no quarter line today (`IsWholeOrHalf` guards `place_bets`).
- **Backfilled matches and pruning.** The anchors "survive indefinitely" only where
  football-data has no row: three HKJC anchors and the backfill's row are a group of four
  (without its premise `SafeToPrune`, `DeletionsSpareAnchors` fails), and pruning may take the
  close of a match that is over. So may it after a compaction that failed. `FinalLookupsFrozen`
  says what is left of the promise: it takes nothing younger than the retention.
- **A kickoff moved during compaction.** The DELETE takes what the old kickoff did not need. The new
  one's prior and close may then be older rows than they were: that there is a row at all is the
  last conjunct of `FinalLookupsFrozen`.
- **Re-runs within a bucket.** A second sync of a bucket takes over its row. With a kickoff inside
  a bucket (19:45 and the ten-minute buckets of the sync; the instance has such a kickoff) it
  overwrites the close with an in-play capture: without its premise `Splits`,
  `CaptureNeverLosesClose` fails. The same holds of the prior and its cutoff.
- **Late answers.** A quote answered after kickoff but asked for before it is a "pre-match"
  close. `PriorIsPreMatch` holds of the prior because its lead outlasts a fetch.
- **Unfinished matches are compacted**: age alone decides, against "matches that have not
  finished are left untouched".
- **Mixed rows.** A score football-data corrected lands in a row whose source HKJC has become
  meanwhile: the UPDATE sends only the columns that differ from the row as it was read. Without
  its premise `Steady`, `HkjcScoreIsHkjcs` fails.
- **A stale champion and a shared file.** When another process has promoted since the champion
  was read, a challenger replaces one it was never compared with, and two retrains of the same
  second save over each other's artifact: the premises on `read` and on `twins` of
  `ReplacedByABetter` and `ArtifactIsTheVersions`. A challenger that cannot be scored beside its
  champion may be judged by the stored metrics of a champion that another process promoted and a
  rollback deposed again, as the row is read anew (`BeatsStored` allows any former champion).
- **The backtest's rule.** `ml/backtest.py:3` says "The rule replicated here is exactly the one
  serving uses". Serving tests the execution buffer at the prior's price and the ledger asks only
  for a positive Kelly fraction at the execution price; the backtest tests the buffer at the
  execution price, and falls back to football-data's close where HKJC has none.
  `BacktestSeesTheLedger` states how far the two agree.
- **Runs without a row.** The design's "every job writes an `ingestion_runs` row; failures are
  recorded, not swallowed" does not hold of a failed fetch: `fetch_fixtures`, `fetch_odds` and
  `fetch_results` are awaited outside `track_run` (`Asked` leaves `rows` alone). A graceful
  shutdown cancels the jobs, and `except Exception` does not see a cancellation: like a crash it
  leaves a row `running` for ever. A reset that deletes the row of a live run makes its
  UPDATE raise `StaleDataError` after the work was committed. And the ops page shows the
  newest of the settlement's two keys, so a fallback that succeeds hides an HKJC pass that did not.
- **Fixtures that collide.** A match the backfill has inserted and HKJC lists with another kickoff
  is two rows; if HKJC then moves its kickoff onto the other's, `uq_matches_natural` fails the
  whole sync, every match's odds with it, for as long as the fixture is listed. The sync asks for
  `today` by UTC (`scheduler.py:83`) and HKJC's `matchDate` is Hong Kong's, so a match that kicks
  off between 16:00 and 24:00 UTC is listed, and collides, for the whole of the next UTC day too
  (longer if HKJC relists the match under a new id, which the model leaves out). With "its own
  day" in place of the 32 hours `CollisionsEndNextDay` fails in `MCFixtures.cfg`.
- **Teams doubled in a race.** Two transactions that insert the same unknown club both succeed, as
  no constraint covers a team without HKJC's id: the premise `raced` of `OneRowPerTeam`.
- **The throttle is per process.** A command that asks HKJC has a client of its own; `Throttled`
  speaks of one process.
- **The champion and the evaluation window.** The backtest reports "Eval is the out-of-sample
  temporal slice; the champion was not trained on it" (`ml/backtest.py`, `NOTES`), and the gate
  scores the champion on the same slice. Slices are fractions of the table of the day: when more
  rows come in behind the champion's than half of what it was built from (an older season is
  backfilled), the newest fifth reaches back into its training rows and the champion is flattered.
  Without the premise on `late`, `ChampionIsBlindToEval` fails in `MCTraining.cfg`.
- **Matches still being played.** "As of kickoff" means strictly earlier kickoffs: a training
  row counts the goals of a match that began an hour before and was not over. Serving cannot
  know them. It touches the scoring baseline only, as no team plays twice in that time.
- **CLV.** "Predictions without a usable closing price are left unrecorded and retried on the next
  run", but the work list is ordered by kickoff and cut: as many predictions that never get a price
  as the limit starve every later one that has one. `PricedIsRecorded` is about those that are not
  starved; without that premise (`Starved`) it fails in `MCClv.cfg`.
  A match that was called off gets records; a handicap prediction is closed at HAD odds; a
  snapshot stored after the record was written is not its close.

## Not modelled

LightGBM, calibration, and the statistics of the gate and of the backtest's report
(floating-point numerics); the web dashboard and the API's response shapes (read-only views);
migrations and deployment scripts; parsing of provider payloads (pure, and each of its outcomes
is a choice of the modules that call it); logging and configuration; static name tables; the
fixed order of the other tables in `reset-paper`. Two hazards have no property: bets on matches
that are called off, and a snapshot stored after its CLV record (see above). `PROJECT.json`
lists every component with what is left out of it.

## Plan

1. *(done)* `Settlement`, `Staking`, `Ledger`, `BettingBook` with their runs and proofs;
   `OddsStore`, `Results`, `Registry`, `Clv`, `Training` with their runs.
2. *(done)* `HkjcClient`, `Jobs` with their run and proofs; `Fixtures`; `Backtest`.
3. *(done)* Theorems about `Ledger`, `BettingBook`, `OddsStore`, `Results`, `Registry`, `Clv`,
   `Fixtures`, `HkjcClient` and `Jobs`.
4. *(done)* Theorems about `Settlement`, `Backtest` and `Training`.
5. Composition: an abstract specification of the odds table (entry, prior and close) that
   `OddsStore` implements and `Clv` and `Ledger` read.
