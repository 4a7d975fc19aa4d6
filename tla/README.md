# Formal models of xaubot

This directory holds TLA+ models of `xaubot`, the data and feature pipeline of
an XAUUSD trading system, TLC configurations that check them on small
instances, and TLAPS proofs of the properties the rest of the system leans on.
Paths below are relative to `src/src/xaubot/`.

The system is sequential Python: one process at a time reads CSV files, writes a
Parquet bar store, computes features in a batch or one bar at a time, and writes
a feature store. What is hard about it is not threads but **time**: when a value
may be known, which interval an instant belongs to when the clocks change, what
a row says when it is computed again later; and **files**: what a killed process
leaves behind for the next one.

Contents: 1 the system, 2 the modules, 3 the runs, 4 the proofs, 5 divergences
met while modelling, 6 what is not modelled, 7 the plan.

## 1. The system

| Component | State | Operations | Talks to |
|---|---|---|---|
| Configuration (`config/`) | none | layers of files, environment and options -> one validated tree | every command |
| Command line (`cli.py`) | none between commands | `data ingest`, `features build`, what each says when it fails | both stores, engine |
| CSV loader (`data/loaders/`) | none | header -> columns -> stamped rows | configuration, ingest |
| Cleaning, validation (`data/cleaning.py`, `validators.py`) | none | repair, drop, deduplicate, sort, fill; issues and gap report | ingest, calendar |
| Ingest (`data/pipeline.py`) | the result of a run | load, clean, report, accept or refuse, store, resample, store | all of the above and below |
| Bar store (`data/store.py`) | one file per table and month, a temporary file beside it | write with overwrite or merge, read by directory scan | ingest, command line |
| Resampler (`data/resample.py`) | none | base bars -> closed HTF bars, intraday or by New York day | ingest, engine |
| Calendar (`core/calendar.py`) | none | is_open, expected_bars, trading_day | gap report, sessions, levels |
| Sessions (`core/sessions.py`) | none | label and instance of a stamp, in three zones | features |
| Feature engine, batch (`features/engine.py`) | none between calls | transform: a frame and its context -> a matrix | everything in `features/` |
| Feature engine, streaming (`features/engine.py`) | buffer of bars, context | prime, update | the batch engine |
| Context alignment (`features/mtf.py`) | none | as-of join, leakage assertion, running HTF bar | engine |
| Windowed transforms (`features/_ta.py`, `price.py`, `volatility.py`, `volume.py`, `trend.py`, `patterns.py`) | none | columns over trailing windows, each with a declared lookback | engine, purge width, live buffer |
| Price action and time (`features/*.py`) | the locals of a forward pass | gaps, order blocks, structure, sweeps, levels, time features | engine |
| Replay audit (`features/pit_audit.py`) | none | full run against truncated replays | engine |
| Feature store (`features/store.py`, `manifest.py`) | partitions and a manifest per version | write, read with checks | command line |

They meet in five places. The ingest writes the base table and then the
resampled tables, one file after the other, and a build reads whatever is there.
The engine joins base and resampled bars by close time. The streaming driver runs
the batch transforms on a buffer, cut as long as the declared lookbacks say. The
forward passes carry state from bar to bar and must agree with the history they
have seen. The configuration says which columns of a file are what. The hard
behaviours, then: a context that is older or newer than the bars it is joined to;
bars that come twice or late; a buffer cut too short, a lookback declared too
small; a process killed between two files; days of 23 and 25 hours; bounded lists
that forget; and, everywhere, a value that changes when later bars arrive. Each is
listed in `PROJECT.json` under `hazards`, at its line.

## 2. The modules

A unit of time is one base bar and an instant on the base grid is an integer. A
base bar is named by the instant it opens and is known from its close, one unit
later. Prices are abstracted wherever a property holds for all prices: a
resampled bar, a level or a feature row **is the set of bars it is computed
from**. Two computations that use the same bars give the same number, and one that
uses a bar it should not is caught whatever the prices are.

| Module | Models |
|---|---|
| `TimeGrid` | stamps, `floor_to_timeframe`, `BarFrame`, `as_of` |
| `LocalTime` | pandas' zone conversion, for a zone with one change of offset (external) |
| `Resample` | `_group_key`, `_daily_bounds`, `resample_bars`, `resample_many` |
| `RowContract`, `PointInTime` | the abstract specification: the row a decision is entitled to, and a machine that publishes such rows |
| `FeatureEngine` | `align_htf_features`, `_verify_no_future_match`, `running_htf_features`; one row of `transform`, its columns over the whole index included; `required_warmup_bars` |
| `Batch` | `FeatureEngine.transform` over a growing history and store |
| `PitAudit` | `audit_replay_equivalence`, run beside `Batch` |
| `Streaming` | `StreamingFeatureEngine` and its callers, restarts, redelivered bars |
| `Indicators` | the primitives of `_ta.py` by their memory |
| `Transforms` | the columns of the windowed transforms with the lookbacks they declare, and what the engine makes of the declarations |
| `Calendar`, `TradingDays` | `TradingCalendar`; a feed across a change of the clocks, filed by calendar and by resampler |
| `Cleaning`, `Ingest` | `clean_bars`; `detect_issues`, `detect_gaps`, the run up to the store |
| `BarStore` | `write_bars`, `_atomic_write`, `read_bars` with kills and failures between file operations |
| `FeatureStore` | `write_features`, the manifest, `read_features`, with kills and failures |
| `Pipeline` | `data ingest` and `features build` over one disk: `BarStore` and `FeatureStore` composed |
| `Sessions`, `Feed` | session windows and instances; a feed that fails to deliver some bars |
| `Liquidity`, `TimeFeatures` | reference levels; the gap flags and the two columns computed from the whole index, all functions of a set of bars |
| `Zones`, `FairValueGaps`, `OrderBlocks` | the forward passes of `fvg.py` and `order_blocks.py` |
| `Structure`, `Sweeps` | the forward passes of `structure.py` and `liquidity.py` |
| `PriceAction` | the four passes over one history, as the engine runs them |
| `Settings` | the layers of the configuration: files, environment, `--set`, validation |
| `CsvLoader`, `Loading` | which column becomes which field; the loader under whatever configuration `Settings` yields |

How state and actions correspond:

- `Batch`: `history` is what the market has closed. `Transform(n, m)` is a whole
  call of `transform` on the first n bars with a context resampled when there
  were m >= n. A leakage assertion or a resampling error raises, and then nothing
  is returned: the action is not enabled. `matrix` is the returned frame.
- A row (`FeatureEngine!Row`) has four parts: `window`, the bars its base columns
  look back on; `running`, the HTF bar in progress; `htf`, the closed ones; and
  `index`, the bars that `session_progress` and `session_atr_ratio` are computed
  from, which is the whole frame. `CausalPart` is the first three. That the base
  transforms other than those two look back from their own row only is what
  `features/base.py` asks of them; it is assumed of `window`, and what the runs and
  proofs show is the alignment of the context, the running bar and the buffer.
- `Streaming`: `base` and `context` are `_base` and `_context`. `Prime`, `Update`
  are the two methods, in full: `Update` replaces buffer and context before it
  validates, as the code does, so a call that raises still changes state. `live`
  collects the rows returned, `consumed` is the position of the caller.
- `PitAudit`: `Audit` is one call; `audit` its report. The draw of the cutoffs
  is any non-empty set of at most `MaxCutoffs` of the range the code draws from.
  All columns are compared, the whole-index ones too: those computed from other
  bars may differ, and may be reported.
- `Transforms`: a column has a declared lookback, a `need` (the first bar whose
  value uses nothing that is missing) and a `reach` (how far back a value reads;
  `Forever` for recursive averages). `Indicators` computes need and reach of each
  primitive from those of its argument. `matrix` is what `transform` returned for
  a configuration and a length of history.
- `Ingest`: `AddRow` grows the source file; `RunIngest` is one run with its early
  exits as outcomes. `BarStore` takes the run from there: `StartIngest` fixes the
  files to write, `todo`, and `NextFile` is the first of those left: by table in
  the order of the configuration, then by month. `BeginWrite`, `EndWrite`,
  `Replace` are the steps on one file,
  `WriteFails` the exception handler, `Kill` the end of the process. `source`
  says whether partitions are overwritten (what the ingest does) or merged (the
  other value of the parameter of `write_bars`).
- `FeatureStore`: `WritePart` is one partition with its rename, `OpenManifest` and
  `FillManifest` the two halves of writing JSON in place.
- `Pipeline`: `RunIngest` and `RunBuild` start the two commands, one at a time;
  `BuildIsRefused` is a build whose bars cannot be read; the steps of the stores
  are those of their modules. A feature row is the version of the source it was
  computed from. `pending` is the command the operator has yet to see through: the
  one that failed, was refused with "Run `xaubot data ingest` first", or has new
  bars to work on. The transform and the replay audit inside a build are taken to
  succeed here, so `Recovers` is about builds run with `--no-audit` or whose audit
  finds nothing; see the third divergence in section 5.
- `Settings`: `tree` is the dictionary as it is layered, `stage` the layer that
  comes next. `Loading` keeps of a validated configuration what the loader reads.
- `PriceAction`: `NextBar` is one iteration of each forward pass. The code runs
  one pass after the other over the whole frame; the passes share nothing but the
  bars, so taking each bar with all four is the same. Bearish zones are bullish
  zones of the mirrored bars, which is how the code's two branches are related.
  A list of zones keeps the order of the code's list; `Tracked` is a bar's work on
  it, the stable sort by distance and the cut included.
- `Feed`: `Deliver` and `NoBar` are the bars of the open market that come and
  those that do not. Features are operators on `history`, evaluated at every
  stamp of it, over the whole history and over a part of it.

Operators whose comment starts with `Variant:` are not part of a model. Each is a
plausible wrong version of the operator that follows it, listed under `mutants`:
put in the place of the right one, it violates the property named there.

## 3. The runs

| Run | Instance and why it is enough | Shows |
|---|---|---|
| `pit_audit` | seven of the instants 3..11, so histories with and without gaps; 15m bars of 2, 4h bars of 3 and days of 4 base bars, clocks changing at 8; warmup 4, margin 1, so the longest history is past both | `MatrixIsPointInTime` (refinement of `PointInTime`), `CompletedBarsAreFinal`, `RunningIsBarInProgress`; `CausalColumnsReplay`: the audit can report columns over the whole index, and no others |
| `streaming` | six instants, two timeframes, a 4h grid off the epoch; a buffer of four for six bars, so that it is trimmed and outlived; one redelivery of any old bar at any time | `LiveIsPointInTime` (refinement of `PointInTime`) |
| `ingest` | any file of up to three lines over six stamps, one off the grid, one in a closed hour, with every kind of fault; two stretches of open stamps with a closed one between them, so that up to three adjacent bars are missing, runs end at a bar and at a closure, and there are several | `CleanedIsFrame`, `LastGoodRowWins`, `OnlyShortGapsAreFilled`, `GapReportAddsUp` |
| `pipeline` | a base and a context table, two months; three uses of the store: deliveries that grow and revise, that lose a month, that are merged; one ingest and one build killed, so that each can leave half its work to the other, failures without bound; two configurations that share a directory | of the bars: `CompleteIngestIsRead`, `PartitionsAreWhole`, `ContextIsNotAhead`, `NewBarsAreRead`, `NoStampIsLost`; of the features: `ReadSetsAreWhole`; of both: `SettledIsCurrent`, `Recovers` |
| `price_action` | five kinds of history, of four to seven bars: each of the bars that make one pass take every branch, and one of the bars that make three blocks; lists of two zones, ages of two bars, swings of one bar on either side, an event memory of two, so that sorting, eviction, expiry and replacement happen | `TrackedZonesAreLive`, `NoZoneIsMissed`; `SwingsAreConfirmed`, `TrendComparesPivots`, `EventsAreOfPivots`, `DirectionFollowsPivots`, `BreaksAreOfOldLevels`, `ShiftsAlternate`; `SweptLevelsWereThere`, `LastSweepIsDescribed`, `ScoreFollowsTheReversal` |
| `feed_features` | Thursday to Tuesday, eight bars a day, three overlapping sessions, New York's clocks changing on the Sunday, any two bars missing | `TradingDayRollsAtOpen`, `DaysAreLocal`, `DaysAgree`; `PreviousPeriodIsOver`, `LevelsAreStable`; `ReopeningIsFlagged` |
| `transforms` | the options of the default configuration and 767 others: every pair of windowed groups, another ATR, one long percentile or two, all or no higher timeframes, three limits on the warmup, both policies; a history shorter and one longer than every window | `KeptRowsAreSettled`, `LiveBufferHoldsWindows` |
| `loading` | a base file, up to two of four overlays and two of six options that add, replace, wipe out or go below a mapping; every file of up to four of seven confusable columns | `LaterLayersWin`, `OrderIsImmaterial` |

The properties compare what the code keeps or returns with something computed
independently: the incremental passes with a definition over the whole history
(`LiveGaps`, `Pivots`, ...), a calendar with a resampler, a row with the contract,
a declared lookback with the memory of the primitives, a reader of files with the
versions of the source. Four runs expect a violation, `feed_features_autumn`,
`feed_features_ahead`, `pipeline_killed` and `transforms_purge`; they are findings
and come first in section 5.

**Fairness.** `Recovers` is the one liveness property. No part of the program
waits or retries by itself, so there are two assumptions (`FairPipeline`). A
process that is running and is not interrupted goes on, which is weak fairness of
`Work`: file operations end. And the operator does what the commands' own messages
ask for, which is weak fairness of `FollowUp`: an ingest that failed is run again,
a build that was refused for want of bars is preceded by an ingest. What is then
shown is not that operators are diligent but that these messages lead anywhere:
after any interruptions, once these, new versions and other commands cease, the
wanted feature set becomes current and stays so. It holds for a source that only
grows; where the source loses a month, old partitions stay and are read
(`data/store.py:62`), and builds are not part of those uses of the store.

Deadlock is checked in `ingest`, `pipeline` and `pipeline_killed`, which never stop.
The other runs end with the history at its bound, the market's time over or the
call returned, and say `CHECK_DEADLOCK FALSE`.

## 4. The proofs

TLAPS checks the core of the system for every value of the constants: every set of
instants, every length and number of timeframes, every anchor, warmup, buffer
multiplier and padding that the assumptions admit, and histories of any length.

`FeatureEngine_proofs` is about one row. `IntradayGridIsWellFormed` and
`DailyGridIsWellFormed` show that the grouping keys cut the time line into intervals,
the daily ones across a change of the clocks in either direction. The daily theorem has
a hypothesis, `QuietDailyAnchor`: `_daily_bounds` subtracts the anchor before it reads
the wall clock, which in the hours after a change gives another date than subtracting
it afterwards, so there must be no bars then; and the anchor must be no wall clock that
comes twice. What carries the proof is that `tz_localize` gives the first instant whose
wall clock has been reached (`LocalizeIsFirst`). `MCHypotheses` evaluates the
hypothesis, and the grid, on the open hours of the feeds with a change in spring and
with one in autumn. `ResampledPrefix`: of the bars resampled
from a longer history, those closed by the end of a prefix are the closed bars of
the prefix, so a newer store hides nothing and reveals nothing. `AsofJoin` and
`AlignedIsClosed` carry this through the join, and `RowIsReading` concludes that
the row the engine computes for a bar, from any frame and any later context, is
`Reading` of the bars up to it, and that the leakage assertion never fires.

`Batch_proofs`: `TypeInvariance`; `BatchIsPointInTime`, the refinement of
`PointInTime`, with `TypeOK` as the inductive invariant; `ResampledBarsAreFinal`,
for `drop_incomplete_last_bar = True`; `RunningDescribesBarInProgress`, for an H4
anchor at the epoch, where the rows already returned must be remembered to be
readings (`RowsAreReadings`), because the history grows under them.

`Streaming_proofs`: the type invariant does not suffice, since a row is right only
if the buffer still holds all the bars it looks back on. `BufferInv` says what the
buffer holds, for a caller who may hand bars over again: the last bars are those last
given in turn; before them are bars handed over again, no more than there were; where
those begin two bars are out of order, unless older ones have scrolled out
(`IsMended`). `MendedInTurn` and `MendedByRetry` show that both kinds of update keep
this. So a buffer that passes the check on frames lacks at most the bars that were
handed over again (`FrameIsMended`), `PadIsSlack` shows that the buffer size leaves
that many to spare, and `BufferedRow` that a frame which ends like the history for as
long as a row looks back gives the row of the whole history, whatever it begins with.
`StreamingIsPointInTime` concludes that the driver refines `PointInTime`: its rows are
those of the batch driver. `RetriedStreamingIsPointInTime` says so for the caller who
retries, under `Slack(MaxRedeliveries)`: as many bars to spare as are handed over
again, which `PadIsSlack` grants for `BufferPad` bars. The hypothesis is needed: with
two bars handed over again and a pad of one, TLC finds the run of section 5.

`CausalColumnsAlwaysReplay`, in `Batch_proofs`: the audit compares a row of the full
matrix with the last row of a truncated replay, and `RowIsReading` makes the causal
parts of both the reading of the same bars, whatever the cutoffs, the margin and the
grids. So what it reports is of the columns computed from the whole index. All
theorems about rows are about their causal parts.

`PriceAction_proofs`: the four forward passes, for histories of any length and bars
of any prices. The properties of `structure.py` and `liquidity.py` are not inductive:
a break is judged by `last`, a score by `sweep`. `IInv` says that what a pass
remembers is the latest of its kind in the whole history (`KnowsLast`, `KnowsTrend`,
`KnowsBreak`, `KnowsSweep`) and that the events are the last `Memory` of the moves
between pivots (`KnowsEvents`); its preservation (`MemoryIsOfTheHistory`) is an argument
about how the pivots and sweeps of a history change when a bar is appended, and
eight properties follow from it. For the lists of `fvg.py` and `order_blocks.py` the
invariant is `ZonesInv` (`ZonesAreOfTheHistory`): every zone listed is one that the
history made, with the lowest price since, no two are of one birth, the list is
sorted by distance to the close, and a live zone is missing only if at some bar there
were `MaxTracked` others as near to the close. `TrackedZonesAreAlwaysLive` and
`NoZoneIsEverMissed` follow. What carries the induction is that a sort and a cut
lose a zone only to as many others as the list holds, and that the distance to a
close depends on what of a zone never changes.

`Ingest_proofs`: cleaning, for every file, every length of a bar and every policy.
`IngestInv` says that source rows are numbered by their lines, so that a row added is
a new one, and that the frame kept is what cleaning made of some of the lines.
`InOrderLists` shows that the sort of rows with distinct stamps lists each once;
`FilledOnce`, that what is made up never meets a row that is there. On these rest
`CleanedIsAlwaysFrame` (with the drops of the default configuration on: without them
the code does not promise it), `LastGoodRowAlwaysWins` (for every policy but
`keep_first`) and `OnlyShortGapsAreEverFilled` (for stamps on the grid).

The gap report is in `Ingest_proofs` too. `GapReportAlwaysAddsUp` is about a sum over a
set, which the library defines as a fold by recursion on the set. The induction is
carried out by hand: a set of least cardinality of which a claim is false
(`BarsInIsFold`, `SumOfBars`). The claim is that the bars of the runs are as many as
the union of their extents; `RunsAreApart` shows that extents do not overlap and
`RunsReachAll` that every missing bar is in one, by the least number of steps back to
a bar whose predecessor is not missing. The theorem also says that runs are maximal,
the bars before and after one are not missing: cut into single bars, as the comment
at `data/validators.py:253` warns of, the runs would have the right sum.

`OrderIsAlwaysImmaterial`, of the CSV loader: `LoaderSpec` is what `Loading` does to the
loader's variables, with any configuration where `Loading` has those that `Settings`
yields. `ListOfElements` is the fact about the library it needs, that a
list without repetitions and the list the library makes of its elements have the same
elements; `SameSource` and `SameLoaded` follow the loader through both.

`Pipeline_proofs` begins with what readers of the bar store are promised, for every use of it,
any list of tables and set of months, and any number of kills and failures.
`StoreInv` says that files hold bars of the source only, none twice and each in its
month (`Origin`); that a file about to be renamed holds what was to be written
(`Progress`); that the files an ingestion has written are there (`Delivered`), which is
what makes a complete one readable; and that without kills no temporary file outlives
its write (`NothingIsLeft`). `ContextIsNotAhead` is a conjunct of it: it is stated of
all months of the base table, because context of one month is made of base bars of
its neighbour too, and in that form it is inductive, as all of the base table is
written before any context. From `StoreInv` follow `PartitionsAreAlwaysWhole`,
`CompleteIngestsAreRead`, `NewBarsAreAlwaysRead` and `NoStampIsEverLost`.

Then come the two refinements, `PipelineIsBarStore` and `PipelineIsFeatureStore`: every behaviour of the command line is one of the bar store and one of
the feature store, which can therefore be read as those components' contracts, and
every theorem about the bar store holds of the pipeline. `BuildInv` says that a
readable manifest is of a finished build all whose months are there;
`ReadSetsAreAlwaysWhole` follows.
`SettledIsAlwaysCurrent` relates both stores and needs to know, between the commands,
which of them is still owed: `CurrentInv` says that unless an ingest is pending the
newest version is stored completely, or nothing was ever ingested and no build has
begun, that a running build is of bars there still are
(`JobInv`), and that no feature partition is of a month the source lacks (`RowsInv`).

`Transforms_proofs`: the lookbacks. The state is simple (`RequirementIsRecorded`); the
theorems are about what the transforms declare, for every configuration in
`FeaturesSchema` and not the eight or so options a run varies. `Fits` says of a column
that its need and its reach are bounded by what the longest declaration of its
configuration allows; it is proved group by group (`ColumnsFit`), carried through the
reduced configuration of the higher timeframes (`HtfOptions`, `HtfColumnsFit`), and
`WarmupIs` says what the maximum over both comes to. The schema admits more than the
code is good for, and the hypotheses say what:

| Hypothesis | Says | Without it |
|---|---|---|
| `Computable` | periods are positive, a longest or second shortest exists where one is asked for, `time_of_day_days` is at least 3 | the transforms raise, or read ahead |
| `DeclaredForAll`, for `KeptRowsAreAlwaysSettled` | the Bollinger period is not far above the default, one of the breakout and momentum periods is at least 4 | kept rows have missing values: the declaration is too small and no other column makes up for it |
| `MarginForBands`, for `LiveBufferAlwaysHoldsWindows` | the Bollinger period is at most a quarter of the buffer's size, and 11 | ranks of Bollinger widths reach past the buffer |

The default configuration satisfies all three, as do those of the run: `MCHypotheses` in
`MCTransforms`.

`Feed_proofs`: days, levels and flags, for every calendar, every session
and however a feed drops bars. The inductive invariant `FeedInv` is small, bars of
the open market whose time has come; the work is in what the code computes of them.
`ReopeningIsAlwaysFlagged` needs nothing else. The others
have hypotheses about the calendar, each named beside the property:

| Theorem | Hypothesis | Why it is needed |
|---|---|---|
| `PreviousPeriodIsAlwaysOver` | `DaysNeverGoBack` | periods are found by the change of a key; a key that comes back would be two periods |
| `LevelsAreAlwaysStable` | `DaysNeverGoBack`, `SessionsAreUnbroken` | likewise; a session interrupted by another one gets its level before it is over (`features/liquidity.py:201`) |
| `TradingDayAlwaysRollsAtOpen` | `SpringForward`: clocks go forward, or stay | when they go back it is false: the finding at `core/calendar.py:121` |
| `DaysAreAlwaysLocal`, `DaysAlwaysAgree` | `SpringForward`, `QuietAnchor`: the market is shut around the daily anchor and the change | both cut the feed where it is shut, by different arithmetic |

`SpringNeverGoesBack` derives the first hypothesis from the third. TLC evaluates all
of them (`MCHypotheses`) on the three feed configurations, so no theorem is about
calendars that do not exist; with the autumn change, only those that hold there.

Assumptions: `EngineAssumption`, `StreamingAssumption`, `PitAuditAssumption`,
`PriceActionAssumption`, `IngestAssumption`, `StoreAssumption`, `PipelineAssumption`,
`FeedAssumption`, `DaysAssumption`, `TransformsAssumption` and what they name, which TLC evaluates in the runs.
`StoreAssumption` is what the loader and the cleaning promise of a source: stamps are
keys, and a version that overwrites keeps the stamps of the one before it or has
dropped the whole month. `EngineAssumption` contains `WellFormedGrid` of every
timeframe; the two grid theorems discharge it, for the daily one under
`QuietDailyAnchor`.

Only model-checked, and why:

- `Recovers`: liveness is out of the prover's reach.
- `DirectionFollowsPivots`: the sign of the sum of the events is a fold, and what folds
  of two lists have to do with each other is an induction over data.
- `LaterLayersWin`: merging configuration trees is recursive, and so is reading the
  leaves of one.
- the properties of the four runs that expect a violation, which are false.

## 5. Divergences met while modelling

Checked by a run that finds the violation:

- `core/calendar.py:121`, run `feed_features_autumn`: `trading_day` adds a day of
  absolute time to local midnight. On the Sunday the clocks go back this is 23:00
  of the same day, and Sunday evening's bars are filed under Sunday, against the
  docstring at 112.
- `data/store.py:134`, run `pipeline_killed`: `read_bars` scans the directory and
  finds the `part.parquet.tmp` a killed writer leaves behind: the table cannot be
  read, or a month is read twice and refused, against line 12.
- `features/time_features.py:132` and `161`, run `feed_features_ahead`:
  `session_progress` divides by a median over the whole index, and the window of
  `session_atr_ratio` is divided by the number of labels in it, so both change when
  later bars arrive, against `features/base.py:13`. `CausalColumnsReplay` shows the
  other side of it: the replay audit, which `features build` runs unless told not to
  (`cli.py:298-304`), compares these columns too and may refuse a build on their
  account.
- `features/volatility.py:83`, run `transforms_purge`: a percentile of Bollinger widths
  declares the outer window only, so `max_lookback_bars`, the width of the purge,
  is less than the column reads, against `features/manifest.py:8-12`.

Seen in the code while translating it, each with the behaviour the model keeps; no
run claims the opposite of what the code does:

- `features/mtf.py:142`: running features use the epoch grid although 4h bars may be
  anchored elsewhere (`h4_anchor_offset_minutes`), so `RunningIsBarInProgress` holds
  for an anchor of zero only, which is an assumption of its theorem.
- `features/engine.py:422`: `update` without a context keeps the last one; HTF bars
  that closed since are missing from the row.
- `features/engine.py:421-427`: a bar handed over again stays in the buffer, and
  `update` raises until older ones have scrolled out. When more were handed over than
  the buffer has to spare, in their order, what is left passes the check and a row is
  returned that lacks the bars they displaced. `RetrySpec` bounds them.
- `features/pit_audit.py:207-208`: `lowest` is at most `len(base) - 2`, so the guard
  against short histories is never met.
- `data/pipeline.py:122`: gaps are measured on the cleaned frame, so a stamp whose
  only row was dropped counts as missing and a filled outage does not, against the
  comment at 9.
- `data/pipeline.py:108,167`: the quality gate refuses for errors cleaning has
  repaired ("error-severity issues remain").
- `data/pipeline.py:135`, `data/cleaning.py:117`: a file of which nothing survives
  is an `IndexError`, duplicates under `raise` a `ValueError`; `core/errors.py:3` says
  every failure has a named exception. So is a torn manifest, a
  `JSONDecodeError` (`features/manifest.py:83`).
- `features/manifest.py:143`: the version hashes the features configuration only;
  builds with other anchors or bars share a directory, and nothing notices unless
  the columns differ.
- `features/fvg.py:167`: the list of gaps is cut by distance at the moment; when
  price comes back, the nearest unfilled gap may have been forgotten. `NoZoneIsMissed`
  therefore excuses a gap that was crowded out at any bar since it was made.
- `features/order_blocks.py:165`: a new block takes the bar that makes it into
  account and may be born mitigated.
- `features/structure.py:295` and `261`: the first break of a series counts as a
  shift; an equal pivot counts as a bearish event.
- `features/liquidity.py:201`: in an overlap a bar is filed under one session only,
  and the group of the other ends there, so its level is published while that
  session is still open.
- `core/sessions.py:142`: all bars outside sessions share one identifier, and with
  it running levels, counts and average price.
- `features/time_features.py:163,168`: the baseline of `session_atr_ratio` includes
  the session in progress; `bars_since_gap` declares a lookback of one.
- `data/loaders/csv_loader.py:147,168`: a configured volume column loses against an
  alias before it; separate date and time columns are read as the time alone,
  because both are candidates for the single stamp and the branch that joins them
  comes after.
- `features/trend.py:103`, `features/volume.py:71`: declarations that are too small
  without being the largest: `cci_20_norm` says 21 and needs 39, `dist_vwap_atr`
  says 1. Columns scaled by the ATR declare 15 or 35 bars whatever
  `primary_atr_period` is; `KeptRowsAreSettled` assumes it to be 14 at most.
- `features/base.py:43`, `features/engine.py`: a history no longer than the warmup
  keeps all its rows; the policy `mark` marks nothing.
- `features/volatility.py:143`: the first six bars of `nr7` and `wr7` are 0.0, which the
  comment says are NaN. A percentile window below 20, which
  `bb_percentile_window` admits, and a single EMA period end in a `ValueError`.
- `features/volume.py:127`: the median of a minute of the day has at least
  `max(3, days // 4)` occurrences, so `time_of_day_days = 2`, which `gt=1` in
  `config/schema.py:262` admits, ends in a `ValueError`.
- `features/volatility.py:83`, `features/patterns.py`: what the group declares does not
  cover a Bollinger period far above the default, nor, with patterns alone and both of
  `breakout_period` and `momentum_period` below 4, the mean of twenty ranges that a
  breakout is measured by; rows kept after the warmup then have missing values. Met as
  the hypothesis `DeclaredForAll`.
- `config/schema.py:233`: tuples of periods have no bounds; a return over a negative
  period would read later bars, and only the replay audit would notice.
- `features/store.py:3-6` says partitions are never changed in place; a build of new
  bars with the same configuration replaces them in place, and a reader in between
  sees rows of two versions of the source under one manifest.
- `cli.py`: `_load_bars` does not expect the `SchemaError` a half-written table
  raises; a repeated `--set` key keeps its first place in the order (54);
  `--set x=17:00` is the number 1020. `log_level` of the configuration and
  `XAUBOT_LOG_LEVEL` are read by nobody (70-74; `config/schema.py:392`), and
  `timestamp_convention` is called required and has a default
  (`config/schema.py:123,133`).

## 6. What is not modelled

- The numbers of the indicators: floating-point arithmetic over trailing windows
  (`_ta.py` and the transforms built on it; strengths and distances elsewhere). Their
  memory is modelled, in `Transforms`. A transform with unbounded memory (recursive
  averages, counters) is outside the streaming theorem: its value in a truncated
  buffer is an approximation.
- In `price_action` the average true range is one unit of price once it is defined.
- The features of `volume.py` and the counters and baselines of `time_features.py`
  beyond their lookbacks (`Transforms`): they are expressions over the bars up to
  their own, and a model of them would say so by its form.
- An update with no fresh context when HTF bars have closed since: its row lacks them,
  by design of the call, and neither `Streaming` nor the contract speaks of such rows.
  A redelivered bar is handed over without a context.
- Whether a session's level is published before the session is over; it is, in an
  overlap (section 5). `LevelsAreStable` says that it does not change afterwards.
- A file with two candidates for a price or for the volume: `OrderIsImmaterial` is
  stated of files with one, and of any number of candidates for the time.
- Stamps the source no longer has: partitions of months it lost stay in the store
  (`data/store.py:62`).
- Parsing of numbers and stamps, delimiter sniffing, the types and ranges of
  configuration fields, hashing beyond injectivity, logging, rendering, listings
  and reports, the static source scan of the audit.
- Two processes writing one store at once: nothing in the code locks or is meant
  to be run so.
- Labels, models, backtest, risk, execution: designed in `docs/`, no code.

## 7. The plan

Done: the engine's core with its contract, refinement and proofs; stores and the
command line over them, ingest, calendar, the features that pass over the bars, all
with proofs; the features' lookbacks, with proofs; configuration. The modules were written in the order of section 2.

Next, extending the model:

1. `Streaming`: an update without a context, with the weaker promise that its row is
   never ahead of its time; bars that were skipped.
2. Calendars whose break wraps midnight or meets the week's open; the clock change
   chosen in `Init` instead of in the configuration.
3. The whole-index columns of `time_features.py` inside `Pipeline`: builds that the
   audit refuses, and what is then left in the store.
4. `Indicators`: what need and reach claim of a primitive, against a definition of
   the primitive on sequences of missing and present values.

Next, proving:

1. `DaysAreLocal` and `DaysAgree` under `QuietDailyAnchor` in place of `SpringForward`,
   so that they cover the autumn as well, with what of `TradingDay` holds then.
2. `LaterLayersWin`, with `DeepMerge` written as a function of the depth of a tree.

To run: `tlc -config MCStreaming.cfg MCStreaming.tla`, `tlapm Streaming_proofs.tla`.
