# A formal model of a-share-quant

TLA+ specifications of `aquant`, the offline A-share research and backtest
platform under `src/src/aquant/` of this repository (paths below are relative to that
directory unless they start with `src/`). TLC checks the specifications on small
instances; TLAPS proves thirty-six theorems, about the two ledgers, the portfolio run,
the research loop, the backtest, the planner, ingestion and its client, the stores, the publications and Gate E, for every value of the constants. Every definition that
stands for code is listed with its lines in `PROJECT.json` ("map").

How to run: `tlc -workers 2 -config ledger.cfg MCLedgerClient.tla` (and so for every
run in the table below), `tlapm LedgerProofs.tla`.

## The system

Data comes in through `ingestion`, is kept in append-only stores (raw snapshots,
calendars and corporate actions by content, the manifest of records), and is read
back by simulations that post into a verified ledger and whose results are
exported as immutable bundles. Gate E repeats a released run in an environment of
its own before the release is approved. Components call each other
synchronously in one process. The concurrency is between *processes* that share the
storage directory; the failures that matter are failed system calls, dead processes
and power losses.

| component | state it keeps | operations | interacts with | hard behaviour |
|---|---|---|---|---|
| Market rules (`rules/`) | none | `evaluate_order`, `calculate_fees`, `price_limits`, lots | called by coordinator, rolling, backtest | rounding at ticks and fen, order of refusals, dates before the first fee rate |
| Portfolio ledger (`portfolio/accounting.py`) | cash, lots, cash events, receivables, daily snapshots, one immutable value | `post_buy`, `register_receivable`, `pay_receivables`, `close_session`, `verify_portfolio_ledger` | called by coordinator | long sequences of calls, dates out of order, incremental postings against an independent replay |
| Coordinator (`portfolio/coordinator.py`) | marks, targets, attempts, previous session | `run_portfolio_backtest` | rules, ledger, calendar | entitlement at the record date, marks on days without a bar, attempts that expire, cash shared in symbol order |
| Portfolio export and verification (`portfolio/export.py`, `verify.py`) | immutable bundles | `export_portfolio_run`, `verify_portfolio_run` | coordinator, Gate E | rename without replacement, cleanup of own files; a second reading of every rule |
| Raw snapshot store (`data/snapshot.py`) | files named for their content, temporary names | `write`, `verify` | ingestion, every reader | publication by hard link, recovery of other processes' temporary names, power loss |
| Data manifest (`data/manifest.py`) | one JSON-lines file, a lock file | `append_batch`, `read_all` | ingestion, every reader | lock, read-check-rename, failures after the rename |
| Calendar store (`data/calendar_snapshot.py`) | calendar files, a JSON-lines manifest, a lock file | `write`, `read_manifest`, `load_verified_calendar` | ingestion, every run | manifest appended in place, readers without lock |
| Corporate-action store and ingestion (`data/corporate_actions.py`, `corporate_action_ingestion.py`) | bundles and a manifest | `write`, `append`, `verify` | coordinator, research | publication without a lock, record appended later, by whoever; running totals turned into events |
| Market data client, normalisation, quality (`data/akshare_client.py`, `normalize.py`, `quality.py`) | the log of attempts | `fetch_batch`, `fetch_corporate_actions`, `normalize_market_frame`, `validate_market_frame` | ingestion | two providers with different units and ranges, fallback of a whole group |
| Ingestion (`data/ingestion.py`) | none of its own | `run_ingestion` | client, the stores | partial failure between stores, retries, overlapping runs |
| Rolling ledger (`rolling/accounting.py`) | as the portfolio ledger, with sells and partial lots | `promote_portfolio_ledger`, `post_rolling_buy`, `post_rolling_sell`, `close_rolling_session`, `verify_rolling_ledger` | rebalance, research loop | first in first out over partial lots, past days reconstructed after sells, two schemas of one account |
| Rebalance (`rolling/orchestration.py`) | attempts of one call | `rebalance_to_plan` | rules, rolling ledger, planner | sells before buys out of one purse, sizes cut to the cash, result checked against the ledger |
| Planner (`planner/`) | none | `plan_targets` | rebalance, research loop | targets carried forward, explicit zeros, limits over decisions of different sessions |
| Research signals (`research/signals.py`) | none | `compute` of five signals | research loop | silence against zero, ties, look-ahead |
| Research loop (`research/loop.py`) | pending plan, retry flag, marks, dividend audit | `_simulate_path`, `_simulate_a4_3_path` | planner, rebalance, rolling ledger, calendar | retries over suspensions, dividends around the open, order of calls within a session |
| Backtest (`backtest/`) | the broker's queue, lots, receivables; results and an index on disk | `RuleAwareBackBroker`, strategies, `publish_superseded_index` | backtrader (external), rules | order lifecycle over gaps between calendar and bars, dividends around the open |
| Gate E (`gate_e/`) | workspaces, evidence, trust file | candidate A, trust, replay B, audit | portfolio, files, git | objects replaced between check and use, files committed by people in any order |
| Reports, metrics, release, CLIs | none, or a directory of files | | | rendering, wiring |

What makes each correct:

* rules: the first refusal that applies is the answer; an allowed order can be paid;
* ledger: the account replays from its events, cash is conserved, closed days never change;
* coordinator and verifier: the ledger never refuses one of its calls, dividends go to the holders
  of the record date, a finished run passes the independent verification, the run ends;
* stores and publications: nothing partial is visible, nothing acknowledged is lost, concurrent
  and repeated writes leave one first version, nobody waits forever;
* data: a batch speaks one language for each group, what is accepted says the same whoever delivered it,
  dividends add up;
* rolling ledger: as the ledger, and sells take the oldest lots first without rewriting the past;
* planner, signals and rebalance: the targets in force are the latest decisions and within limits; trading goes
  as far as the market and cash allow;
* research loop: no layer refuses what another hands it, missed targets are retried
  until met, entitlements follow the record date, every path completes;
* backtest: every order is decided once, on the session after its signal; the daily ledgers follow from the records;
* ingestion: the manifest never shows a record without its snapshot or a part of a universe;
* Gate E: evidence is about what really ran, and nothing is verified that was not approved.

The hazards, each at its line and with the property that covers it
or the reason none does, are in `PROJECT.json`.

## Modules

### Accounts and simulations

**`MarketRules`** has the pre-trade rules as operators. Prices are integers in
mills (0.001 yuan), cash in fen, rates in 1/100000; the code's exact `Decimal`
with half-up rounding is `HalfUp` on integers. Arithmetic is unbounded, as in
Python. `Refusals(o)` lists the checks of `evaluate_order` in the code's order
and `EvaluateOrder` takes the first that applies.

**`PortfolioLedger`** has the ledger as one record and its four operations as
actions over `ledger`, `reply`, `asOf`. Each action is the whole function: the
checks of the request (`...Refused`), the updated ledger (`Bought`,
`Registered`, `Paid`, `ClosedWith`), and the replay of what was built
(`Verified`), without which nothing is handed back. `verify_portfolio_ledger`
is the conjunction `Verified`; the exceptions it raises are not told apart
(`reply = "unreconciled"`). The code also replays the ledger it is *given*; as
every ledger handed back has been replayed, that check cannot fail and is left
out (`LedgerAlwaysReplays` is the theorem that justifies it). Postings, like those
of the code, hold arbitrary fees: that they are the right fees is the
coordinator's part. **`LedgerClient`** calls the ledger arbitrarily: any posting,
registration, payment or close about any date in any order.

**`Coordinator`** calls the ledger the
way `run_portfolio_backtest` does, one action for each phase of a session and
one for each target tried. The bars of a session are picked when it opens, the
corporate actions of the run at the start. Checks of inputs made before the loop
(`_verify_preflight`, `_verify_supported_actions`, the availability of a signal
bar) are the assumption `CoordinatorAssumption` on the constants. A failed call
of the ledger or a failed check of an attempt ends the run in `aborted`; that
the code then returns nothing is why properties of an aborted run's targets are
not claimed. Of the size loop, which tries smaller sizes one lot at a time,
`Candidate` states the outcome: the largest size to which cash is not the objection.

**`PortfolioVerifier`** reads the coordinator's final state as the rows of an exported
run and has one operator for each group of checks of `portfolio/verify.py`, of
the accounting audit of Gate E (`gate_e/audit.py`), and of the metrics that read attempts again.
Text, column order, order of rows and digests are left out.

**`RollingLedger`** extends `PortfolioLedger`: the same record, in which a lot
also keeps its original size and a sell is an event that says what it took of
each lot. `LotsAfter` replays the sells of a set of events, from which positions
of past days, the replay of a sell and the terminal check of the lots all
follow. **`RollingClient`** uses a portfolio ledger, promotes it at any moment and
then buys, sells and closes arbitrarily. A promoted ledger keeps its receivables, and
`rolling/accounting.py` has no operation to pay them, so the client has none.

**`Planner`** is `plan_targets` as operators over percent weights;
**`PlannerClient`** chains plans of any outputs. **`Signals`** chains them with the
outputs of the five signals of `research/signals.py`, over every history of a few
closes. Quotients are compared by cross-multiplication where the code divides floats; the offsets of the monthly
signal are one and two months, not one and twelve; closes are positive, so the refusals of
non-positive and non-finite ones are left out. The top-k signal is a demonstration the research loop does not
use; here it is planned like the others.

**`Rebalance`** is `rebalance_to_plan` in three
kinds of steps: its preconditions and sizing, one attempt each, and the check of
the result. `BuySize` states the outcome of the loop that gives up one board lot
at a time. **`ResearchLoop`** composes planner, rebalance and rolling ledger into
one path of a research run, with the phases of a session as `phase`. It stands
for both the loop over one symbol and the loop over two, which repeat each other line
for line; the map names the one over two. Bars are picked when a session opens, within what
`derive_price_streams` and `_validated_sessions` admit (`NeedsBar`, `Quote`); what
a signal says is picked when it is asked, so any strategy that looks only at
the past is covered. An exception of any layer ends the path in `failed`.

**`Backtest`** is the single-instrument backtest: the frame of bars, which need not agree with
the calendar, drives the engine; each bar goes through dividends, execution, and the strategy with its daily
ledgers. Backtrader is external and modelled from how the broker uses it: it notifies the
strategy before `next()`, so that the broker's queue and the strategy's pending order are one
variable. The broker's cash is a float number of yuan. The initial `balance` is any, here of a tenth of a fen, and all that moves
later is whole fen: `cash` is the whole part, `Fraction` what there is beyond it, and `below` says that the float arithmetic has left the sum a
hair short, which each computation may do or undo. The rules see the cash rounded half-up (`RoundedCash`), the broker
takes the cost from the unrounded one, and where the two disagree an allowed order ends as `Margin`, which is
backtrader's status and none of the code's refusals. Cost and fees are exact, the errors of one float operation on them being those of `below`.
Where the close lies to the moving average is picked freely. (The module's specification is `BacktestSpec`.)

### Stores, publications and data

**`ContentStore`** and **`BatchLog`** are what stores
promise: contents that are stored whole and, once acknowledged, for
good; a set of records that grows by whole batches, refuses contradictions and
keeps what it reported. **`SnapshotStore`** and **`ManifestLog`** are the code,
one system call (or a sequence that nobody else can observe) per action.
`SnapshotStore` keeps two directories: what the name shows now and what a power
loss is sure to leave; a power loss picks for each name changed since the last
directory sync one of the two states, and a file never synced is torn.
`ManifestLog` keeps the file the name shows and the earlier ones it may fall
back to. In these two a short write is not a state of its own: the code loops until all
bytes are written, and nobody reads a temporary file. The manifests of calendars and corporate actions are appended to in place and the index below is written
once, so there lines and files that are written in part are states.

**`CalendarStore`** is `CalendarSnapshotStore.write`: lock, read, link, unlink,
verify, and the three stages of an in-place append (part of a line, the record
without its newline, all of it). The manifest without its last newline still
reads as a record, but the next append runs into it (`tail = "bad"`). Readers
are predicates of the state because they take no lock and change nothing.
**`CorporateActionStore`** differs where its code does: the bundle is linked without a
lock, the record is appended under one by a later call, a bundle that is there is
taken as published, and the append is one write that may be short.

Their callers make a bounded number of calls and suffer a bounded number of mishaps; those two bounds, and a process that is
in no call, are in **`Callers`**.

**`BundlePublication`** is the directory publication of five exporters in three
variants (portfolio, backtest, reports) that differ in what they sync and clean up.
**`FilePublication`** is the publication of one file: the trust manifest by link and
unlink, the index of superseded runs by rename. The trust file is written until all of it is (`gate_e/trust.py:774`). The index is
written by one call whose count is ignored (`backtest/index.py:120`): after `WriteShort` the hidden file is synced and renamed like any other, and only the
check that follows finds it torn. `cut` records that this has happened. An index lists the same runs whoever publishes it;
callers that give them in different orders are left out. A failed unlink in the code's `finally` leaves what a crash there leaves.

**`Ingestion`** is `run_ingestion` over `ContentStore` and `BatchLog`, whose
actions it uses by `INSTANCE`. Fetching and validating the universe is one choice
of contents that may fail as a whole, before anything is written. What is in that
choice are two modules of their own: **`Fetch`** is the client, call by call, with the
groups, their fallback and the log of attempts; **`Acceptance`** is what is made of one frame (units, slicing,
refusals), as operators on a sequence of rows. **`Dividends`** is what is made of the tables of
dividends: totals turned into differences, matched with details, cut to a coverage.

### Gate E

**`GateECandidate`** is one candidate's run in seven stages: trust roots, wheels,
environment, inputs, the run, its reversal, audit and evidence. An object is
content and identity. Identity is what the guards of the code compare, so that an object that was replaced and restored
differs; content is what hashes compare. Of the packages of an environment evidence records names and versions only, `Version` of the content: contents
0 and 1 are different code of one version, and a later audit, whose guards are new, does not tell them apart. Every step may be preceded by a replacement, a
fault or a crash. An artifact remembers what made it, which no code reads, and
which evidence is judged by. **`GateE`** puts a review, a trust blob, its commit, an approving commit
and replay B around two candidates. A run that died may be started again as long as it has left no workspace; temporary roots
have random names, so what is left of an earlier one is nobody's. The history is a line of commits. People write and commit any of the
files in any order. The release's configuration, lock and inputs are one object, because `gate_e/config.py` pins all
three; the staged configuration copy and files of artifact and evidence are not replaced,
installation is one step, and a workspace is never deleted.

### `MCParts`

Ten of these modules are small and share nothing. `MCParts` gives each its
own variables; a behaviour picks one part and leaves the others in their
initial states, so that one run checks all of them. `Dividends` and `Acceptance` have no steps: each initial state is
one table, and the property says something of every table. `MCManifestLog` does the same with `ManifestLog` and `Ingestion`, the two levels at which the
data manifest is written.

## Runs

| run | module, cfg | instance | what it shows |
|---|---|---|---|
| `ledger` | `MCLedgerClient`, `ledger.cfg` | 2 symbols, dates 1-3, five postings (a repeated lot, an odd size, an event id in the payment namespace), three registrations of two dividends; 11,610 states | `LedgerInv`: the ledger always replays. `ReplayOnlyCatchesOutOfOrder`: the replay rejects only requests dated before something recorded. `CashConserved`. `ClosedDaysStand`. |
| `coordinator` | `MCCoordinator`, `coordinator.cfg` | a stock and an ETF, sessions 2, 3, 5 with a gap at 4, two bars per symbol or none, five sets of dividends, two attempts; 14,603 states | `OnlyInputsAbort`, `EntitlementIsRecordDateHolding`, `FinishedRunsVerify`, `RunEnds` |
| `snapshot_store` | `MCSnapshotStore`, `snapshot_store.cfg` | two writers of one content, one of another, a reader; one call each, two mishaps; 2.4 million states up to symmetry | `OneNameAfterSuccess`, `FailureFindsItPublished`, `ImplementsContentStore` |
| `manifest` | `MCManifestLog`, `manifest.cfg` | three writers with overlapping and contradicting batches, one of them calling twice, a reader, two mishaps; or two ingestion runs over two symbols, two starts each, two mishaps; 117,510 states | `ImplementsBatchLog`, `CallsReturn`; `RecordsHaveSnapshots`, `UniverseIsWhole`, `FirstRecordStands` |
| `parts` | `MCParts`, `parts.cfg` | ten parts, one at a time, listed below; 572,130 states | see below |
| `calendar_atomic` | `MCCalendarStore`, `calendar_atomic.cfg` | three writers of two calendars, two calls each, two mishaps | violated: see Findings |
| `rolling` | `MCRollingClient`, `rolling.cfg` | a buy and a dividend before the promotion, three postings (one reuses a lot id), five sells (part of a lot, across lots, no board lot, too early), dates 1-3; 15,130 states | `RollingReplayOnlyCatchesMisuse`, `OldestLotsGoFirst`, `SiblingSchemasAgree`, `RollingDaysStand` |
| `research_loop` | `MCResearchLoop`, `research_loop.cfg` | two ETFs, sessions 2 to 5 and a buffer at 7, two bars or none, two dividends, three outputs of the strategy and one of the benchmark; 10,571 states | `LayersNeverObject`, `AttemptsGoAsFarAsTheyCan`, `FlatTargetsEndFlat`, `EntitlementFollowsRecordDate`, `PathCompletes` |
| `research_loop_benchmark` | `MCResearchLoop`, `research_loop_benchmark.cfg` | the same with ten times the cash | violated: see Findings |
| `gate_e` | `GateE`, `gate_e.cfg` | both candidates, two mishaps, four commits; three contents of two versions; 1,996,773 states | `EvidenceIsOfWhatRan`, `VerifiedReplayIsApproved` |
| `index_atomic` | `FilePublication`, `index_atomic.cfg` | two publishers, two calls each, two mishaps | violated: see Findings |
| `backtest_margin` | `MCBacktest`, `backtest_margin.cfg` | as the backtests of `parts` | violated: see Findings |

The parts of `parts`:

| part | instance | property |
|---|---|---|
| calendars | as in `calendar_atomic` | `RecordedCalendarsLoad`: what the manifest shows loads, once |
| corporate actions | two writers of one bundle, then a longer coverage of it and another bundle; short writes, crashes, power losses | `RecordedActionsLoad` |
| bundles | three publishers of one bundle of two files, for each of three publishing functions | `BundlesShownWhole`, `FailuresAreContained`, `BundlesAreContentStore` |
| files | two publishers of a trust manifest (one content or two) or of the index | `FilesAreContentStore` |
| fetches | every request of up to four instruments, two of each kind, every call succeeding, empty or failing | `BatchesAreConsistent` |
| signals | up to five sessions of one ETF, four of two, closes 2 or 3 or none, all six signals | `LatestSignalStands` |
| plans | two symbols and a stranger, weights 0, 50, 65 around limits 60, 95 and 10, three sessions | `PlansFollowDecisions` |
| dividends | fund tables of up to three totals and two details within and beyond ten days of each other; stock tables of up to two rows | `DividendsAddUp` |
| frames | up to three rows, in any order, on and off three trading days, malformed, empty, and with volumes that overflow in one unit only | `AcceptedBarsAgree` |
| backtests | five frames of bars around a calendar with a gap (a bar on a day that is no session, sessions without bars), four bars, four sets of dividends, four initial balances | `OrdersAreDecidedOnTheNextSession`, `LedgersFollowFromTheRecords` |

### Bounds

Bounds are constants named in the modules. `MaxMishaps = 2` (`MaxSetbacks` of ingestion) allows a crash
followed by a failure of its recovery, or a power loss after an interrupted call; in Gate E
it allows a replacement and the restoration of what was replaced.
`MaxCalls`/`Calls`/`MaxTries` let a call be made again after one that failed; in
`snapshot_store` each writer makes one call, and the two writers of one content
play the parts of a call and its retry (a crashed call keeps its temporary name
there for the next writer to find). Three dates let a call be
about a day before, on and after a close. Three sessions are a day to fill, a
day to reject and a day to pay; with `MaxAttempts = 2` a target can expire
before the last. The prices of the coordinator's instance make the cash short
by a few fen, a buy limit-up, a lot too dear, a minimum and a rated
commission apply, a stock trade before its first fee rate, and a dividend eat a
carried mark.

Four sessions of the research loop are a session to plan, one to fill, one to
miss a sell (suspended or limit-down) and one to retry it, which is also the ex-date. The bars open at or
beyond both limits of each other's closes, so that buys meet limit-up and sells
limit-down; one dividend has its record date the session before the ex-date,
the other one session earlier, so that shares can be sold in between; its
payable date is no session. The cash is a few board lots, so that a buy is cut to size.

The frames of the backtest miss a session between a signal and its target, at the end, and at the
start; its prices reach both limits and make one lot too dear, or the third. One lot at six yuan, or three at two, cost 605.01 yuan with their fees; the initial
balances are short of that, just that, and twice just that only once rounded (605.006 and 605.005). `MaxCommits = 4`
is a first commit, an anchor, an approval and one more that comes between or after them.
`MaxVolume = 250` is between a volume in shares and the same in lots.
`Horizon = 6` (sessions and instruments together) is as long as the longest signal needs to decide twice.

Symmetry is used once: the two snapshot writers of the same content are
exchangeable, and every property quantifies over all writers.
`CHECK_DEADLOCK FALSE` is set where calls are bounded or the run ends. In
`ledger` a call is always possible and deadlock is checked.

### Fairness

`Coordinator` and `ResearchLoop` have weak fairness of their next step: one thread runs the loop.
`ManifestLog` has weak fairness of the steps of a process that has made a call,
and none of calls, faults, crashes or power losses. For taking the lock weak
fairness is enough in the instance because calls are bounded; for unbounded
callers the code relies on `flock` being fair, which POSIX does not promise.
The other specifications have no fairness and only safety properties.

## Properties worth a comment

* `ReplayOnlyCatchesOutOfOrder` says the two implementations of the ledger (posting
  and replay) agree: an in-order caller never sees a reconciliation error, so a
  reconciliation error always means a caller's mistake. It is a theorem.
* `ClosedDaysStand` needs the replay of *past* snapshots. The mutant that lets a
  snapshot only add up breaks it with a buy dated on a closed day.
* `FinishedRunsVerify` compares two implementations, too: whatever a legal run went through, the
  verifier's own reading of attempts, allocation, cash, marks and dividends accepts it. One exception is in the
  code and in the property (`CashLevelRepeats`): the verifier orders the cash events of a session by their
  balances (`portfolio/verify.py:1880`) and refuses a session in which two start from the same one. That takes a payment that
  a fill spends to the fen, and a third instrument to go on from there; it does not happen in the instance, which has two.
* `OneNameAfterSuccess` is what lets readers insist on a single link although
  other processes remove temporary names concurrently.
* `FailureFindsItPublished`: a write may fail without any system call failing,
  because another writer's cleanup and this one's recovery raced for a name;
  it then finds its content published, so a retry succeeds.
* `ImplementsBatchLog` counts only records reported as *appended*. A retry
  after a failed directory sync is answered *duplicate* without a sync, and
  that answer promises no durability.
* `RecordedActionsLoad` says a record may outlive its bundle in one case only: a power loss after a second
  publisher had taken a bundle as published before the one that linked it had synced the directory (`hasty`).
* `BundlesShownWhole` excepts the report publishers, which sync no directory, after a power loss.
* `FilesAreContentStore` holds of the trust file without exception, and of the index until one that is not all there is
  renamed over it (`cut`): that rename may take away what a racing call has reported. It says nothing of availability: a crash between link and unlink leaves a
  second link, after which readers refuse the trust file and retries find a conflict until somebody removes it.
* `AcceptedBarsAgree` has three parts: the accepted bars cover exactly the trading days of the interval asked
  for; a frame in lots and the same frame in shares give the same bars; and bars fetched up to two different ends agree
  on what both cover.
* `DividendsAddUp`: the events made of a table add up to the last total, and those of an interval cut
  anywhere are together those of the whole.
* `LatestSignalStands` holds although later closes are in the signal's input: it also excludes look-ahead.
* `RollingReplayOnlyCatchesMisuse` is weaker than its counterpart of the portfolio
  ledger because `post_rolling_buy` posts on an empty ledger and sees neither
  taken ids nor dates: the replay has to.
* `SiblingSchemasAgree` compares two separately written replays: a promotion is
  not verified by the code, and would always have been accepted.
* `LayersNeverObject` composes everything: every precondition of `rebalance_to_plan`,
  the ledger's refusals, the result check and the planner's limits are met by the order of
  the loop's calls alone. In particular posting dividends before the open, in the same
  session, would be refused as state later than the plan.
* `AttemptsGoAsFarAsTheyCan` shows on the way that the partial sell of
  `_execute` (`partial_sellable_position`) is never taken by this loop: all that was held at the
  plan's close is sellable at the next open.
* `EntitlementFollowsRecordDate` is exact for ex-dates on the session after the record
  date. For a later ex-date the code counts what is left on the ex-date, so shares sold in between
  lose their dividend; the property states that as the upper bound it is.
* `OrdersAreDecidedOnTheNextSession` says how far rounding can go: an order that ends as *margin* is a buy, on its session, that
  costs the rounded cash of that day to the fen. No other allowed order goes unexecuted.
* `FailuresAreContained` leaves a corner out: when `fstat` fails between the creation of a file and its registration
  (`portfolio/export.py:1013-1019`), that one mishap is enough to leave the file; in the model a fault there finds the file registered.
* `EvidenceIsOfWhatRan` holds for evidence of failed runs as well. The mutant that compares bytes instead of
  identities breaks it with a runtime replaced before the run and restored after it.

## Findings

`calendar_atomic`: the week 3 design (`src/docs/superpowers/specs/2026-07-25-week3-a-share-rules-design.md`,
line 330, with the files of lines 82-88) requires that every new file is published
atomically. `_append_manifest` (`data/calendar_snapshot.py:412`) appends to
`data/calendars/manifest.jsonl` in place. The counterexample is a crash inside
the append: a part of a line stays, and every later read and write of the calendar
store is refused until somebody repairs the file. `parts` shows that the failure is safe: what can be
read still loads.

`research_loop_benchmark`: `src/docs/research_loop_v1.md:28` says that the static benchmark
has one initial target and is never actively rebalanced afterwards. The loop makes the plan pending again
whenever a target was missed (`research/loop.py:1256`, and `:1040` for one symbol), and a pending plan is
executed as a whole. The counterexample fills one symbol while the other is suspended at the
initial open; at the next open, after a price move, the filled one is re-sized and traded
again. With both filled at once, as in the run the document reports, it does not
happen. Line 22 of the same document (a rebalance only when the effective target
changes) is the same question for the strategy.

`index_atomic`: the plan of the corporate actions (`src/docs/superpowers/plans/2026-07-25-corporate-actions-correctness.md:532`)
requires "atomic index publishing", by "temporary file, fsync and atomic replace" (line 543). The code does the three things, to whatever one
`os.write` has written (`backtest/index.py:120`). The counterexample is a short write: its file gets the name, the check at line 139 raises, and the partial index
stays, a conflict to every later call.

`backtest_margin`: the week 3 design (line 252) lists the statuses an order may end in, and `src/docs/a_share_execution_rules.md`
says that a buy is refused when cash is short (line 67) and that every refusal keeps a reason (line 83). The rules are asked about rounded cash
(`backtest/execution.py:274`) and backtrader takes the cost from the float (317). In the counterexample an order costs the
rounded cash to the fen, the rules allow it, and it ends as *margin*, without a reason (`backtest/strategies.py:77-112`). A fraction of a fen in `initial_cash` is one
way to get there; the noise of the floats is another, rarer one: 605.01 - 600.0 - 5.01 is less than zero in Python.

## Proofs

What the proofs about trading have in common, sums over sets and the operators of `MarketRules`, is in `RuleProofs`.

`LedgerProofs` proves, for every calendar, price, posting, registration and date, of the portfolio ledger:

* `LedgerAlwaysReplays`: `Spec => []LedgerInv`;
* `InOrderCallsReplay`: `Spec => []ReplayOnlyCatchesOutOfOrder`;
* `CashIsConserved`: `Spec => []CashConserved`;
* `ClosedDaysNeverChange`: `Spec => ClosedDaysStand`;

and of the rolling ledger, with its promotion at any moment:

* `RollingLedgerAlwaysReplays`: `RollingSpec => []RollingInv`;
* `RollingCallsReplay`: `RollingSpec => []RollingReplayOnlyCatchesMisuse`;
* `OldestAlwaysGoFirst`: `RollingSpec => []OldestLotsGoFirst`;
* `SiblingSchemasAlwaysAgree`: `RollingSpec => []SiblingSchemasAgree`;
* `RollingDaysNeverChange`: `RollingSpec => RollingDaysStand`;

and of the portfolio run that makes the calls (`Coordinator`):

* `RunsAlwaysReplay`: `RunSpec => []RunInv`;
* `OnlyInputsEverAbort`: `RunSpec => []OnlyInputsAbort`;
* `EntitlementsFollowRecordDate`: `RunSpec => []EntitlementIsRecordDateHolding`.

The assumptions are those of the modules: postings, registrations and dates
have their types, `PayOrder` lists every receivable id once, the calendar is finite, fees are
naturals. Nothing is assumed about the order, dates or sizes of a client's calls. Of a run, what
`run_portfolio_backtest` validates before its loop: prices are positive, the universe names no symbol twice, a session follows the
last day, and a dividend's dates come in the order record, ex, payable, its ex-date a session if it is within the run.

The argument. `LedgerInv` is inductive *because* every operation ends in a replay:
a step either leaves the ledger alone or hands back one for which `Verified`
holds. What remains is the type of the updated ledger, which the `...Fields` lemmas
give operation by operation; the payment loop, a recursive function, is handled
by a lemma on its steps (`PaidUpToDef`) and a least counterexample over their
number (`NatMin`). The second theorem is the harder half: assuming the ledger replays
and the request passed its checks and is in order, the *updated* ledger
replays, conjunct by conjunct (`...Verified` lemmas). For payments `PaidReady`
carries through the loop that what is still due stays due and ids stay fresh.
`ClosedDaysNeverChange` follows from the first and `SnapshotPinsDay`: two ledgers that both
replay and agree on the snapshot of a day agree on that day's positions and receivables.

Sums over sets are folds, about which nothing can be proved by induction here. `SumFunction` reads a sum as a number of
points: those under the graph of the function, one column for each element, counted by the library's theorems on
cardinality. From there sums of unions, of differences, of renamed sets and of equal functions follow, with a smallest counterexample
in place of an induction. `CashIsConserved` is then static, a fact about any ledger that replays: cash events chain from the initial
cash to the final one, the fills among them are the lots, the payments are the paid receivables.

The rolling ledger adds to the invariant that a portfolio ledger holds its lots in the order of their fills
(`LotsInBuyOrder`): a promoted ledger is matched fill by fill, and an out-of-order one would not be. TLC checks
`RollingInv` on the 15,130 states of `rolling`. The size left in a lot is the size bought less a sum over the sells that
touched it, so the replay of a sell comes down to sums again; what was held on a closed day is the same sum over fewer sells, which a later sell
leaves alone (`Past...` lemmas). `OldestFirst`, `PromotedReplays` and `UnsoldReplays` are static lemmas, too.

The run is proved against the ledger's operations, not against their replay: for each call the loop makes, the lemmas refute every refusal
of the operation, and `...Answered` then says that it answers *ok*. What that takes is `RunInv`: the loop is between two consecutive sessions
(`Where`); every closed day is before the session, and every lot was bought on a closed day or today (`Recorded`); ids are those of filled targets
and of paid receivables (`Identified`); who was entitled holds the lots of the record date (`Entitled`); an unpaid receivable is not due before the session,
and after the payments not on it (`Owed`); and what is queued is not yet entitled (`Queued`). TLC checks it on the 14,603 states
of `coordinator`. The size loop needs a maximum (`CandidateIs`): where it stops, the next larger size was refused for cash alone, which is the evidence
`EntryAttempt` asks for (`FillFields`). That the payments leave nothing due is `PaysAll`. The record date is static: a closed day's snapshot
pins the lots of that day, and no lot is bought between two closed days (`RecordDateHolding`).

`PartsProofs` proves, first, `PlansAlwaysFollowDecisions`: `Spec => []PlansFollowDecisions` for all
limits, symbols, weights and sessions. The invariant also says that the history is a sequence of outputs and that
whoever was decided about was decided about last at some point (`LatestExists`): that a finite
set of numbers has a maximum is an induction over data, so it is carried along, from one decision to the next.
A refused call changes nothing, a call without a previous state starts the history again (`RestartStep`), and any other
appends one decision (`ContinueStep`). Limits follow from the check the plan passed (`AcceptedWithinLimits`).

Its second theorem is `FilesAreKept`: `FileSpec => FilesAreContentStore`, a refinement, for any number of publishers,
contents, calls and mishaps. The invariant relates the name, the directory on disk and where each publisher is:
until a short one is renamed (`cut`, after which the property asks nothing of the index), what has the name is whole, because a publisher only gets to `publish` with a synced hidden file; the disk shows what the
name shows; and whoever is about to answer *written* has its content on disk. Each action then maps to
`Store`, `Acknowledge`, `Lose` or a stutter.

Three more theorems are about the directories that exporters publish: `BundlesAlwaysWhole` (`BundleSpec => []BundlesShownWhole`),
`FailuresStayContained` (`[]FailuresAreContained`) and `BundlesAreKept` (a refinement of `ContentStore`), for any publishers, files and mishaps,
with and without syncs. The hypotheses (`BundleParameters`) are what a caller of the module gives: natural bounds, and exporters that are not
`None`. The holder of the lock is the only one to change the name, so who found it free finds it
free when it renames, and what it renames is complete and, where the code syncs, synced (`BundlePosition`). Failures and hidden directories that stay are
charged to mishaps: one to leave a directory, another to keep the cleanup from emptying it (`Contained`).

`CalendarsAlwaysLoad`: `CalendarSpec => []RecordedCalendarsLoad`, what the calendar manifest shows to a reader without the lock loads, for any
writers, calendars, calls and mishaps. The invariant says what the lock is good for (`CalendarPosition`): from the reading of the manifest to
the middle of its own line the calendar of the holder is not recorded, and a holder that appends has seen the file under its one name, which no
other step gives a second one. A write that found a name left behind cannot get that far.

`ActionsAlwaysLoad`: `ActionSpec => []RecordedActionsLoad`, the same question for corporate actions, where bundles are linked without a lock and the append is
one write that may be short. A record is appended `Behind` a bundle whose name is on disk or which some call took as published too early; no step of anybody takes
that away (`NamesStay`). A reported record was said by the manifest when it was synced, and everything a short write, a crash or a power loss
does to the manifest either keeps saying it or leaves a tail that refuses every reader (`Reported`; `AppendedFacts` for a write into an
open tail, which costs the last line). As long as nothing went wrong, any name besides a bundle's own is that of a call about to remove it (`Tidy`).

`BatchesStayConsistent`: `FetchSpec => []BatchesAreConsistent`, for any request and any pattern of failing calls. A failure drops the results of its
group, so those there are come from one provider, from calls after every failure of the group (`Sound`, `GroupGoesOn`); the results of groups that are done stay sound
because no later call is for an instrument of their kind (`GroupsDone`). The instrument called next is the first one without a result, and that there is a first one is again a
least element (`FirstMissing`). The hypothesis is that instruments are ETFs or stocks, which `fetch_batch` checks.

`BacktestProofs` proves, of the single-symbol backtest, for every calendar, frame of bars, schedule of decisions and of dividends:

* `BooksAgree`: `BacktestSpec => []BookInv`;
* `OrdersWellDecided`: `BacktestSpec => []OrdersAreDecidedOnTheNextSession`;
* `LedgersFollow`: `BacktestSpec => []LedgersFollowFromTheRecords`.

`BookInv` relates four records the code keeps apart: the cash and the receivables against executions and dividends, the lots against the position
and the days they were bought, the daily rows against all of these as of their date, and the one live order against the calendar. It is what makes the two checks the code
raises on (lots that disagree with the position, a row that does not add up) unreachable. That an allowed order costs at most the rounded cash, and one
that is not executed at least the real one, leaves the fen between them. The properties are then
static. The assumptions are those of `Backtest`, `BacktestAssumption` and the types of its frame.

`LoopProofs` proves, of the research loop, for every calendar, market, schedule of dividends, strategy, capital and table of fees:

* `AttemptsGoFar`: `Spec => []AttemptsGoAsFarAsTheyCan`;
* `FlatStaysFlat`: `Spec => []FlatTargetsEndFlat`;
* `RecordDatesCount`: `Spec => []EntitlementFollowsRecordDate`.

One invariant, `LoopInv`, carries all three; TLC checks it on the 10,571 states of `research_loop`. What it adds to them:

* the positions of the ledger are whole board lots, of lots dated within the path (`LoopLedger`, `LotsDated`). A rebalance
  trades at the session after its plan, so whatever was held at the plan's close can be sold: a sell is never cut (`SellGoesWhole`);
* a snapshot is on record for every closed session, and what it says of a symbol is no less than what is left of the lots bought until then (`DaysOK`,
  `ClosedBefore` in the morning, `ClosedThrough` in the evening). Lots only shrink and new ones are dated later, so what is left of the lots of a record date,
  however much was sold since, is at most what the snapshot of that day valued (`HeldOnRecordDate`, `EntitledStands`);
* while a rebalance is under way, what it still has to do is whole board lots, the sells first, each of a symbol of its own and of no more than is held and may be sold
  (`TodoOK`), and the attempts made went as far as they could (`AttemptsFar`). A session that ends without the retry flag had every target
  met, so nothing is left of a target of zero, and no plan drops the flag (`Flat`).

A failed path keeps only what it says of entitlement. The size loop of a buy is a maximum again
(`BuyGoesFar`). The assumptions are those of `ResearchLoop`, `Rebalance` and the ledger: symbols and dividends in a strict order, bars with positive prices
(`data/quality.py` refuses others), dates and amounts that are natural numbers.

`SnapshotProofs` proves the three properties of the snapshot run, for any processes, contents, calls and mishaps: `SnapshotsAreKept`
(the refinement of `ContentStore`), `SuccessLeavesOneName` and `FailuresFindItThere`. The assumptions: no process both writes and reads,
every process has a content, and bounds are natural numbers. The invariant follows the code's own argument. An inode is named for the temporary file it
began as, so that a temporary name shows itself and a snapshot has one link exactly if that name is gone
(`OneNameIsOneLink`, the only place where cardinalities are needed). No call removes a target, only a power loss before the sync; it shows a whole, synced file. Until it is
linked, a writer's file is shown by its own name only (`Private`), so that no recovery by another process can take it: a recovery unlinks what
shows the inode of a target. Temporary names are never used twice (`Unused`), so a crashed call's remains are nobody's.

`ManifestProofs` proves `ManifestIsBatchLog`: `Spec => ImplementsBatchLog`, for any readers, writers, batches and calls. The
assumption is that the batches of two writers have the same records or none in common: a record carries
the time of its fetch. The name may fall back, at a power loss, to any file it showed since the directory was last synced; each of
those is `Sound`: synced, a part of what is shown now, with all that was reported, and with a record of every id of any batch it has a
record of. That makes what is lost and what is left whole batches (`PowerLossMaps`). `Position` says that what a writer read is what the name shows
until the writer replaces it. The lines a writer adds, a recursive function, are handled by its steps and a least
counterexample over their number.

The rest of `ManifestProofs` is about the runs that write the manifest: `RecordsAlwaysHaveSnapshots`, `UniverseIsAlwaysWhole` and `FirstRecordsStand`, the three properties
of `Ingestion`, for any runs, universe, contents and bounds. The assumption is a configuration of at least one symbol
(`universe.py:70` asks for one to a hundred). The invariant adds to the properties what links them: a run under way has
fetched the whole universe and the store has answered for the snapshots of the symbols it has passed (`Underway`). So a batch that
reaches the manifest has only acknowledged ids (`OwnBatch`), and the other steps leave the manifest alone (`QuietStep`). A power loss is the case that
needs thought (`LossKeeps`): what it leaves is in the form of the batches that were first, its ids those of other, whole
batches; because an id determines the content, the fetch a surviving record came from, with the surviving contents of the other symbols, is
the batch that makes it whole.

`GateEProofs` proves `GateEIsTyped`, `EvidenceAlwaysTrue` and `ReplaysAreApproved`, for any number of mishaps, commits
and objects. The one assumption is `AbsentAssumption`: an absent workspace is none of the workspaces. A replaced object may come
back with the bytes it had but not as the object it was (`ids` only grow), which is what the guards of a candidate compare: the
guard it took first and the one it verifies last enclose everything between, so `Truth` says of each artifact which wheel, which runtime
and which inputs it came from, and `Working` says of a candidate under way what the steps it has taken have established. The second
theorem follows the replay stage by stage (`Replaying`): each stage adds one link of the chain from the anchor over the approval to candidate A,
and none of the steps of other people, who may commit or replace meanwhile, can take a link away because what was read is kept by the run.

What stays with TLC: the verifier of a run (`FinishedRunsVerify`, which folds a chain over the events); of the research loop `LayersNeverObject`; the liveness properties `RunEnds`, `CallsReturn` and `PathCompletes` (liveness is outside the prover's reach); `DividendsAddUp` and `AcceptedBarsAgree` (what recursive definitions make of
a table of any length is an induction over data); `LatestSignalStands` (the signals share constants and names with the planner and are instantiated by the run only); and the mapping of `Decimal` rounding.

`LayersNeverObject` is true of the instance and not for every value of the constants: the ledger refuses a sell whose fees exceed its proceeds
and the cash together, and with a minimum commission of five yuan a path that starts with seven and buys two lots of
one yuan each gets there (`InitialCash = 700`, bars of 10 in `research_loop.cfg`). Nothing in the code keeps a fee schedule from that, so a theorem would rest on an
assumption the code does not justify.

## Plan

Done: accounts (rules, ledger, rolling ledger) and their clients; the simulations (coordinator with verifier, research loop with
planner, rebalance and signals, backtest); the stores and publications of data and results; ingestion with its client
and acceptance; Gate E.

Left, in order of value:

1. A bound on fees against proceeds under which `LayersNeverObject` of the research loop holds in general.
2. The coordinator with three instruments, for which `CashLevelRepeats` can happen (its state space needs cuts first).
3. The quarantine of a stale manifest lock (`gate_e/inputs.py:716`): a rename without replacement between two directories.
4. An index published by callers that order its runs differently (`backtest/index.py:113`).

## Not modelled

Network access; parsing of cells, HTML and column aliases; metrics, reports and rendering; argument and type checks of
Python values; symlink and file-type checks of the stores; hash collisions; reading configuration files; the
frozen tables of hashes of Gate E; the quarantine of a stale lock; packaging and release checks (`release_*.py`), which hash files in one process;
the command lines; the event engine of the backtest, an external library.
`PROJECT.json` lists each under its component.
