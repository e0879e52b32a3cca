# A TLA+ verification of NEXOR X

NEXOR X is a Python trading supervisor: one asyncio process that reads market
data, opens and manages PAPER positions in SQLite, may place TESTNET orders, and
surrounds every new entry with guards that remember degradation. This directory
models the parts whose state and interleavings matter, checks them with TLC and
proves the central invariants with TLAPS.

Paths below are relative to `src/src/nexor_x/` unless they start with `docs/`.

## 1. The system and its parts

| Part | State | Operations | What is hard |
|---|---|---|---|
| Performance degradation guard (`operations/performance_degradation.py`) | none | `evaluate`: metrics to NORMAL / CAUTION / BLOCKED | shadows may lift some hard reasons and not others |
| Recovery hysteresis (`operations/recovery_hysteresis.py`) | `_state`, JSON file | `evaluate` (every request, every status query) | polled at any rate; the releasing reading is seen once |
| Post-recovery probation (`operations/post_recovery_probation.py`) and exposure ramp | `_state`, JSON file | `start`, `evaluate`, `record_successful_entry` | checks and bookkeeping are separated by the entry itself |
| Entry reservation (`operations/entry_reservation.py`) | `_state`, JSON file | `reserve`, `confirm`, `release`, expiry | the TTL runs while the holder is suspended; holders get lost |
| Kernel (`kernel.py`) | wiring | `paper_open`, `testnet_order_create`, status handlers | composes the guards; HTTP calls in the middle |
| Entry trace, telemetry, summary, acceptance audit (`entry_decision_trace.py`, `filter_*`, `operations/operational_*`) | `FilterRigidityMonitor._state`, JSON file | `unified_entry_decision_trace` | the degradation is read before a suspension, block and reservation after it; saves that fail; components that take the names of handlers |
| PAPER execution, accounting, portfolio (`execution`, `accounting`, `portfolio`) | `portfolio_accounts`, `portfolio_positions` | open, partial close, close | one result spread over legs, fees and columns |
| Position manager (`position/service.py`) | stop, extremes, `partial_taken` | `evaluate`, `evaluate_all` | several commits per evaluation |
| Market intelligence, evidence engine, quant brain (`market`, `evidence/engine.py`, `quant`) | none | snapshot to regime, evidences and direction | thresholds that meet; which context a result belongs to |
| Scanner (`scanner`) | lock, `_latest`, `_latest_shallow`, `scanner_runs` | `run_once` | failures half way; callers who find it busy |
| Causal shadow (`shadow`) | `causal_shadow_positions`, `quant_observations` | `run_once` | a result is to count once; symbols leave the list |
| Calibration, contextual backtest, pre-trade gate (`laboratory`, `pretrade_backtest`, `risk/gate.py`) | read observations | `trading_readiness` | verdicts put together from two looks at the market |
| AutoPaper, AutoManage (`autopaper`, `automanage`) | timers, history rows | scheduled cycles | candidates and portfolio age between the steps |
| TESTNET orders (`orders`, `exchange/binance_live.py`) | `order_idempotency` | `create`, cancel | lost and late answers, retries, a crash before the answer |
| Recovery guard (`recovery`) | `recovery_reports` | `reconcile`, the lock of `testnet_order_create` | three reads at three times; the newest report decides |
| Evidence, supervisor, integration, validation, campaign (`evidence/collector.py`, `validation_cycle`, ...) | one table of reports each | collect, evaluate, `status` | queries that fail one by one; verdicts that others read |
| Final campaign and the tools around it (`validation/final_*`, `src/tools`) | `_state`, JSON files under `reports/` | tick, watchdog, integrity audit, dossier | several programs, torn and outdated files |
| Market data (`infrastructure/binance.py`) | cache of snapshots, one lock, time of the last failure | `market_snapshot`, `market_universe`, `stop` | slow, failed and cancelled requests; answers that arrive out of order |
| Event bus, scheduler, registry, watchdog (`core`) | queue, tasks | publish, run, stop | bounded queue, slow handlers, what is still queued at the stop |
| Strategies, allocation, certification, laboratory statistics | report tables | scores on request | floating-point numbers; nothing else reads them |
| API, dashboard, notifications, AI, configuration, update engine | none, or versions | routing, texts | I/O |

Everything runs on one event loop. A guard never awaits, and the database calls
(`infrastructure/database.py`) hold a lock that is never contended across a
suspension, so a request is one atomic step from one HTTP call (market data, the
exchange) to the next. Interleavings come from these HTTP calls, from the
scheduled jobs and from API requests; crashes fall between two saved files or
two commits.

The properties that make each modelled part correct are listed with the runs in
section 3. Hazards, each at its line and with the properties aimed at it, are in
`PROJECT.json`.

## 2. The modules

`Clock` - the wall clock, stamps and elapsed time, shared by the guards.

`PerformanceDegradation` - `evaluate` as a pure operator. A metric is the band it
falls in between the policy's thresholds, which is all the code compares.
`Reports` is the set of every report it can produce.

`RecoveryHysteresis` - `recovery` is `_state`; `EvaluateHysteresis(d)` is one
whole call of `evaluate()`, its save included. The pure operators
(`AfterReading`, `Releases`, `HysteresisState`, `EffectiveDegradation`) are
applied to any state, because the kernel evaluates the controller twice in one
step.

`RecoveryReadings` - the same controller beside a history of the readings, to
say what a release means. The history does not influence the controller.

`EntryTrace` - extends `RecoveryReadings` with the requests for the trace of the
entry decision: `Ask` reads the degradation up to its `publish()`, `Answer` looks at
block and reservation, builds the trace, counts and saves it and answers;
`SaveFails` raises instead. `asking` is where each request is and what it has read,
`counters` and `file` are the telemetry's (`Restart` loads the file, `RestartUnread`
starts from zero). `witness` (the gates closed throughout a request, and at some
moment of it) and `answered` are history.

`KernelHandlers` - the diagnosis handlers as the names they use, in their order
(`Body`), and how `self.x` is looked up: `running` holds the calls under way, the
innermost last, `Raise` is a name that is not what it is taken for. It shows that the
acceptance audit and the readiness summary never get past lines 1081 and 1096 of
`kernel.py`, which is why neither is modelled any further.

`PostRecoveryProbation`, `EntryReservation` - the other two guards, as state plus
operators; exposure is counted in quarters (`RampExposure`).

`EntryAdmission` - the kernel's composition. A new entry is `BeginEntry` (reserve,
evaluate the chain twice as `require_entry_admission` does, be suspended in the
HTTP call) and then one of `EntryFilled`, `EntryReturnedEmpty` (a REJECTED fill or
a duplicate answer: a normal return that created nothing) or `EntryFailed` (an
exception). `QueryAdmission` and `QueryHysteresis` are the status handlers, which
change state too. `Crash*` lose the requests in flight and keep what each
controller had saved. `fills` and `disturbed` are history.

`PaperLedger` - the account and the positions. `Open`, `CloseManually`, and one
action per commit of the position manager (`StartEvaluation`, `ProtectiveStop`,
`BreakEven`, `TakePartial`, `FlagPartial`, `Trail`); `Crash` between two commits.
Money is counted in units of the fee rate so that all amounts are integers. The
gate's count of open positions and the insert are one action, `Open`, because nothing
suspends between them; no property here is about that count.

`MarketAssessment` - from a snapshot to regime (`Regime`), evidences
(`PriceMomentum`, `MarketRegime`) and direction (`Decision`), in whole numbers.

`ContextVerdict` - what a sequence of results approves: `CalibrationApproves` (the
gate's checks) and `BacktestApproves` (drawdown, recent third, walk forward).

`MarketScanner` - one scan at a time: `BeginScan`, `UniverseFails` or
`SelectShallow`, `AssessmentsEnd`, and the rows a run leaves (`StoreRun`).

`CausalShadow` - extends scanner and assessment with the shadow positions, the
observations they become and the cycle that visits them (`visiting`).

`PaperCycle` - composes the three above: `task` is a scheduled job or a request,
suspended in a scan, a readiness or an entry. AutoPaper is `StartCycle`,
`ReadinessAllows` or `CandidateRefused`, then `EntryOpens`, `EntryRejected` or
`EntryFails`; `StartEntry` is an entry asked for by hand; `AutoManage` and
`CloseByHand` close; `ShadowVisit` is one visit of the shadow; `Crash` ends every
task and keeps the tables and the reservation file. `entered` and `shadowed` are
history: what each entry rested on, and every shadow position ever opened.

`EvidenceLadder` - `closed` are the results, `latest` what the newest report of each
gate allows. `Run` is `collect()` and the judgement of the campaign, `RecordRun` or
`RunFails` the second commit of a validation cycle. The readiness and the
certification, which has thresholds of its own, are operators over the payloads of
`status()`.

`FinalCampaign` - `memory` and `file` of the campaign's controller; `Record` is one
tick, its save included. `FinalEvidence` adds the orchestrator (`pc`), two
completion watchdogs and the files they write: bundle, digest, integrity report
and dossier, each written, torn or left over as the programs may. What the acceptance
audit and the certification say is free (`GatesChange`), and `AuditAnswers` whether the
audit says anything: as the kernel is wired it is FALSE.

`OrderOnce` - what the order registry promises: an intent is on record before the
exchange hears of it, and the exchange gets it at most once.

`TestnetOrders` - `registry` is `order_idempotency`, keyed by the intent (strategy,
signal, request) that `OrderIntent.key()` hashes. `create()` is `Create` up to the
suspension in the POST, then `AnswerArrives`, `CallFails` or `FinalizeFails` (the
request is over, but the row could not be finalised and stays RESERVED; `unfinished`
is the history of these); a duplicate answers from the row and changes nothing, so
it is no action. The exchange is the
environment: a request in `wire` may be accepted before the caller gives up, after
it, or never; orders rest, fill and are cancelled without any row changing.
`ImplementsOrderOnce` is the refinement of `OrderOnce`.

`RecoveryGuard` - extends `TestnetOrders` with the PAPER positions, reconciliations
under way (`recon`: how far each is and what it has read), the newest report and
the lock in front of `Create`. `standing` is history: what has been wrong without
interruption since each reconciliation began.

`MarketDataCache` - `cache`, `universe` and `lastFailure` are the service's; `asking`
is what each task is suspended in: the queue of the lock (`holder`, `waiters`), a
ticker request or a universe request, with the time at which it began.
`market_snapshot()` is `RequestTicker` and `Resume` up to a suspension, then
`TickerArrives` or `TickerFails`; `market_universe()` is `RequestUniverse`, then
`UniverseArrives` or `UniverseFails`. `Cancel` is the cancellation of a suspended
task. `answer` is the last answer given.

`EventBus` - `queue` and `unfinished` are those of the `asyncio.Queue`, `worker` and
`open` where `_run()` is and which handlers of the `current` event are still
running. An event is the number of its admission to the queue. `KernelLifecycle`
adds the scheduled jobs, API requests and `Kernel.stop()`, one action per
suspension: announce, cancel the jobs, close the services, `event_bus.stop()`
(`BusStops`, then `BusStopped` when `join()` returns), close the database. `mark`,
`accepted` and `recorded` are history.

Definitions introduced as "faulty variant" are not used by the specifications:
each is what a plausible mistake in the code would make of the definition that
follows it, and the mutants of `PROJECT.json` substitute it to show that a
property notices.

## 3. The runs

| Run | Question | Bounds |
|---|---|---|
| `entry_trace` | Can any polling fake a recovery? `ChecksAreSpaced`, `ProgressIsEarned`, `ReleaseIsEarned`. Is a trace true of the time it took, and counted before it is given? `TraceIsTruthful`, `AnswersAreCounted` | cooldown 2, two checks, interval 1; 4 ticks hold a block, its release, another block and its release; four kinds of evidence (healthy again, neither healthy nor blocked, two sorts of block); one request at a time, which may begin anywhere, two in a behaviour, one save or load that fails |
| `entry_admission` | What do concurrent entries get through, and do the guards survive a crash? `SerializedWithinTTL`, `NoForeignRelease`, `LatchStopsNewEntries`, `ProbationCapHolds`, `ProbationEntriesAreSpaced`, `ExposureStillCurrent`, `GuardsAreCoherent`, `ImplementsHysteresis`: the composition refines `RecoveryHysteresis`; `ReservationIsNeverStuck` under `FairSpec` | two interchangeable clients, three reservations, probation cap 2, one crash; TTL, cooldown and intervals of one or two ticks; 5 ticks hold a block, a release and a probation |
| `paper_ledger` | Is the account right, and what does a stop cost? `MoneyIsConserved`, `StopNeverLoosens`, `StopOutIsBounded`, `AtMostOnePartial` | four prices on both sides of every trigger of the manager, two positions of either side one after the other, one crash; rates coarse (5%) so that integers stay small |
| `paper_cycle` | What reaches the account, on what evidence? `OnePositionPerSymbol`, `EntryIsEarned`, `HandedRunIsStored`, `ObservationsAreCausal` | two tasks, two symbols, two scans, crashes at any time and any number of times; three snapshots (a rise, a wide rise, a rise from an old cache), which give two contexts; results -1 and 2; two samples approve, so that two shadow positions are one entry's worth of evidence |
| `evidence_ladder` | Is the milestone earned, and reached? `MilestoneIsEarned`, `RiskPauses`, `MilestoneIsReached` | two days, three trades, of which two are enough; every report of every gate with one thing amiss or none; queries that fail alone or all together |
| `final_evidence` | Is a dossier earned? `PassesAreSpaced`, `CompletionIsKept`, `DossierIsEarned` | two passes an interval apart, 3 ticks; the orchestrator's watchdog and an operator's; `AuditAnswers` is TRUE, so that more can happen than in the program as it is wired |
| `recovery_guard` | What may be lost, retried or misread around the exchange? `RowsTellTheTruth`, `ImplementsOrderOnce`, `StandingIssuesAreReported` | an entry and an exit on one symbol, two interchangeable callers, one reconciliation at a time, one crash, any row left unfinished; PAPER flat or long: each of the three kinds of inconsistency appears and disappears |
| `market_data_cache` | What do tasks that share the price service get? `FreshAnswersAreRecent`, `NoNeedlessRequest`, `CacheHardlyRegresses`, `EveryoneIsAnswered` | three tasks, so that two wait for the lock; one symbol; cache TTL and request time 1, stale after 2, cooldown 2; 5 ticks hold a failure, its cooldown and a price that goes stale in it |
| `kernel_stop` | Does `stop()` lose events or hang? `DrainedStop`, `RecordedInOrder`, `StopEnds` | two jobs, one request, a queue of two and six events: full queues, suspended publishers (`stop()` itself too) and late events occur in every phase |

The relations of the policy that matter are kept in the small instances: the TTL
is not longer than the cooldown, the interval shorter than the probation, and the
checks with the intervals between them not longer than the cooldown.

Fairness: in `EntryAdmission` only that time does not stop (`WF` of `TimePasses`);
no client is assumed to finish, no reading to be healthy. In `MarketDataCache`
that a request ends (`WF` of `Reply`: the HTTP client has timeouts) and that the
loop runs the task to which the lock has passed (`WF` of `Resume`). In
`KernelLifecycle` that the loop runs the worker, `stop()`, admitted publishers and
cancelled jobs, and that handlers return (their HTTP client has a timeout); nobody
is assumed to publish or to call `stop()`. In `EvidenceLadder` that the scheduled
cycle comes again and, where nothing fails any more (`Calm`), gets through. In
`PaperCycle`, for `ShadowEnds`, that the shadow's job comes again, that
requests end, and (`SF`) that a position visited again and again is visited at
some time after its holding limit with a market that answers.

Three runs expect a violation. Each checks one sentence of the repository's
documents that the code does not keep (the sentences and lines are quoted in
`PROJECT.json`): `doc_recovery_starts_probation`, a recovery whose probation never
starts because a status query consumed it; `doc_shadow_ends`, a shadow position
that is never visited again because its symbol left the scanner's selection;
`doc_audit_is_carried_out`, an acceptance audit that raises a `TypeError` whenever it is
asked for, because a component has taken the name of a handler it awaits
(`kernel.py` 312-313).

The models exhibit other differences between documents and code, for which no run
is kept.

Guards and entries:
  - the cooldown is counted from the first BLOCKED reading of an episode, not from
    the last (`recovery_hysteresis.py` 51; `docs/AUDIT_UPDATE_44.md` 11-15);
  - a REJECTED fill and a duplicate TESTNET answer count as probation entries
    (`post_recovery_probation.py` 23; `docs/AUDIT_UPDATE_49.md` 3); AutoPaper, too,
    counts a REJECTED fill as the entry it may make (`autopaper/service.py` 132-140);
  - PAPER entries during a probation are not reduced: `paper_open` drops the
    multiplier (`kernel.py` 1483; `README.md` 11);
  - an entry suspended for longer than the TTL is joined by a second one, hence
    the wording of `SerializedWithinTTL` (`docs/AUDIT_UPDATE_48.md` 17);
  - an entry admitted before a BLOCKED reading is filled after it, hence the
    wording of `LatchStopsNewEntries` (`docs/AUDIT_UPDATE_43.md` 11);
  - `trading_readiness` mixes two looks at the market: freshness and the backtest's
    regime come from the first, direction and the calibration's regime from the
    second (`kernel.py` 1421-1431; `docs/AUDIT_UPDATE_34.md` 5-10 asks for one
    regime); hence `EntryIsEarned` speaks of both contexts. A shadow position is
    opened in the same mixture;
  - the calibration has no profit factor as long as nothing was lost, so the gate
    never admits a context without a loss, while the backtest gives it 999
    (`calibration.py` 62; `pretrade_backtest/engine.py` 143-146);
  - `raw_edge` is always -1, 0 or 1 and `NO_EDGE` unreachable (theorem
    `EdgeIsTheDirection`; `docs/AUDIT_SPRINT_5.md` speaks of contradicting evidence);
  - reading the entry trace counts as a decision of the filters
    (`docs/AUDIT_UPDATE_65.md`), and two hard reasons of a block count as matters of
    score (`filter_decision_telemetry.py`);
  - counters whose file cannot be read start from zero, and the next save overwrites
    it (`filter_rigidity.py`, `_load`), hence the wording of `AnswersAreCounted`.

Account and positions:
  - with a crash between a partial close and its flag the manager takes a second
    partial, hence `AtMostOnePartial` only without crashes
    (`docs/AUDIT_SPRINT_10.md` 9);
  - `realized_pnl` of a closed row is its last leg's (`execution/service.py` 213;
    `docs/AUDIT_UPDATE_67.md` 5), and its notional keeps the old quantity after a
    partial (`execution/service.py` 160); the collector takes this column, a sum of
    money, for the expected R;
  - the loss a position is sized for is that of a LONG: a SHORT's stop exit slips to,
    and pays its fee on, a price above the entry and may lose a little more
    (`execution/service.py` 78-81), hence the LONG in `StopOutIsBounded`;
  - prices fetched before the manager's suspension may be applied to a position
    that was opened in it (`kernel.py` 1507).

Shadow and scanner:
  - at its time limit a shadow position leaves at the market price before its stop
    is looked at (`shadow/service.py` 174-178);
  - the scanner shows itself running for good after a universe that failed, and
    serves the latest run, however old, to whoever finds it busy.

Market data and orders:
  - a price not marked stale may be older than `stale_after_seconds` by the time of
    the request that failed, hence the wording of `FreshAnswersAreRecent`
    (`infrastructure/binance.py` 94, 116, 174);
  - `market_universe()` ignores the cooldown after a failure, hence
    `NoNeedlessRequest` for tickers only (`docs/AUDIT_SPRINT_4.md` 13);
  - the lock of TESTNET orders obeys the newest report, however much has happened
    since (`recovery/service.py` 113; `docs/AUDIT_UPDATE_25.md` 17), and a row
    acknowledged as NEW is reported for good once its order is gone;
  - the key of an intent covers the quantity, so the same signal under another
    exposure multiplier is another order (`orders/idempotency.py` 17).

Evidence and tools:
  - the names `operational_readiness_summary` and `operational_acceptance_audit` are
    methods and, once `kernel.py` 312-313 have run, components that cannot be called.
    Whatever awaits one of them raises: the acceptance audit, the tick of the final
    campaign, the technical completion, the dashboard snapshot and the release
    candidate. No campaign pass is counted and no dossier becomes ready (theorem
    `NothingAsWired`);
  - no evidence makes a live candidate, since its checks look for a report's keys
    beside `latest` and not in it (`live_readiness.py` 36-41; `docs/AUDIT_UPDATE_40.md`
    9-18; theorem `NoCandidateEver`): certification is never positive, and degradation
    never better than CAUTION;
  - were the audit repaired, a release candidate would still not be ready: the kernel
    has no attribute of the name it looks for (`kernel.py` 1011-1012);
  - incidents and test failures are counted in tables that nothing creates, and a
    query that fails counts none (`evidence/collector.py`, whose lines 34-35 promise
    that missing evidence is never favourable);
  - the strategy score turns a ruin probability or a Brier score of 0.0 into 1.0
    (`strategy/orchestrator.py`, `or 1.0`);
  - two orchestrators that start together both hold the lock file
    (`tools/validation_orchestrator.py` 39; `docs/AUDIT_UPDATE_63.md`);
  - a bundle is never withdrawn, a tool that dies is taken for one that has given a
    verdict, and the watchdog's verdict combines answers of different moments
    (`docs/AUDIT_UPDATE_54.md`): `DossierIsEarned` therefore speaks of evidence that
    has been certified at some time;
  - a campaign whose save fails goes on in memory ahead of its file.

`PROJECT.json` lists the hazards that decide something. Smaller ones are left to
this list: alerts dropped because Telegram closes before the bus is drained
(`kernel.py` 429), a `start()` that raises half way (`kernel.py` 332; the program then
ends), a wall clock that steps backwards (elapsed time is then zero), two
reconciliations at once (the theorem `StandingIssuesReported` covers them, the run
does not).

Deadlock is checked in `entry_trace`, whose gates can always change. In the other
passing runs the bounds (time, ids, positions) or the end of `stop()` end a behaviour.

## 4. The proofs

Every safety invariant, action property and refinement that a passing run checks
is also a theorem: the run shows it on a small instance, the theorem for every
policy, every number of clients and every bound. The theorems and the properties
they state are listed in `PROJECT.json`; here is the argument of each module.

`RecoveryHysteresis_proofs` - `HysteresisInv` (types, `LatchIsCoherent`,
`ChecksAreSpaced`) is inductive. The lemmas are stated for any state `s` at any
time `t` (`Sound(s, t)`).

`EntryTrace_proofs` -
  1. the controller beside its history: `ProgressIsEarned` alone is not inductive,
     `Earned` adds that a healthy run seen while latched began after the block.
     `ReadingEarns` shows it for the state before a possible release, from which
     `ReleaseEarned` follows;
  2. the answers: `TraceInv` says of a request that waits (`Waits`) that the gates
     closed throughout are closed now, that those closed now are remembered, and that
     the degradation it has read is that of one of its moments. A trace built from
     such a request is truthful (`AnswerIsTruthful`): `TracesAreTruthful`, for any
     number of requests at once;
  3. the counters: that the file covers the answers is not inductive, since the next
     save writes the memory; `CountInv` adds that the memory covers them, too. What one
     more trace does to both sides is `RecordCounts`. From it `AnswersCounted`;
  4. `TraceKeepsReadings`: with the requests, the controller still takes only steps of
     `ReadingsSpec`, so the results of 1 hold there too; `ReadChecksAreSpaced` is the
     controller's own `ChecksAreSpaced` among its readings.

`EntryAdmission_proofs` -
  1. `RequireAdmissionFacts`: the two evaluations of one admission are one step of
     the controller, and an admitted entry leaves it open;
  2. hence `CompositionImplementsHysteresis`: every step of the composition is a
     step of `HysteresisSpec` or a stutter, crashes included;
  3. `ReservationInv`: the reservation is that of every request its TTL still
     covers, and ids are never shared. From it `Serialized` and `ReleaseIsOwn`;
  4. `LatchStops`, by `LatchingIsNow` (a reading latches now or leaves the block
     where it was);
  5. `GuardsCoherent` and `TypeCorrect`;
  6. `QuietInv`, for as long as no request outlives its reservation and no crash
     falls between an entry and its record: the request in flight is still one the
     probation would admit, at an exposure the ramp still grants (`StillAdmitted`);
     the probation has what was created on record (`OnRecord`); a latched block
     began after the probation (`BlockedSinceThen`). What could break it is a
     release, which starts a new probation under the request in flight. But a
     release comes a cooldown after the block, the block after the request began
     (`LatchStops`), and by then the reservation has run out, because the TTL is not
     longer than the cooldown (`NoReleaseUnderway`). For the same reason a new
     probation begins later than the one before it, so that its entries are not
     mistaken for that one's. From it `ProbationCapped`, `ProbationSpaced` and
     `ExposureCurrent`.

`PaperLedger_proofs` - `LedgerInv`: every row is sound (`SoundPosition`: lots are
left, the risk is at least the grain, the extremes enclose the entry, the result at
the stop is no worse than at the first stop), the manager's evaluation is of an open
position and knows that the stop is beyond the entry before it takes a partial
(`ManagerKnows`), and lots are missing only where a flag, or the phase before the
flag, says so (`PartialsAreKnown`). `MoneyIsConserved` is about a fold over the rows;
what it becomes when a row is added or changed (`TotalAppends`, `TotalUpdates`) rests on
`SetInduction`, for the subsets of the rows. That a stop costs no more than the first
one would have rests on what an exit makes per lot growing with its price
(`PerLotGrows`): a better stop and a partial taken at a better price both only add
(`StopOutFigures`), and a LONG's first stop costs at most what was estimated
(`EstimateCovers`). From `LedgerInv` `MoneyConserved`, `StopOutsAreBounded`,
`PartialsAreSingle` and `LedgerTypeCorrect`; `StopsTighten` is an action property from the
soundness of the rows.

`RecoveryGuard_proofs` -
  1. the orders by themselves: `OrdersInv` is inductive. That an intent is at the
     exchange at most once (`AtMostOnce`) needs that whatever is on its way or
     accepted is on record (`OnRecord`); that a row names its own order (`IdsAreOwn`)
     needs that a caller awaits one intent whose row it alone reserved
     (`CallersAreSingle`); a row that could not be finalised stays RESERVED, since
     nobody awaits it any more (`UnfinishedStay`). From it `RowsAreTrue`,
     `OrdersAreSentOnce` (every step is `Record`, `Place` or a stutter of `OrderOnce`)
     and `OrdersTypeCorrect`;
  2. `GuardedOrders`: the guard only removes behaviours, so the results above hold
     behind it. `StandingIssuesReported` needs what a reconciliation knows at each
     phase (`Knows`): a position that still differs was read with the local quantity
     it has, a row that still waits was read as pending, an order that is still
     nobody's was not; orders keep their place in the book (`BookGrows`). It holds
     for any number of reconciliations at once, the run has one.

`Infrastructure_proofs` -
  1. the stop of the kernel, `StopInv`: the queue holds the last events accepted
     (`QueueIsTail`), everything before them is recorded (`RecordIsCurrent`), the
     count behind `join()` is exact (`WorkIsCounted`), and `StopIsAt` says what each
     phase of `stop()` has achieved: once `join()` is woken the worker has ended and
     all that was accepted before is recorded. From it `StopDrains` and
     `RecordingIsOrdered`;
  2. market data: `FreshAnswersAreRecent` is not inductive, `MarketInv` adds that no
     stamp is of the future (`MarketShape`) and that a request in flight began at
     most `RequestTime` ago (`RequestsAreRecent`). From it `FreshAnswersHold`,
     `CacheOnlyHardlyRegresses` and `NoRequestIsNeedless`.

`Evidence_proofs` -
  1. the campaign, `CampaignInv`: memory and file are sound (`SoundCampaign`: passes
     an interval apart since the first sample), hold nothing that was not earned
     (`EarnedCampaign`, against a history of the earned passes), and the file is an
     earlier state of the memory (`FileIsBehind`), which a reload needs. From it
     `PassesSpaced` and `CompletionKept`;
  2. the dossier, `EvidenceInv`: where a watchdog has got to shows what was once so
     (`WatchKnows`), and so do the files, whoever wrote them (`FilesKnow`). That what
     was once so is enough rests on `EarnedStays`. From it `DossierEarned`, and, where
     the audit does not answer, `NothingAsWired`;
  3. the validation cycle, `LadderInv`: between its two commits the campaign's report
     is the one judged from a superset of what is unmet (`JudgedFrom`), for queries
     that fail only add to what is missing. From it `MilestoneEarned`,
     `RiskAlwaysPauses` and, from the shape of the reports alone, `NoCandidateEver`.

`PaperCycle_proofs` - for every policy, market and number of tasks, symbols and
scans:
  1. `AccountNeverDoubles` needs little more than that a symbol's count is a natural,
     because the look at the table and the insert are one step;
  2. `ShadowInv` (types, with contexts that are never `NoShadow`) gives
     `EvidenceIsCausal`; what an observation more means for the list of contexts is
     the lemma `ObservedGrows`;
  3. `RunInv` says that the latest run, and the run under every cycle or entry in
     flight, is stored (`StoredIn`, 0 for an entry by hand), and that rows are only
     added (`RunsGrow`); from it `TradedRunsAreStored`;
  4. `EdgeIsTheDirection` is about `MarketAssessment` alone: momentum and regime never
     point in different directions (`EvidencesAgree`);
  5. `EntriesInv`: the observations there are bear every entry out (`BearOut`: enough
     in both contexts, a loss and a win in the calibration's). A readiness that
     allows an entry is borne out (`ReadyIsBorneOut`): the calibration is positive
     only with a loss on record, its profit factor only with a win
     (`CalibrationHasSeen`), and the outcomes are those of the observations of the
     context (`OutcomesOf`). Observations are only added (`MoreBearsOut`), and what a
     task tries is a symbol (`ListsInv`). With `ShadowInv`, each observation was
     opened before and has ended (`ObservedWereOpened`): `EntriesAreEarned`.

What a recursive function computes is used in `PaperCycle_proofs` (`Total`, by
`TotalProperties`) and a fold in `PaperLedger_proofs`. Neither needs an induction
theorem with an operator as parameter: the set of counterexamples has a least
element (`LeastOf` for the naturals, `MinimalSet` for the subsets of a finite set),
and a least counterexample is refuted. That is why `Selected` is written with `CHOOSE`
over a set of positions, and `Profit` and `Loss` as totals of clipped sequences.

Assumed, by name, in the module that declares the constants:
  - the policy constants are naturals, the TTL and the number of checks not zero
    (`HysteresisPolicyAssumption` and its like);
  - `TTLAssumption`: a reservation does not outlast the cooldown of a block (the code
    has 30 seconds and 15 minutes, both fixed);
  - `GrainAssumption`: the unit of price is fine enough for the buffer beyond
    break-even to be at least one unit (the code's prices are floats);
  - `ResultsAssumption`: results are integers, the unit of R being free;
  - the cache TTL is not longer than the time after which a price is stale;
  - the environment hands the kernel reports that `evaluate` can produce;
  - whether the acceptance audit answers is fixed for a behaviour
    (`EnvironmentAssumption`); only `NothingAsWired` assumes that it does not;
  - every intent of an order has a symbol and a whole quantity, and a flat PAPER
    position is possible.

Only model-checked: the liveness properties `ReservationIsNeverStuck`, `StopEnds`,
`MilestoneIsReached` and `EveryoneIsAnswered`, since fairness and `ENABLED` are out of
the prover's reach, and the three runs that find a violation.
What the drawdown and the walk forward of `BacktestApproves` compute is evaluated
by TLC only: no theorem depends on more of the backtest than that it wants its
samples.

## 5. What is abstracted or left out

- The clock only moves forward; stamps are integers.
- A crash of the process keeps every completed rename and commit.
- The kernel's wiring of several services stands after a `return` in
  `_deep_universe_symbols` (`kernel.py` lines 293-324); the model takes it as the
  constructor's last lines, which the handlers need. Where they do not run, the
  handlers of `KernelHandlers` find no component and raise just the same.
- Outside `KernelLifecycle` `publish()` is taken not to suspend (its queue holds
  10 000 events). There, a free place goes to the publisher that waited longest or
  to a new one; `MaxEvents` bounds the events published. Every event is taken as
  one that `_persist_event` stores; a failing INSERT is not told from a stored one.
- An order fills at once or not at all; the acknowledgements are `NEW` and `FILLED`.
  The other statuses the exchange may answer behave like one of these two in
  `_local_pending_orders`.
- A position is one signed quantity per symbol on either side of the comparison; a
  LONG and a SHORT of one symbol are one issue of the model and two of the code.
- A cancelled task (`CancelledError` passes `except Exception`) is the crash of
  `TestnetOrders`: no row is finalised.
- The guard of entry admission around `testnet_order_create` is in `EntryAdmission`,
  the lock in `RecoveryGuard`; the two are not composed, they share no state but
  the request.
- A price is the time at which its request began. A request takes at most
  `RequestTime`; the timeouts of the code bound each read (8 s) and the connection
  (5 s), not their sum. The answer to a universe request is cached as a whole or
  not at all. The service state that `health()` reports is left out.
- `EntryTrace` is the one place besides `KernelLifecycle` where `publish()` suspends: a
  full queue is the only thing that can come between the two readings of a request.
  Block and reservation survive its restarts: their saves are the subject of
  `EntryAdmission`. The warnings and the exposure of a trace decide nothing and are
  left out.
- The classes behind the acceptance audit and the readiness summary
  (`operations/operational_*`) are not modelled, because no request reaches them.
  `KernelHandlers` has of a handler only the names it uses; the database and the event
  bus do not fail there, so that what fails, fails of the names alone.
- `PaperCycle`: volumes are positive, changes and ranges whole hundredths of a per
  cent. A context is a direction and a regime; the bin of the edge follows from
  the direction (`EdgeIsTheDirection`). Equity, drawdown, open risk and the chain of
  guards may refuse any entry. The history rows of cycles are left out, and so is
  `laboratory/importer.py`, which writes observations from a file while the program
  does not run: `EntryIsEarned` speaks of observations the program made. There is
  one scheduled manager; another one in a request is covered by `CloseByHand`.
- `EvidenceLadder`: a trade wins or loses one unit, a tick is a day, a report names
  one thing amiss or none. `FinalEvidence` lets audit, certification and candidate
  answer whatever their evaluators may, more than the wiring lets them: it is used
  for what must never happen, and no property says that something does.
- Sizing and floating-point rounding are not modelled.

Not modelled: strategies and allocation (scores on request that authorise
nothing), the certification report and the laboratory's statistics (no decision
reads them), the update engine and the runtime registry (versions), and routing,
HTML, texts and settings. What is left of the parts marked `partly` is named with
each of them in `PROJECT.json`.

## 6. Plan

1. Proofs: the type correctness of `PaperCycle` as one theorem (`ShadowInv`, `RunInv`
   and `ListsInv` together have nearly all of it); that a run of the validation
   cycle implements an abstract verdict, and `FinalEvidence` an abstract "earned
   once, ready later".
2. The two-snapshot context of an entry, once the documents say which is meant.
3. The row acknowledged as NEW that no reconciliation ever closes
   (`recovery/service.py` 137): a liveness property once the code gives the row an
   end.
