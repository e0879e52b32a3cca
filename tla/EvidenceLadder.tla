--------------------------- MODULE EvidenceLadder ---------------------------
(***************************************************************************)
(* How the long validation campaign is judged: the gates whose reports are *)
(* stored one row each, the collector that reads them together with the    *)
(* results of PAPER trading, the validation cycle that puts what was read  *)
(* to the campaign engine, and the readiness that looks at everybody's     *)
(* status.  From nexor_x/evidence, validation_cycle, campaign, supervisor, *)
(* integration, validation and operations/live_readiness.py.               *)
(*                                                                         *)
(* A cycle waits for nothing but the database, so it is never suspended:   *)
(* only a failure or the end of the program comes between its commits.     *)
(* One tick is a day, and the campaign began at tick 0 (kernel.start()     *)
(* stores the date the first time).  A trade wins or loses one unit.  No   *)
(* code creates the tables of incidents and of test failures, so both are  *)
(* always counted as zero.                                                 *)
(***************************************************************************)
EXTENDS Clock, Sequences, FiniteSets, TLC

CONSTANTS
    MinimumDays,     \* ValidationCampaignEngine.minimum_days
    MinimumTrades,   \* minimum_paper_trades
    MaximumDrawdown, \* maximum_drawdown_pct, in units
    RecentTrades,    \* the rows of a recent reading
    CertifiedDays,     \* CertificationPolicy.min_days
    CertifiedTrades,   \* min_closed_trades
    CertifiedDrawdown, \* max_drawdown_pct
    MaxTrades        \* bound: PAPER trading stops there

ASSUME CampaignPolicyAssumption ==
    {MinimumDays, MinimumTrades, MaximumDrawdown, RecentTrades, CertifiedDays,
     CertifiedTrades, CertifiedDrawdown, MaxTrades} \subseteq Nat

VARIABLES
    closed,  \* the results of the closed positions, in the order of their ids
    latest,  \* what the newest row of each table of reports allows
    cycle,   \* the validation cycle under way
    ran      \* the phase in the newest row of validation_cycle_runs

ladderVars == <<now, closed, latest, cycle, ran>>

----------------------------------------------------------------------------
(* The gates.  A report allows nothing, PAPER, or PAPER and TESTNET.  A    *)
(* table without a row is read like one that allows nothing.               *)

Tables == {"recovery", "supervisor", "integration", "validation", "campaign"}

Verdicts == {"nothing", "paper", "testnet"}

Allowing(paper, testnet) ==
    CASE testnet -> "testnet"
      [] paper /\ ~testnet -> "paper"
      [] OTHER -> "nothing"

\* An engine: the checks for PAPER and the further ones for TESTNET.
Decide(engine, failing) ==
    Allowing(failing \cap engine.paper = {},
             failing \cap (engine.paper \cup engine.testnet) = {})

SupervisorEngine ==
    [paper   |-> {"hard_stop_active", "critical_test_failures", "operational_incidents",
                  "data_freshness_ok"},
     testnet |-> {"recovery_ok", "exchange_ready", "live_connector_tested"}]

IntegrationEngine ==
    [paper   |-> {"database_ok", "market_ok", "scanner_ok", "strategy_ok", "allocation_ok",
                  "update_registry_ok", "critical_test_failures", "operational_incidents"},
     testnet |-> {"recovery_ok", "supervisor_ok", "testnet_connector_ok"}]

ValidationEngine ==
    [paper   |-> {"paper_trades", "profit_factor", "expected_r", "drawdown_pct",
                  "recent_profit_factor", "recent_expected_r", "walk_forward_pass_ratio",
                  "monte_carlo_ruin_probability", "brier_score_oos", "calibration_ece_oos",
                  "integration_healthy", "supervisor_paper_allowed",
                  "operational_incidents", "critical_test_failures"},
     testnet |-> {"recovery_ok", "supervisor_testnet_allowed"}]

\* What an administrator may post: everything in order, or one thing amiss.
Payloads(engine) == {{}} \cup {{check} : check \in engine.paper \cup engine.testnet}

----------------------------------------------------------------------------
(* EvidenceCollector: what is read of the results.                         *)

Count(results, result) == Cardinality({i \in DOMAIN results : results[i] = result})

LastOnes(results, n) ==
    SubSeq(results, IF Len(results) > n THEN Len(results) - n + 1 ELSE 1, Len(results))

\* gross profit / gross loss >= numerator / denominator; without a loss the
\* factor is 999, without a trade zero.
ProfitFactorReaches(results, numerator, denominator) ==
    IF Count(results, "loss") = 0
    THEN Count(results, "win") > 0
    ELSE denominator * Count(results, "win") >= numerator * Count(results, "loss")

\* The mean result >= 1 / parts.
ExpectancyReaches(results, parts) ==
    /\ Len(results) > 0
    /\ parts * (Count(results, "win") - Count(results, "loss")) >= Len(results)

\* The account after the first n trades, in units above the initial equity.
Equity(results, n) ==
    Count(SubSeq(results, 1, n), "win") - Count(SubSeq(results, 1, n), "loss")

Drawdown(results) ==
    LET equities == {Equity(results, n) : n \in 0..Len(results)}
        peak     == CHOOSE e \in equities : \A other \in equities : e >= other
    IN  peak - Equity(results, Len(results))

\* The queries of collect(), each of which may fail on its own.
Readings == {"trades", "results", "recentResults", "account",
             "integration", "recovery", "supervisor"}

\* The milestones of the campaign.
Milestones == {"MINIMUM_DAYS", "MINIMUM_PAPER_TRADES", "PROFIT_FACTOR", "EXPECTED_R",
               "DRAWDOWN", "RECENT_PROFIT_FACTOR", "RECENT_EXPECTED_R",
               "INTEGRATION_HEALTH", "RECOVERY", "SUPERVISOR_PAPER", "SUPERVISOR_TESTNET",
               "NO_OPERATIONAL_INCIDENTS", "NO_CRITICAL_TEST_FAILURES"}

\* Nothing creates the tables these are counted in, and a count that cannot be
\* made is zero.
OperationalIncidents == 0
CriticalTestFailures == 0

\* The query a milestone is judged by; the days are not a query of collect().
Source(milestone) ==
    CASE milestone = "MINIMUM_DAYS"                          -> "days"
      [] milestone = "MINIMUM_PAPER_TRADES"                  -> "trades"
      [] milestone \in {"PROFIT_FACTOR", "EXPECTED_R"}       -> "results"
      [] milestone \in {"RECENT_PROFIT_FACTOR", "RECENT_EXPECTED_R"} -> "recentResults"
      [] milestone = "DRAWDOWN"                              -> "account"
      [] milestone = "INTEGRATION_HEALTH"                    -> "integration"
      [] milestone = "RECOVERY"                              -> "recovery"
      [] milestone \in {"NO_OPERATIONAL_INCIDENTS", "NO_CRITICAL_TEST_FAILURES"} -> "noTable"
      [] OTHER                                               -> "supervisor"

\* The milestones that are true.
Met(milestone) ==
    CASE milestone = "MINIMUM_DAYS"         -> now >= MinimumDays
      [] milestone = "MINIMUM_PAPER_TRADES" -> Len(closed) >= MinimumTrades
      [] milestone = "PROFIT_FACTOR"        -> ProfitFactorReaches(closed, 14, 10)
      [] milestone = "EXPECTED_R"           -> ExpectancyReaches(closed, 20)
      [] milestone = "DRAWDOWN"             -> Drawdown(closed) <= MaximumDrawdown
      [] milestone = "RECENT_PROFIT_FACTOR" ->
             ProfitFactorReaches(LastOnes(closed, RecentTrades), 115, 100)
      [] milestone = "RECENT_EXPECTED_R"    ->
             ExpectancyReaches(LastOnes(closed, RecentTrades), 100)
      [] milestone = "INTEGRATION_HEALTH"   -> latest["integration"] = "testnet"
      [] milestone = "RECOVERY"             -> latest["recovery"] = "testnet"
      [] milestone = "SUPERVISOR_PAPER"     -> latest["supervisor"] # "nothing"
      [] milestone = "SUPERVISOR_TESTNET"   -> latest["supervisor"] = "testnet"
      [] milestone = "NO_OPERATIONAL_INCIDENTS"  -> OperationalIncidents = 0
      [] milestone = "NO_CRITICAL_TEST_FAILURES" -> CriticalTestFailures = 0

Unmet == {m \in Milestones : ~Met(m)}
----------------------------------------------------------------------------
(* ValidationCampaignEngine.evaluate.                                      *)

\* Faulty variant: a recovery that is not clean is no hard blocker.
HardBlockersWithoutRecovery(missing) ==
    missing \cap {"DRAWDOWN", "INTEGRATION_HEALTH", "SUPERVISOR_PAPER",
                  "NO_OPERATIONAL_INCIDENTS", "NO_CRITICAL_TEST_FAILURES"}

HardBlockers(missing) ==
    missing \cap {"DRAWDOWN", "INTEGRATION_HEALTH", "RECOVERY", "SUPERVISOR_PAPER",
                  "NO_OPERATIONAL_INCIDENTS", "NO_CRITICAL_TEST_FAILURES"}

Phases == {"PAUSED_BY_RISK", "EVIDENCE_MILESTONE_REACHED", "VALIDATION_IN_PROGRESS"}

Phase(missing) ==
    CASE HardBlockers(missing) # {} -> "PAUSED_BY_RISK"
      [] missing = {}               -> "EVIDENCE_MILESTONE_REACHED"
      [] OTHER                      -> "VALIDATION_IN_PROGRESS"

CampaignAllows(missing) ==
    LET paper == missing \cap {"SUPERVISOR_PAPER", "INTEGRATION_HEALTH", "DRAWDOWN",
                               "NO_OPERATIONAL_INCIDENTS", "NO_CRITICAL_TEST_FAILURES"} = {}
    IN  Allowing(paper, paper /\ missing \cap {"RECOVERY", "SUPERVISOR_TESTNET"} = {})

----------------------------------------------------------------------------
Idle == "idle"
NeverRan == "neverRan"

LadderTypeOK ==
    /\ ClockTypeOK
    /\ closed \in Seq({"win", "loss"}) /\ Len(closed) <= MaxTrades
    /\ latest \in [Tables -> Verdicts]
    /\ cycle \in {Idle} \cup Phases
    /\ ran \in {NeverRan} \cup Phases

LadderInit ==
    /\ ClockInit
    /\ closed = <<>>
    /\ latest = [table \in Tables |-> "nothing"]
    /\ cycle = Idle /\ ran = NeverRan

\* No cycle is under way, and nothing is bound to happen yet.
Open == cycle = Idle /\ ~Calm

CloseTrade(result) ==
    /\ Open /\ Len(closed) < MaxTrades
    /\ closed' = Append(closed, result)
    /\ UNCHANGED <<now, latest, cycle, ran>>

DayPasses == cycle = Idle /\ Advance /\ UNCHANGED <<closed, latest, cycle, ran>>

Store(table, verdict) ==
    /\ Open
    /\ latest' = [latest EXCEPT ![table] = verdict]
    /\ UNCHANGED <<now, closed, cycle, ran>>

\* OperationalSupervisorService.evaluate, on an administrator's readings.
Supervise ==
    \E failing \in Payloads(SupervisorEngine) :
        Store("supervisor", Decide(SupervisorEngine, failing))

\* IntegrationHealthService.evaluate
Integrate ==
    \E failing \in Payloads(IntegrationEngine) :
        Store("integration", Decide(IntegrationEngine, failing))

\* ValidationSnapshotService.evaluate
Validate ==
    \E failing \in Payloads(ValidationEngine) :
        Store("validation", Decide(ValidationEngine, failing))

\* A reconciliation with the exchange finds issues or none.
Reconcile == \E clean \in BOOLEAN : Store("recovery", Allowing(clean, clean))

\* ValidationCampaignService.evaluate, on an administrator's readings.
JudgeByHand == \E missing \in {{}} \cup {{m} : m \in Milestones} :
                  Store("campaign", CampaignAllows(missing))

----------------------------------------------------------------------------
(* ValidationCycleService.run_once().                                      *)

\* Faulty variant: the days are left out of what the campaign is judged by.
MissingButDays(unmet, failed) == unmet \ {"MINIMUM_DAYS"}

\* A query that fails answers what does not fulfil its milestones.
Missing(unmet, failed) == unmet \cup {m \in Milestones : Source(m) \in failed}

\* Queries fail one at a time, or all of them with the database.
Failures == {{}, Readings} \cup {{reading} : reading \in Readings}

\* Faulty variant: once a phase is recorded the campaign is not judged again.
RunOnce(failures) ==
    /\ cycle = Idle /\ ran = NeverRan
    /\ LET unmet == Unmet
       IN  \E failed \in failures :
              /\ cycle' = Phase(Missing(unmet, failed))
              /\ latest' = [latest EXCEPT !["campaign"] = CampaignAllows(Missing(unmet, failed))]
    /\ UNCHANGED <<now, closed, ran>>

\* collect(), and validation_campaign.evaluate() that commits the campaign's row.
Run(failures) ==
    /\ cycle = Idle
    /\ LET unmet == Unmet
       IN  \E failed \in failures :
              /\ cycle' = Phase(Missing(unmet, failed))
              /\ latest' = [latest EXCEPT !["campaign"] = CampaignAllows(Missing(unmet, failed))]
    /\ UNCHANGED <<now, closed, ran>>

\* The cycle's own row is committed.
RecordRun ==
    /\ cycle # Idle
    /\ cycle' = Idle /\ ran' = cycle
    /\ UNCHANGED <<now, closed, latest>>

\* Its insertion fails, or the program ends before.
RunFails ==
    /\ cycle # Idle /\ ~Calm
    /\ cycle' = Idle
    /\ UNCHANGED <<now, closed, latest, ran>>

Working == Run({{}}) \/ RecordRun

LadderNext ==
    \/ \E result \in {"win", "loss"} : CloseTrade(result)
    \/ DayPasses
    \/ Supervise \/ Integrate \/ Validate \/ Reconcile \/ JudgeByHand
    \/ Run(IF Calm THEN {{}} ELSE Failures)
    \/ RecordRun \/ RunFails

LadderSpec == LadderInit /\ [][LadderNext]_ladderVars

\* The cycle is a job of the kernel's scheduler: it goes on and comes again.
FairLadderSpec == LadderSpec /\ WF_ladderVars(Working)

----------------------------------------------------------------------------
(* live_readiness_status() and live_certification_status(): what they make *)
(* of the answers of status().  The mode, the credentials and the runtime, *)
(* which raise no objection, are left out.                                 *)

\* payload.get(key, default)
Get(payload, key, default) == IF key \in DOMAIN payload THEN payload[key] ELSE default

\* status() answers: the newest report is one of its entries.
SupervisorStatus ==
    [state |-> "READY", live_allowed |-> FALSE,
     latest |-> [paper_allowed   |-> latest["supervisor"] # "nothing",
                 testnet_allowed |-> latest["supervisor"] = "testnet"]]

IntegrationStatus ==
    [state |-> "READY", live_ready |-> FALSE,
     latest |-> [paper_ready   |-> latest["integration"] # "nothing",
                 testnet_ready |-> latest["integration"] = "testnet"]]

ValidationStatus ==
    [state |-> "READY", live_validation_ready |-> FALSE,
     latest |-> [paper_validation_ready   |-> latest["validation"] # "nothing",
                 testnet_validation_ready |-> latest["validation"] = "testnet"]]

CampaignStatus ==
    [state |-> "READY", live_allowed |-> FALSE,
     latest |-> [paper_allowed   |-> latest["campaign"] # "nothing",
                 testnet_allowed |-> latest["campaign"] = "testnet"]]

CycleStatus ==
    [state |-> "READY", live_allowed |-> FALSE,
     latest |-> [days_running |-> now, campaign |-> ran]]

RecoveryStatus ==
    [state |-> "READY", latest_report |-> [recovery_ok |-> latest["recovery"] = "testnet"],
     testnet_order_guard_locked |-> latest["recovery"] # "testnet"]

GoodStatus == {"OK", "READY", "HEALTHY", "ONLINE", "PAPER_AND_TESTNET_READY",
               "READY_FOR_LONG_RUN_VALIDATION", "EVIDENCE_MILESTONE_REACHED"}

\* _bool_or_status(payload, "recovery_ok", "status")
RecoveryIsGood(payload) ==
    \/ Get(payload, "recovery_ok", FALSE)
    \/ "recovery_ok" \notin DOMAIN payload /\ Get(payload, "status", "") \in GoodStatus

\* _cycle_present
CyclePresent(payload) ==
    \/ DOMAIN payload \cap {"run_id", "days_running", "campaign"} # {}
    \/ Get(payload, "status", "") \notin {"", "NOT_RUN", "NEVER_RUN", "PENDING"}

\* LiveReadinessEvaluator.evaluate: candidate_ready
CandidateReady ==
    /\ RecoveryIsGood(RecoveryStatus)
    /\ Get(SupervisorStatus, "testnet_allowed", FALSE)
    /\ Get(IntegrationStatus, "testnet_ready", FALSE)
    /\ Get(ValidationStatus, "testnet_validation_ready", FALSE)
    /\ Get(CampaignStatus, "testnet_allowed", FALSE)
    /\ CyclePresent(CycleStatus)

\* LiveCertificationEvaluator.evaluate: evidence_certified.  The policy is the
\* certification's own (live_certification.py lines 10-13); its profit factor of
\* 1.20 is counted in hundredths; a drawdown that is missing is the worst.
EvidenceCertified ==
    /\ CandidateReady
    /\ Get(CycleStatus, "days_running", 0) >= CertifiedDays
    /\ Get(CycleStatus, "closed_trades", 0) >= CertifiedTrades
    /\ Get(CycleStatus, "profit_factor", 0) >= 120
    /\ Get(CycleStatus, "max_drawdown_pct", CertifiedDrawdown + 1) <= CertifiedDrawdown

----------------------------------------------------------------------------
\* A milestone is never declared from what could not be read or is not so: a
\* database that fails for one query or for all of them yields no evidence
\* (evidence/collector.py lines 34-35, campaign/engine.py line 125).
MilestoneIsEarned ==
    cycle = "EVIDENCE_MILESTONE_REACHED" =>
        /\ Unmet = {}
        /\ now >= MinimumDays /\ Len(closed) >= MinimumTrades
        /\ latest["campaign"] = "testnet"

\* A risk pauses the campaign whatever else is well, and a paused campaign
\* allows no TESTNET: the row an administrator sees and the permission that
\* is derived beside it agree (campaign/engine.py lines 97-125).
RiskPauses ==
    cycle # Idle =>
        /\ Unmet \cap {"DRAWDOWN", "INTEGRATION_HEALTH", "RECOVERY", "SUPERVISOR_PAPER"} # {}
              => cycle = "PAUSED_BY_RISK"
        /\ cycle = "PAUSED_BY_RISK" => latest["campaign"] # "testnet"

\* Evidence that is complete and stays so is recorded by a later cycle,
\* however many cycles failed or came too early before (the scheduled job).
MilestoneIsReached == (Calm /\ Unmet = {}) ~> ran = "EVIDENCE_MILESTONE_REACHED"
=============================================================================
