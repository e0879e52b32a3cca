----------------------- MODULE PerformanceDegradation -----------------------
(***************************************************************************)
(* nexor_x/operations/performance_degradation.py: the pure classification  *)
(* of recent results that decides whether new entries are safe.            *)
(*                                                                         *)
(* The guard compares three metrics with policy thresholds.  Only the band *)
(* a metric falls in matters, so a metric is one of three bands:           *)
(*   profitFactor  "low" (< 1.00)  "weak" (< 1.20)  "good"                 *)
(*   drawdown      "limit" (>= 15%) "elevated" (>= 10%) "fine"             *)
(*   lossStreak    "critical" (>= 6) "elevated" (>= 4) "fine"              *)
(* enoughSample is recent_trades >= min_recent_trades, shadowHealthy the   *)
(* conjunction of the three shadow thresholds, certified the evidence      *)
(* certification.                                                          *)
(***************************************************************************)
EXTENDS FiniteSets

Metrics == [enoughSample  : BOOLEAN,
            profitFactor  : {"low", "weak", "good"},
            drawdown      : {"limit", "elevated", "fine"},
            lossStreak    : {"critical", "elevated", "fine"},
            shadowHealthy : BOOLEAN,
            certified     : BOOLEAN]

HardReasons    == {"profit_factor_below_1", "drawdown_limit_reached",
                   "loss_streak_critical"}
CautionReasons == {"profit_factor_weak", "drawdown_elevated",
                   "loss_streak_elevated", "evidence_not_certified"}
ShadowConfirmed == "shadow_recovery_confirmed"

When(condition, reason) == IF condition THEN {reason} ELSE {}

\* The hard reasons before the shadow recovery is considered.
RawHardReasons(m) ==
    When(m.enoughSample /\ m.profitFactor = "low", "profit_factor_below_1")
    \cup When(m.enoughSample /\ m.drawdown = "limit", "drawdown_limit_reached")
    \cup When(m.lossStreak = "critical", "loss_streak_critical")

RawCautionReasons(m) ==
    When(m.enoughSample /\ m.profitFactor = "weak", "profit_factor_weak")
    \cup When(m.enoughSample /\ m.drawdown = "elevated", "drawdown_elevated")
    \cup When(m.lossStreak = "elevated", "loss_streak_elevated")

\* Healthy causal shadows lift a block, but only one the shadows can speak for.
ShadowRecovers(m) ==
    /\ RawHardReasons(m) # {}
    /\ RawHardReasons(m) \subseteq {"profit_factor_below_1", "loss_streak_critical"}
    /\ m.shadowHealthy

\* PerformanceDegradationGuard.evaluate
Evaluate(m) ==
    LET lifted  == ShadowRecovers(m)
        hard    == IF lifted THEN {} ELSE RawHardReasons(m)
        caution == (IF lifted
                    THEN RawCautionReasons(m)
                             \ {"profit_factor_weak", "loss_streak_elevated"}
                    ELSE RawCautionReasons(m))
                   \cup When(~m.certified, "evidence_not_certified")
    IN [state   |-> IF hard # {} THEN "BLOCKED"
                    ELSE IF caution # {} THEN "CAUTION" ELSE "NORMAL",
        newEntriesAllowed |-> hard = {},
        hard    |-> hard,
        caution |-> caution,
        recovery |-> When(lifted, ShadowConfirmed)]

\* What the rest of the system may be handed.
Reports == {Evaluate(m) : m \in Metrics}
=============================================================================
