--------------------------- MODULE ContextVerdict ---------------------------
(***************************************************************************)
(* What the closed shadow positions of a context say about an entry in it: *)
(* nexor_x/laboratory/calibration.py, nexor_x/pretrade_backtest/engine.py  *)
(* and the checks of nexor_x/risk/gate.py that read the calibration.       *)
(*                                                                         *)
(* A history is the sequence of the results of one context, oldest first.  *)
(* Results are whole numbers of R; the thresholds are in hundredths.  An   *)
(* edge is either in the bin of the history or it is another context.      *)
(***************************************************************************)
EXTENDS Integers, SequencesExt

CONSTANTS
    MinimumSamples,      \* of the calibration, the gate and the backtest
    MaximumSamples,      \* ContextBacktestPolicy.maximum_samples
    MinimumExpectedR,    \* hundredths of R
    MinimumProfitFactor, \* hundredths
    MaximumDrawdown,     \* ContextBacktestPolicy.maximum_drawdown_r, in R
    Folds,
    MinimumPassRatio     \* hundredths of the folds

ASSUME VerdictPolicyAssumption ==
    /\ {MinimumSamples, Folds, MinimumExpectedR, MinimumProfitFactor} \subseteq Nat \ {0}
    /\ {MaximumDrawdown, MinimumPassRatio} \subseteq Nat
    /\ MaximumSamples \in Nat /\ MaximumSamples >= MinimumSamples

----------------------------------------------------------------------------
\* The sum of s.
Total(s) == LET sum[n \in 0..Len(s)] == IF n = 0 THEN 0 ELSE sum[n - 1] + s[n]
            IN sum[Len(s)]

Profit(s) == Total([i \in DOMAIN s |-> IF s[i] > 0 THEN s[i] ELSE 0])

Loss(s) == Total([i \in DOMAIN s |-> IF s[i] < 0 THEN -s[i] ELSE 0])

\* _mean(s) >= p hundredths; the mean of nothing is 0.
MeanReaches(s, p) == IF s = <<>> THEN 0 >= p ELSE 100 * Total(s) >= p * Len(s)

\* _profit_factor(s) >= p hundredths: 999 without a loss, 0 without anything.
ProfitFactorReaches(s, p) ==
    IF Loss(s) > 0 THEN 100 * Profit(s) >= p * Loss(s)
    ELSE (IF Profit(s) > 0 THEN 99900 ELSE 0) >= p

\* _maximum_drawdown
Drawdown(s) ==
    FoldLeft(LAMBDA a, r :
                LET equity == a.equity + r
                    peak   == Max({a.peak, equity})
                IN [equity |-> equity, peak |-> peak, worst |-> Max({a.worst, peak - equity})],
             [equity |-> 0, peak |-> 0, worst |-> 0], s).worst

Newest(s, n) == SubSeq(s, Max({1, Len(s) - n + 1}), Len(s))

\* The last third, at most 100 and at least one.
Recent(s) == Newest(s, Max({1, Min({Len(s) \div 3, 100})}))

\* values[start:end] of _walk_forward_pass_ratio; the last fold takes the rest.
Fold(s, i) ==
    LET size == Max({1, Len(s) \div Folds})
    IN SubSeq(s, (i - 1) * size + 1,
              IF i = Folds THEN Len(s) ELSE Min({i * size, Len(s)}))

WalkForwardPasses(s) ==
    LET folds  == {i \in 1..Folds : Fold(s, i) # <<>>}
        passed == {i \in folds : /\ ProfitFactorReaches(Fold(s, i), MinimumProfitFactor)
                                 /\ MeanReaches(Fold(s, i), MinimumExpectedR)}
    IN IF Len(s) < MinimumSamples \/ folds = {}
       THEN 0 >= MinimumPassRatio
       ELSE 100 * Cardinality(passed) >= MinimumPassRatio * Cardinality(folds)

\* ContextBacktestEngine.evaluate().approved
BacktestApproves(history) ==
    LET s == Newest(history, MaximumSamples) IN
    /\ Len(s) >= MinimumSamples
    /\ ProfitFactorReaches(s, MinimumProfitFactor)
    /\ MeanReaches(s, MinimumExpectedR)
    /\ ProfitFactorReaches(Recent(s), 100)
    /\ MeanReaches(Recent(s), 0)
    /\ Drawdown(s) <= MaximumDrawdown
    /\ WalkForwardPasses(s)

\* The checks of the gate that read CalibrationEngine.estimate(): its profit
\* factor is None, which no threshold accepts, as long as nothing was lost.
CalibrationApproves(history) ==
    /\ Len(history) >= MinimumSamples
    /\ MeanReaches(history, MinimumExpectedR)
    /\ Loss(history) > 0
    /\ 100 * Profit(history) >= MinimumProfitFactor * Loss(history)

\* trading_readiness(): the gate and then the contextual backtest.
ContextApproves(history) == CalibrationApproves(history) /\ BacktestApproves(history)
=============================================================================
