--------------------------- MODULE MarketAssessment --------------------------
(***************************************************************************)
(* From a snapshot of the market to the direction and the context of a     *)
(* trade: nexor_x/market/engine.py, nexor_x/evidence/engine.py and         *)
(* nexor_x/quant/brain.py.                                                 *)
(*                                                                         *)
(* change and range are hundredths of a per cent, which makes every        *)
(* threshold and weight a whole number of millionths; roundings are left   *)
(* out.  Volumes are positive, and the bounds 0.05 and 0.95 of the         *)
(* confidence are never reached.                                           *)
(***************************************************************************)
EXTENDS Integers

CONSTANT Snapshots   \* the snapshots the market may show

ASSUME SnapshotsAssumption == Snapshots \subseteq [change : Int, range : Nat, stale : BOOLEAN]

Regimes == {"COMPRESSION", "EXPANSION", "TREND_UP", "TREND_DOWN", "RANGE"}

Directions == {"LONG_BIAS", "SHORT_BIAS"}

Size(x) == IF x < 0 THEN -x ELSE x

AtMost(x, limit) == IF x < limit THEN x ELSE limit

----------------------------------------------------------------------------
(* MarketIntelligenceEngine.classify() *)

Narrow(m) == m.range < 35 /\ Size(m.change) < 20

Wide(m) == m.range >= 350

Regime(m) ==
    CASE Narrow(m)                         -> "COMPRESSION"
      [] Wide(m)                           -> "EXPANSION"
      [] ~Wide(m) /\ m.change >= 100       -> "TREND_UP"
      [] ~Wide(m) /\ m.change <= -100      -> "TREND_DOWN"
      [] OTHER                             -> "RANGE"

\* The sign of the direction: UP, DOWN or NEUTRAL.
Trend(m) == IF m.change > 15 THEN 1 ELSE IF m.change < -15 THEN -1 ELSE 0

\* In ten thousandths.
Confidence(m) ==
    5300 - (IF m.stale THEN 2500 ELSE 0)
         + CASE Regime(m) \in {"TREND_UP", "TREND_DOWN"}   -> AtMost(7 * Size(m.change), 3000)
             [] Regime(m) \in {"COMPRESSION", "EXPANSION"} -> AtMost(5 * m.range, 2500)
             [] Regime(m) = "RANGE"                        -> 1000

----------------------------------------------------------------------------
(* EvidenceEngine.evaluate(): the signed values of the evidences that may  *)
(* have a direction, in millionths.                                        *)

PriceMomentum(m) == Trend(m) * AtMost(Size(m.change), 500) * (IF m.stale THEN 700 ELSE 1700)

MarketRegime(m) == CASE Regime(m) = "TREND_UP"   -> 75 * Confidence(m)
                     [] Regime(m) = "TREND_DOWN" -> -75 * Confidence(m)
                     [] OTHER                    -> 0

\* The other two, volume and volatility, never have a direction: they only count.
Undirected == 2

----------------------------------------------------------------------------
(* QuantBrain.assess(): raw_edge is Balance over Weight.                   *)

Evidences == Undirected + 2   \* of the eight the brain would like

Balance(m) == PriceMomentum(m) + MarketRegime(m)

Weight(m) == Size(PriceMomentum(m)) + Size(MarketRegime(m))

Covered == 100 * Evidences >= 35 * 8

\* An edge of 0.30 with a confidence, which is edge times coverage, of 0.12.
Leans(balance, weight) ==
    100 * balance >= 30 * weight /\ 100 * Evidences * Size(balance) >= 12 * 8 * weight

Decision(m) ==
    IF ~Covered \/ Weight(m) = 0 THEN "INSUFFICIENT_DATA"
    ELSE IF Leans(Balance(m), Weight(m)) THEN "LONG_BIAS"
    ELSE IF Leans(-Balance(m), Weight(m)) THEN "SHORT_BIAS"
    ELSE "NO_EDGE"

\* What the kernel makes of each snapshot, computed once.
MarketState == [m \in Snapshots |-> [regime |-> Regime(m), fresh |-> ~m.stale]]

Assessed == [m \in Snapshots |-> Decision(m)]

Directional(m) == Assessed[m] \in Directions
=============================================================================
