-------------------------- MODULE MCEntryAdmission --------------------------
(***************************************************************************)
(* Small instances of EntryAdmission: one representative of each kind of   *)
(* reading, and clients that are interchangeable.                          *)
(***************************************************************************)
EXTENDS EntryAdmission, TLC

CONSTANTS c1, c2

MCClients == {c1, c2}

Good == [enoughSample |-> TRUE, profitFactor |-> "good", drawdown |-> "fine",
         lossStreak |-> "fine", shadowHealthy |-> FALSE, certified |-> TRUE]

\* NORMAL; BLOCKED; CAUTION that counts as recovered; CAUTION that does not.
MCReadings ==
    {Evaluate(Good),
     Evaluate([Good EXCEPT !.profitFactor = "low"]),
     Evaluate([Good EXCEPT !.profitFactor = "low", !.shadowHealthy = TRUE]),
     Evaluate([Good EXCEPT !.drawdown = "elevated"])}

\* The two readings that count as healthy are interchangeable; keep one.
MCThreeReadings == MCReadings \ {Evaluate(Good)}

Symmetry == Permutations(MCClients)
=============================================================================
