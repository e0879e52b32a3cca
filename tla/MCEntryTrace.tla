---------------------------- MODULE MCEntryTrace ----------------------------
(* The evidence that requests and readings meet: healthy again, since the   *)
(* shadows recovered; neither healthy nor blocked; and blocked for one      *)
(* reason or another.                                                      *)
EXTENDS EntryTrace

Fine == [enoughSample |-> TRUE, profitFactor |-> "good", drawdown |-> "fine",
         lossStreak |-> "fine", shadowHealthy |-> TRUE, certified |-> TRUE]

MCEvidences ==
    {[Fine EXCEPT !.profitFactor = "low", !.certified = FALSE],
     [Fine EXCEPT !.drawdown = "elevated"],
     [Fine EXCEPT !.drawdown = "limit"],
     [Fine EXCEPT !.lossStreak = "critical", !.shadowHealthy = FALSE]}
=============================================================================
