------------------------- MODULE RecoveryHysteresis -------------------------
(***************************************************************************)
(* nexor_x/operations/recovery_hysteresis.py: RecoveryHysteresisController *)
(*                                                                         *)
(* A BLOCKED reading latches the controller.  It stays latched until       *)
(* RequiredHealthyChecks healthy readings, each at least                   *)
(* MinHealthyCheckInterval after the one counted before it, have been      *)
(* taken and CooldownSeconds have passed since the block.  The state is    *)
(* the controller's _state dictionary, which evaluate() saves by an atomic *)
(* rename before it returns: at the grain of whole calls the memory and    *)
(* the file are the same, and a restart (_load) changes nothing.           *)
(***************************************************************************)
EXTENDS Clock, PerformanceDegradation

CONSTANTS CooldownSeconds, RequiredHealthyChecks, MinHealthyCheckInterval

ASSUME HysteresisPolicyAssumption ==
    /\ CooldownSeconds \in Nat
    /\ RequiredHealthyChecks \in Nat \ {0}
    /\ MinHealthyCheckInterval \in Nat

VARIABLE recovery          \* RecoveryHysteresisController._state

RecoveryStates == [latched            : BOOLEAN,
                   blockedSince       : Stamps,
                   healthyChecks      : Nat,
                   lastHealthyCheckAt : Stamps]

Unlatched == [latched |-> FALSE, blockedSince |-> None,
              healthyChecks |-> 0, lastHealthyCheckAt |-> None]

----------------------------------------------------------------------------
\* healthy_for_recovery: NORMAL, or a CAUTION that only says that the shadows
\* recovered and that the evidence is not certified.
HealthyForRecovery(d) ==
    \/ d.state = "NORMAL"
    \/ /\ d.state = "CAUTION"
       /\ ShadowConfirmed \in d.recovery
       /\ d.caution \subseteq {"evidence_not_certified"}

\* Faulty variant: every healthy reading counts, however soon.
CountEveryCheck(s, t) == TRUE

\* _can_count_healthy_check
CanCountHealthyCheck(s, t) ==
    \/ ~IsStamp(s.lastHealthyCheckAt)
    \/ t - s.lastHealthyCheckAt >= MinHealthyCheckInterval

\* Faulty variant: the cooldown is forgotten.
ChecksAreEnough(s, t) == s.latched /\ s.healthyChecks >= RequiredHealthyChecks

\* _recovery_requirements_met
RecoveryRequirementsMet(s, t) ==
    /\ s.latched
    /\ s.healthyChecks >= RequiredHealthyChecks
    /\ ElapsedSince(s.blockedSince, t) >= CooldownSeconds

\* Faulty variant: an unhealthy reading takes one check back instead of all.
AfterReadingStepsBack(s, d, t) ==
    CASE d.state = "BLOCKED" -> [s EXCEPT !.latched = TRUE, !.blockedSince = t]
      [] d.state # "BLOCKED" /\ s.latched /\ ~HealthyForRecovery(d) ->
            [s EXCEPT !.healthyChecks = @ - 1]
      [] OTHER -> s

\* Faulty variant: a CAUTION reading leaves the progress alone.
AfterReadingKeepsProgress(s, d, t) ==
    CASE d.state = "BLOCKED" ->
            [latched |-> TRUE, healthyChecks |-> 0, lastHealthyCheckAt |-> None,
             blockedSince |-> IF s.latched THEN s.blockedSince ELSE t]
      [] s.latched /\ HealthyForRecovery(d) /\ CanCountHealthyCheck(s, t) ->
            [s EXCEPT !.healthyChecks = @ + 1, !.lastHealthyCheckAt = t]
      [] OTHER -> s

\* The state once reading d has been taken into account, before a release.
AfterReading(s, d, t) ==
    CASE d.state = "BLOCKED" ->
            [latched            |-> TRUE,
             blockedSince       |-> IF IsStamp(s.blockedSince)
                                    THEN s.blockedSince ELSE t,
             healthyChecks      |-> 0,
             lastHealthyCheckAt |-> None]
      [] d.state # "BLOCKED" /\ s.latched /\ ~HealthyForRecovery(d) ->
            [s EXCEPT !.healthyChecks = 0, !.lastHealthyCheckAt = None]
      [] d.state # "BLOCKED" /\ s.latched /\ HealthyForRecovery(d)
            /\ CanCountHealthyCheck(s, t) ->
            [s EXCEPT !.healthyChecks = @ + 1, !.lastHealthyCheckAt = t]
      [] OTHER -> s

Releases(s, d, t) ==
    /\ d.state # "BLOCKED"
    /\ RecoveryRequirementsMet(AfterReading(s, d, t), t)

\* Faulty variant: a release keeps the stamps of the block.
ReleaseKeepsStamps(s, d, t) ==
    IF Releases(s, d, t) THEN [s EXCEPT !.latched = FALSE]
                         ELSE AfterReading(s, d, t)

\* The state evaluate() leaves and saves.
HysteresisState(s, d, t) ==
    IF Releases(s, d, t) THEN Unlatched ELSE AfterReading(s, d, t)

\* The report's "transition".
HysteresisTransition(s, d, t) ==
    CASE Releases(s, d, t)                   -> "RECOVERED"
      [] d.state = "BLOCKED" /\ ~s.latched   -> "LATCHED"
      [] OTHER                               -> "none"

\* Faulty variant: the latch does not reach the report.
EffectiveIsRaw(s, d, t) == d

\* The report's "degradation": while latched, every reading reads BLOCKED.
EffectiveDegradation(s, d, t) ==
    IF HysteresisState(s, d, t).latched
    THEN [d EXCEPT !.state = "BLOCKED", !.newEntriesAllowed = FALSE,
                   !.hard  = @ \cup {"recovery_hysteresis_active"}]
    ELSE d

----------------------------------------------------------------------------
RecoveryInit == recovery = Unlatched

\* evaluate(degradation=d)
EvaluateHysteresis(d) == recovery' = HysteresisState(recovery, d, now)

HysteresisInit == ClockInit /\ RecoveryInit

HysteresisNext ==
    \/ /\ \E d \in Reports : EvaluateHysteresis(d)
       /\ UNCHANGED now
    \/ Advance /\ UNCHANGED recovery

HysteresisSpec == HysteresisInit /\ [][HysteresisNext]_<<now, recovery>>

----------------------------------------------------------------------------
\* Type correctness of the controller's saved state.
RecoveryTypeOK == ClockTypeOK /\ recovery \in RecoveryStates

\* An unlatched controller keeps nothing of an earlier block, and a latched
\* one knows when it was blocked (evaluate() lines 47-54 and 78-83): a release
\* can never be computed from the stamps of another episode.
LatchIsCoherent ==
    IF recovery.latched
    THEN recovery.blockedSince \in 0..now
    ELSE recovery = Unlatched

\* Counted checks are MinHealthyCheckInterval apart and follow the block: k of
\* them span k - 1 intervals.  Fast polling of evaluate() cannot fake progress.
ChecksAreSpaced ==
    recovery.healthyChecks > 0 =>
        /\ recovery.lastHealthyCheckAt \in recovery.blockedSince..now
        /\ recovery.lastHealthyCheckAt - recovery.blockedSince
              >= (recovery.healthyChecks - 1) * MinHealthyCheckInterval

\* The inductive invariant of the controller.
HysteresisInv == RecoveryTypeOK /\ LatchIsCoherent /\ ChecksAreSpaced
=============================================================================
