-------------------------- MODULE RecoveryReadings --------------------------
(***************************************************************************)
(* The recovery controller beside a history of the readings it was given,  *)
(* to state what a release says about those readings.                      *)
(***************************************************************************)
EXTENDS RecoveryHysteresis

\* The first reading of the current unbroken run of healthy readings.  It does
\* not influence the controller.
VARIABLE healthySince

readingsVars == <<now, recovery, healthySince>>

ReadingsInit == /\ HysteresisInit
                /\ healthySince = None

\* evaluate(degradation=d), remembered.
TakeReading(d) ==
    /\ EvaluateHysteresis(d)
    /\ healthySince' = CASE ~HealthyForRecovery(d) -> None
                         [] HealthyForRecovery(d) /\ IsStamp(healthySince)
                                                   -> healthySince
                         [] OTHER                  -> now
    /\ UNCHANGED now

LetTimePass == Advance /\ UNCHANGED <<recovery, healthySince>>

ReadingsNext == (\E d \in Reports : TakeReading(d)) \/ LetTimePass

ReadingsSpec == ReadingsInit /\ [][ReadingsNext]_readingsVars

----------------------------------------------------------------------------
\* Type correctness of the state and of the history.
ReadingsTypeOK == /\ RecoveryTypeOK
                  /\ healthySince \in Stamps

\* Every counted check belongs to the current unbroken run of healthy
\* readings, which began after the block: k counted checks mean that nothing
\* but healthy readings was seen for k - 1 intervals.
ProgressIsEarned ==
    recovery.healthyChecks > 0 =>
        /\ recovery.latched
        /\ healthySince \in recovery.blockedSince..recovery.lastHealthyCheckAt
        /\ recovery.lastHealthyCheckAt - healthySince
              >= (recovery.healthyChecks - 1) * MinHealthyCheckInterval

\* The block is released only after the whole cooldown since it was latched
\* and after a run of readings that was healthy throughout and lasted at
\* least RequiredHealthyChecks - 1 intervals; never by an unhealthy reading
\* (recovery_hysteresis.py lines 77-84).
ReleaseIsEarned ==
    [][recovery.latched /\ ~recovery'.latched =>
          /\ now - recovery.blockedSince >= CooldownSeconds
          /\ IsStamp(healthySince')
          /\ now - healthySince'
                >= (RequiredHealthyChecks - 1) * MinHealthyCheckInterval
      ]_readingsVars
=============================================================================
