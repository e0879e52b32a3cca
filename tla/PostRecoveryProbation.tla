----------------------- MODULE PostRecoveryProbation -----------------------
(***************************************************************************)
(* nexor_x/operations/post_recovery_probation.py:                          *)
(* PostRecoveryProbationController, and the exposure ramp of               *)
(* nexor_x/operations/probation_exposure_ramp.py that reads its report.    *)
(*                                                                         *)
(* After a recovery the controller admits at most MaxProbationEntries new  *)
(* entries, MinEntryInterval apart, until ProbationSeconds have passed in  *)
(* a healthy state.  Admission (evaluate) and bookkeeping                  *)
(* (record_successful_entry) are separate calls: the caller's entry runs   *)
(* between them.                                                           *)
(***************************************************************************)
EXTENDS Clock, PerformanceDegradation

CONSTANTS ProbationSeconds, MinEntryInterval, MaxProbationEntries

ASSUME ProbationPolicyAssumption ==
    /\ ProbationSeconds \in Nat
    /\ MinEntryInterval \in Nat
    /\ MaxProbationEntries \in Nat

VARIABLE probation         \* PostRecoveryProbationController._state

ProbationStates == [active          : BOOLEAN,
                    startedAt       : Stamps,
                    lastEntryAt     : Stamps,
                    admittedEntries : Nat]

NotOnProbation == [active |-> FALSE, startedAt |-> None,
                   lastEntryAt |-> None, admittedEntries |-> 0]

----------------------------------------------------------------------------
\* start()
StartProbation(t) == [active |-> TRUE, startedAt |-> t,
                      lastEntryAt |-> None, admittedEntries |-> 0]

\* _recovery_ready
RecoveryReady(d) ==
    \/ d.state = "NORMAL"
    \/ /\ d.state = "CAUTION"
       /\ ShadowConfirmed \in d.recovery
       /\ d.caution \subseteq {"evidence_not_certified"}

\* _can_finish, under evaluate()'s test of 'active'
Finishes(p, d, t) ==
    /\ p.active
    /\ ElapsedSince(p.startedAt, t) >= ProbationSeconds
    /\ RecoveryReady(d)

\* Faulty variant: the end of a probation only clears the flag.
FinishKeepsStamps(p, d, t) ==
    IF Finishes(p, d, t) THEN [p EXCEPT !.active = FALSE] ELSE p

\* The state evaluate() leaves.
ProbationState(p, d, t) == IF Finishes(p, d, t) THEN NotOnProbation ELSE p

\* Faulty variant: the interval is not enforced.
NoInterval(p, t) == TRUE

\* _entry_interval_elapsed
EntryIntervalElapsed(p, t) ==
    \/ ~IsStamp(p.lastEntryAt)
    \/ t - p.lastEntryAt >= MinEntryInterval

\* Faulty variant: the limit is not enforced.
AllowsWithoutLimit(p, d, t, reduceOnly) ==
    reduceOnly \/ (d.newEntriesAllowed /\ (p.active => RecoveryReady(d)))

\* The report's 'allowed', p being the state evaluate() leaves.
ProbationAllows(p, d, t, reduceOnly) ==
    \/ reduceOnly
    \/ /\ d.newEntriesAllowed
       /\ p.active => /\ RecoveryReady(d)
                      /\ p.admittedEntries < MaxProbationEntries
                      /\ EntryIntervalElapsed(p, t)

\* The report's 'degradation', handed on to the admission controller.
DegradationAfterProbation(p, d, t, reduceOnly) ==
    IF ProbationAllows(p, d, t, reduceOnly) THEN d
    ELSE [d EXCEPT !.state = "BLOCKED", !.newEntriesAllowed = FALSE]

\* record_successful_entry()
AfterSuccessfulEntry(p, t) ==
    IF p.active /\ p.admittedEntries < MaxProbationEntries
    THEN [p EXCEPT !.admittedEntries = @ + 1, !.lastEntryAt = t]
    ELSE p

\* ProbationExposureRamp.multiplier, in quarters of the normal exposure.
FullExposure == 4

\* Faulty variant: the ramp starts at the number of entries, zero.
RampFromZero(p, reduceOnly) == IF p.active THEN p.admittedEntries ELSE FullExposure

RampExposure(p, reduceOnly) ==
    IF reduceOnly \/ ~p.active THEN FullExposure
    ELSE CASE p.admittedEntries = 0 -> 1
           [] p.admittedEntries = 1 -> 2
           [] OTHER                 -> 3

----------------------------------------------------------------------------
ProbationTypeOK == ClockTypeOK /\ probation \in ProbationStates

\* The bookkeeping never runs past the limit, is empty outside a probation,
\* and its stamps are ordered: probation began, then an entry, then now.
ProbationIsCoherent ==
    IF probation.active
    THEN /\ probation.startedAt \in 0..now
         /\ probation.admittedEntries <= MaxProbationEntries
         /\ IF probation.admittedEntries = 0
            THEN probation.lastEntryAt = None
            ELSE probation.lastEntryAt \in probation.startedAt..now
    ELSE probation = NotOnProbation
=============================================================================
