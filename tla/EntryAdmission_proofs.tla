----------------------- MODULE EntryAdmission_proofs -----------------------
(***************************************************************************)
(* Proofs about the composition of the guards, for every policy, every set *)
(* of clients and every bound.  First what one evaluation of the chain of  *)
(* guards does, then one invariant per guard, then their combination.      *)
(***************************************************************************)
EXTENDS EntryAdmission, RecoveryHysteresis_proofs

----------------------------------------------------------------------------
(***************************************************************************)
(* One evaluation.                                                         *)
(***************************************************************************)

\* A report allows new entries exactly when it does not say BLOCKED.
LEMMA ReportShape ==
  ASSUME NEW d \in Reports
  PROVE  /\ d = [state |-> d.state, newEntriesAllowed |-> d.newEntriesAllowed,
                 hard |-> d.hard, caution |-> d.caution, recovery |-> d.recovery]
         /\ d.newEntriesAllowed <=> d.state # "BLOCKED"
  <1>1. PICK m \in Metrics : d = Evaluate(m)
    BY DEF Reports
  <1> DEFINE lifted  == ShadowRecovers(m)
             hard    == IF lifted THEN {} ELSE RawHardReasons(m)
             caution == (IF lifted
                         THEN RawCautionReasons(m)
                                  \ {"profit_factor_weak", "loss_streak_elevated"}
                         ELSE RawCautionReasons(m))
                        \cup When(~m.certified, "evidence_not_certified")
             recovers == When(lifted, ShadowConfirmed)
  <1>2. d = [state |-> IF hard # {} THEN "BLOCKED"
                       ELSE IF caution # {} THEN "CAUTION" ELSE "NORMAL",
             newEntriesAllowed |-> hard = {},
             hard |-> hard, caution |-> caution, recovery |-> recovers]
    BY <1>1, Zenon DEF Evaluate
  <1> HIDE DEF hard, caution, recovers
  <1>3. CASE hard = {}
    <2>1. d.state # "BLOCKED" /\ d.newEntriesAllowed
      BY <1>2, <1>3
    <2> QED
      BY <1>2, <2>1
  <1>4. CASE hard # {}
    <2>1. d.state = "BLOCKED" /\ ~d.newEntriesAllowed
      BY <1>2, <1>4
    <2> QED
      BY <1>2, <2>1
  <1> QED
    BY <1>3, <1>4

\* A latched controller lets no report through that allows new entries.
LEMMA LatchedReportsBlock ==
  ASSUME NEW s, NEW d \in Reports, NEW t \in Nat, Sound(s, t),
         EffectiveDegradation(s, d, t).newEntriesAllowed
  PROVE  ~HysteresisState(s, d, t).latched /\ d.state # "BLOCKED"
  <1>1. ~HysteresisState(s, d, t).latched
    <2> SUFFICES ASSUME HysteresisState(s, d, t).latched PROVE FALSE
      OBVIOUS
    <2>1. EffectiveDegradation(s, d, t)
            = [d EXCEPT !.state = "BLOCKED", !.newEntriesAllowed = FALSE,
                        !.hard  = @ \cup {"recovery_hysteresis_active"}]
      BY DEF EffectiveDegradation
    <2> QED
      BY <2>1, ReportShape
  <1>2. d.state = "BLOCKED" => HysteresisState(s, d, t).latched
    BY AfterReadingIsSound DEF HysteresisState, Releases
  <1> QED
    BY <1>1, <1>2

\* Evaluating again the reading that left the controller open changes nothing.
LEMMA SecondEvaluation ==
  ASSUME NEW s, NEW d \in Reports, NEW t \in Nat, Sound(s, t),
         ~HysteresisState(s, d, t).latched, d.state # "BLOCKED"
  PROVE  HysteresisState(HysteresisState(s, d, t), d, t) = HysteresisState(s, d, t)
  <1>1. HysteresisState(s, d, t) = Unlatched
    BY HysteresisStateIsSound DEF Sound
  <1>2. ~Unlatched.latched
    BY DEF Unlatched
  <1>3. AfterReading(Unlatched, d, t) = Unlatched
    BY <1>2 DEF AfterReading
  <1>4. ~Releases(Unlatched, d, t)
    BY <1>2, <1>3 DEF Releases, RecoveryRequirementsMet
  <1> QED
    BY <1>1, <1>3, <1>4 DEF HysteresisState

\* A probation state as ProbationIsCoherent describes it, at time t.
ProbationSound(p, t) ==
    /\ p \in ProbationStates
    /\ IF p.active
       THEN /\ p.startedAt \in 0..t
            /\ p.admittedEntries <= MaxProbationEntries
            /\ IF p.admittedEntries = 0
               THEN p.lastEntryAt = None
               ELSE p.lastEntryAt \in p.startedAt..t
       ELSE p = NotOnProbation

LEMMA ProbationOperations ==
  ASSUME NEW p, NEW d, NEW t \in Nat, ProbationSound(p, t)
  PROVE  /\ ProbationSound(StartProbation(t), t)
         /\ ProbationSound(ProbationState(p, d, t), t)
         /\ ProbationSound(AfterSuccessfulEntry(p, t), t)
  <1>1. ProbationSound(StartProbation(t), t)
    BY ProbationPolicyAssumption
       DEF ProbationSound, StartProbation, ProbationStates, Stamps, None
  <1>2. ProbationSound(NotOnProbation, t)
    BY DEF ProbationSound, NotOnProbation, ProbationStates, Stamps, None
  <1>3. ProbationSound(ProbationState(p, d, t), t)
    BY <1>2 DEF ProbationState
  <1>4. CASE p.active /\ p.admittedEntries < MaxProbationEntries
    <2>1. AfterSuccessfulEntry(p, t)
            = [active |-> p.active, startedAt |-> p.startedAt, lastEntryAt |-> t,
               admittedEntries |-> p.admittedEntries + 1]
      BY <1>4 DEF AfterSuccessfulEntry, ProbationSound, ProbationStates
    <2>2. ProbationSound(AfterSuccessfulEntry(p, t), t)
      BY <1>4, <2>1, ProbationPolicyAssumption
         DEF ProbationSound, ProbationStates, Stamps, None
    <2> QED
      BY <1>1, <1>3, <2>2
  <1>5. CASE ~(p.active /\ p.admittedEntries < MaxProbationEntries)
    BY <1>1, <1>3, <1>5 DEF AfterSuccessfulEntry
  <1> QED
    BY <1>4, <1>5

LEMMA ProbationLater ==
  ASSUME NEW p, NEW t \in Nat, ProbationSound(p, t)
  PROVE  ProbationSound(p, t + 1)
  BY DEF ProbationSound, ProbationStates, Stamps, None

\* The chain of guards evaluated once.
LEMMA AdmissionStatusFacts ==
  ASSUME now \in Nat, Sound(recovery, now), ProbationSound(probation, now),
         NEW d \in Reports, NEW reduceOnly \in BOOLEAN
  PROVE  LET v == AdmissionStatus(d, reduceOnly)
         IN /\ v.recovery = HysteresisState(recovery, d, now)
            /\ ProbationSound(v.probation, now)
            /\ v.exposure \in 1..FullExposure
            /\ ~reduceOnly /\ v.allowed => ~v.recovery.latched /\ d.state # "BLOCKED"
  <1> DEFINE effective == EffectiveDegradation(recovery, d, now)
             started   == IF HysteresisTransition(recovery, d, now) = "RECOVERED"
                          THEN StartProbation(now) ELSE probation
             evaluated == ProbationState(started, effective, now)
  <1>1. ProbationSound(evaluated, now)
    BY ProbationOperations
  <1>2. RampExposure(evaluated, reduceOnly) \in 1..FullExposure
    BY DEF RampExposure, FullExposure
  <1>3. ASSUME ~reduceOnly,
               AdmissionAllows(
                   DegradationAfterProbation(evaluated, effective, now, reduceOnly),
                   reduceOnly)
        PROVE  effective.newEntriesAllowed
    <2>1. CASE ProbationAllows(evaluated, effective, now, reduceOnly)
      BY <1>3, <2>1 DEF ProbationAllows
    <2>2. CASE ~ProbationAllows(evaluated, effective, now, reduceOnly)
      <3>1. "newEntriesAllowed" \in DOMAIN effective
        BY ReportShape DEF EffectiveDegradation
      <3> QED
        BY <1>3, <2>2, <3>1 DEF AdmissionAllows, DegradationAfterProbation
    <2> QED
      BY <2>1, <2>2
  <1>4. effective.newEntriesAllowed
           => ~HysteresisState(recovery, d, now).latched /\ d.state # "BLOCKED"
    BY LatchedReportsBlock
  <1> QED
    BY <1>1, <1>2, <1>3, <1>4 DEF AdmissionStatus

\* The two evaluations of require_entry_admission() are one step of the
\* recovery controller, and an admitted entry leaves it open.
LEMMA RequireAdmissionFacts ==
  ASSUME now \in Nat, Sound(recovery, now), ProbationSound(probation, now),
         NEW d \in Reports
  PROVE  LET v == RequireAdmission(d)
         IN /\ v.recovery = HysteresisState(recovery, d, now)
            /\ ProbationSound(v.probation, now)
            /\ v.exposure \in 1..FullExposure
            /\ v.allowed => ~v.recovery.latched
  <1> DEFINE first == AdmissionStatus(d, FALSE)
  <1>1. /\ first.recovery = HysteresisState(recovery, d, now)
        /\ ProbationSound(first.probation, now)
        /\ first.exposure \in 1..FullExposure
        /\ first.allowed => ~first.recovery.latched /\ d.state # "BLOCKED"
    BY AdmissionStatusFacts
  <1> HIDE DEF first
  <1>2. CASE ~first.allowed
    <2>1. RequireAdmission(d) = first
      BY <1>2 DEF RequireAdmission, first
    <2> QED
      BY <2>1, <1>1, <1>2
  <1>3. CASE first.allowed
    <2> DEFINE effective == EffectiveDegradation(first.recovery, d, now)
               evaluated == ProbationState(first.probation, effective, now)
    <2>1. RequireAdmission(d) = SecondLook(first, d)
      BY <1>3 DEF RequireAdmission, first
    <2>2. HysteresisState(first.recovery, d, now) = first.recovery
      BY <1>1, <1>3, SecondEvaluation
    <2>3. ProbationSound(evaluated, now)
      BY <1>1, ProbationOperations
    <2>4. RampExposure(evaluated, FALSE) \in 1..FullExposure
      BY DEF RampExposure, FullExposure
    <2>5. /\ SecondLook(first, d).recovery = first.recovery
          /\ SecondLook(first, d).probation = evaluated
          /\ SecondLook(first, d).exposure = RampExposure(evaluated, FALSE)
      BY <2>2 DEF SecondLook
    <2> HIDE DEF evaluated, effective
    <2> QED
      BY <2>1, <2>3, <2>4, <2>5, <1>1, <1>3
  <1> QED
    BY <1>2, <1>3

----------------------------------------------------------------------------
(***************************************************************************)
(* The recovery controller and the probation, under every interleaving.    *)
(***************************************************************************)
ControllersInv == /\ now \in Nat
                  /\ Sound(recovery, now)
                  /\ ProbationSound(probation, now)

LEMMA StepIsHysteresisStep ==
  ASSUME ControllersInv, [Next]_vars
  PROVE  [HysteresisNext]_<<now, recovery>>
  <1> USE DEF ControllersInv
  <1>1. ASSUME NEW d \in Reports, recovery' = HysteresisState(recovery, d, now),
               now' = now
        PROVE  HysteresisNext
    BY <1>1 DEF HysteresisNext, EvaluateHysteresis
  <1>2. ASSUME NEW c \in Clients, NEW kind \in Kinds, NEW d \in Readings,
               BeginEntry(c, kind, d)
        PROVE  HysteresisNext
    BY <1>1, <1>2, RequireAdmissionFacts, ClientsAssumption DEF BeginEntry
  <1>3. ASSUME NEW d \in Readings, NEW reduceOnly \in BOOLEAN,
               QueryAdmission(d, reduceOnly)
        PROVE  HysteresisNext
    BY <1>1, <1>3, AdmissionStatusFacts, ClientsAssumption DEF QueryAdmission
  <1>4. ASSUME NEW d \in Readings, QueryHysteresis(d)
        PROVE  HysteresisNext
    BY <1>4, ClientsAssumption DEF QueryHysteresis, HysteresisNext
  <1>5. ASSUME NEW d \in Readings, CrashDuringAdmission(d)
        PROVE  [HysteresisNext]_<<now, recovery>>
    BY <1>1, <1>5, RequireAdmissionFacts, ClientsAssumption
       DEF CrashDuringAdmission, EvaluateHysteresis
  <1>6. ASSUME NEW c \in Clients,
               \/ EntryFilled(c) \/ EntryReturnedEmpty(c)
               \/ EntryFailed(c) \/ CrashDuringSettlement(c)
        PROVE  UNCHANGED <<now, recovery>>
    BY <1>6 DEF EntryFilled, EntryReturnedEmpty, EntryFailed, CrashDuringSettlement
  <1>7. ASSUME QueryReservation \/ Crash
        PROVE  UNCHANGED <<now, recovery>>
    BY <1>7 DEF QueryReservation, Crash, guardVars
  <1>8. ASSUME TimePasses
        PROVE  HysteresisNext
    BY <1>8 DEF TimePasses, guardVars, HysteresisNext
  <1>9. ASSUME UNCHANGED vars
        PROVE  UNCHANGED <<now, recovery>>
    BY <1>9 DEF vars, guardVars
  <1> QED
    BY <1>2, <1>3, <1>4, <1>5, <1>6, <1>7, <1>8, <1>9 DEF Next

LEMMA ProbationStep ==
  ASSUME ControllersInv, [Next]_vars
  PROVE  ProbationSound(probation', now')
  <1> USE DEF ControllersInv
  <1>1. ASSUME NEW c \in Clients, NEW kind \in Kinds, NEW d \in Readings,
               BeginEntry(c, kind, d)
        PROVE  ProbationSound(probation', now')
    BY <1>1, RequireAdmissionFacts, ClientsAssumption DEF BeginEntry
  <1>2. ASSUME NEW d \in Readings, NEW reduceOnly \in BOOLEAN,
               QueryAdmission(d, reduceOnly)
        PROVE  ProbationSound(probation', now')
    BY <1>2, AdmissionStatusFacts, ClientsAssumption DEF QueryAdmission
  <1>3. ASSUME NEW d \in Readings, CrashDuringAdmission(d)
        PROVE  ProbationSound(probation', now')
    BY <1>3, RequireAdmissionFacts, ClientsAssumption DEF CrashDuringAdmission
  <1>4. ASSUME NEW c \in Clients, EntryFilled(c) \/ EntryReturnedEmpty(c)
        PROVE  ProbationSound(probation', now')
    BY <1>4, ProbationOperations DEF EntryFilled, EntryReturnedEmpty
  <1>5. ASSUME UNCHANGED <<now, probation>>
        PROVE  ProbationSound(probation', now')
    BY <1>5
  <1>6. ASSUME NEW c \in Clients, EntryFailed(c) \/ CrashDuringSettlement(c)
        PROVE  UNCHANGED <<now, probation>>
    BY <1>6 DEF EntryFailed, CrashDuringSettlement
  <1>7. ASSUME \/ \E d \in Readings : QueryHysteresis(d)
               \/ QueryReservation \/ Crash \/ UNCHANGED vars
        PROVE  UNCHANGED <<now, probation>>
    BY <1>7 DEF QueryHysteresis, QueryReservation, Crash, vars, guardVars
  <1>8. ASSUME TimePasses
        PROVE  ProbationSound(probation', now')
    BY <1>8, ProbationLater DEF TimePasses, Advance, guardVars
  <1> QED
    BY <1>1, <1>2, <1>3, <1>4, <1>5, <1>6, <1>7, <1>8 DEF Next

LEMMA ControllersStep ==
  ASSUME ControllersInv, [Next]_vars
  PROVE  ControllersInv'
  <1>1. HysteresisInv
    BY SoundIsInv DEF ControllersInv
  <1>2. HysteresisInv'
    BY <1>1, StepIsHysteresisStep, HysteresisStep
  <1>3. now' \in Nat /\ Sound(recovery', now')
    BY <1>2 DEF HysteresisInv, RecoveryTypeOK, ClockTypeOK, LatchIsCoherent,
                ChecksAreSpaced, Sound
  <1> QED
    BY <1>3, ProbationStep DEF ControllersInv

LEMMA ControllersInvariant == Spec => []ControllersInv
  <1>1. Init => ControllersInv
    BY UnlatchedIsSound
       DEF Init, HysteresisInit, RecoveryInit, ClockInit, ControllersInv,
           ProbationSound, NotOnProbation, ProbationStates, Stamps, None
  <1>2. ControllersInv /\ [Next]_vars => ControllersInv'
    BY ControllersStep
  <1> QED
    BY <1>1, <1>2, PTL DEF Spec

\* The composition implements the recovery controller's own specification:
\* however requests, queries and crashes between the separate saves interleave,
\* the controller only ever takes the steps of evaluate().
THEOREM CompositionImplementsHysteresis == Spec => ImplementsHysteresis
  <1>1. Init => HysteresisInit
    BY DEF Init
  <1>2. ControllersInv /\ [Next]_vars => [HysteresisNext]_<<now, recovery>>
    BY StepIsHysteresisStep
  <1> QED
    BY <1>1, <1>2, ControllersInvariant, PTL
       DEF Spec, ImplementsHysteresis, HysteresisSpec

----------------------------------------------------------------------------
(***************************************************************************)
(* The reservation and the requests in flight.                             *)
(***************************************************************************)

\* The reservation is that of every request in flight that its TTL still
\* covers; ids are never shared.  So at most one request is covered.
Covered(c, t) == IsInFlight(c) /\ t < task[c].startedAt + ReservationTTL

ReservationInv ==
    /\ now \in Nat
    /\ issued \in Nat
    /\ task \in [Clients -> {Idle} \cup InFlight]
    /\ reservation \in Reservations
    /\ ReservationIsCoherent
    /\ IsHeld(reservation) => reservation.id < issued
    /\ \A c \in Clients : IsInFlight(c) =>
          /\ task[c].id < issued
          /\ task[c].startedAt <= now
    /\ \A c \in Clients : Covered(c, now) =>
          /\ reservation.id = task[c].id
          /\ reservation.expiresAt = task[c].startedAt + ReservationTTL
    /\ \A c, e \in Clients : c # e /\ IsInFlight(c) /\ IsInFlight(e)
          => task[c].id # task[e].id

LEMMA TaskShape ==
  ASSUME ReservationInv, NEW c \in Clients, IsInFlight(c)
  PROVE  /\ task[c] \in InFlight
         /\ task[c].id \in Nat
         /\ task[c].startedAt \in Nat
         /\ task[c].startedAt <= now
         /\ task[c].id < issued
  <1>1. task[c] \in {Idle} \cup InFlight
    BY DEF ReservationInv
  <1>2. task[c] # Idle
    BY DEF IsInFlight, Idle
  <1> QED
    BY <1>1, <1>2 DEF ReservationInv, InFlight

\* Where reserve() would succeed, no request in flight is covered any more.
LEMMA FreeMeansUncovered ==
  ASSUME ReservationInv, CanReserve(reservation, now), NEW c \in Clients
  PROVE  ~Covered(c, now)
  <1> SUFFICES ASSUME Covered(c, now) PROVE FALSE
    OBVIOUS
  <1>1. /\ reservation.id = task[c].id
        /\ reservation.expiresAt = task[c].startedAt + ReservationTTL
    BY DEF ReservationInv
  <1>2. task[c].id \in Nat /\ task[c].startedAt \in Nat /\ now \in Nat
    BY TaskShape DEF Covered, ReservationInv
  <1>3. ~(now >= reservation.expiresAt)
    BY <1>1, <1>2, ReservationPolicyAssumption DEF Covered
  <1>4. Unexpired(reservation, now) = reservation
    BY <1>3 DEF Unexpired
  <1> QED
    BY <1>1, <1>2, <1>4 DEF CanReserve, IsHeld, None

\* The effect on the reservation of a request leaving its transaction.
Leaves(c) == /\ IsInFlight(c)
             /\ reservation' = Settle(reservation, task[c].id, now)
             /\ task' = [task EXCEPT ![c] = Idle]
             /\ UNCHANGED <<now, issued>>

LEMMA UnexpiredIsCoherent ==
  ASSUME ReservationInv
  PROVE  /\ Unexpired(reservation, now) \in {NoReservation, reservation}
         /\ \A c \in Clients : Covered(c, now) => Unexpired(reservation, now) = reservation
  <1>1. Unexpired(reservation, now) \in {NoReservation, reservation}
    BY DEF Unexpired
  <1>2. ASSUME NEW c \in Clients, Covered(c, now)
        PROVE  Unexpired(reservation, now) = reservation
    <2>1. reservation.expiresAt = task[c].startedAt + ReservationTTL
      BY <1>2 DEF ReservationInv
    <2>2. task[c].startedAt \in Nat /\ now \in Nat
      BY <1>2, TaskShape DEF Covered, ReservationInv
    <2>3. ~(now >= reservation.expiresAt)
      BY <2>1, <2>2, <1>2, ReservationPolicyAssumption DEF Covered
    <2> QED
      BY <2>3 DEF Unexpired
  <1> QED
    BY <1>1, <1>2

LEMMA NoReservationShape ==
  /\ NoReservation \in Reservations
  /\ ~IsHeld(NoReservation)
  BY DEF NoReservation, Reservations, IsHeld, Stamps, None

LEMMA LeavingKeepsReservationInv ==
  ASSUME ReservationInv, NEW c \in Clients, Leaves(c)
  PROVE  ReservationInv'
  <1>1. /\ now' = now /\ issued' = issued
        /\ now \in Nat /\ issued \in Nat
        /\ task \in [Clients -> {Idle} \cup InFlight]
        /\ task' = [task EXCEPT ![c] = Idle]
    BY DEF Leaves, ReservationInv
  <1>2. task' \in [Clients -> {Idle} \cup InFlight]
    BY <1>1
  <1>3. task'[c] = Idle /\ \A e \in Clients : e # c => task'[e] = task[e]
    BY <1>1
  <1>4. ~IsInFlight(c)' /\ \A e \in Clients : e # c => (IsInFlight(e)' <=> IsInFlight(e))
    BY <1>3 DEF IsInFlight, Idle
  <1>5. reservation' \in {NoReservation, reservation}
    BY UnexpiredIsCoherent DEF Leaves, Settle
  <1>6. /\ reservation' \in Reservations
        /\ ReservationIsCoherent'
        /\ (IsHeld(reservation) => reservation.id < issued)'
    BY <1>1, <1>5, NoReservationShape DEF ReservationInv, ReservationIsCoherent
  <1>7. ASSUME NEW e \in Clients, Covered(e, now)'
        PROVE  /\ reservation'.id = task'[e].id
               /\ reservation'.expiresAt = task'[e].startedAt + ReservationTTL
    <2>1. e # c /\ task'[e] = task[e] /\ Covered(e, now)
      BY <1>1, <1>3, <1>4, <1>7 DEF Covered
    <2>2. Unexpired(reservation, now) = reservation
      BY <2>1, UnexpiredIsCoherent
    <2>3. reservation.id = task[e].id /\ task[e].id # task[c].id
      BY <2>1 DEF ReservationInv, Covered, Leaves
    <2>4. reservation' = reservation
      BY <2>2, <2>3 DEF Leaves, Settle
    <2> QED
      BY <2>1, <2>4 DEF ReservationInv
  <1>8. \A e \in Clients : IsInFlight(e)' => task'[e].id < issued' /\ task'[e].startedAt <= now'
    BY <1>1, <1>3, <1>4 DEF ReservationInv
  <1>9. \A e, f \in Clients : e # f /\ IsInFlight(e)' /\ IsInFlight(f)'
           => task'[e].id # task'[f].id
    BY <1>3, <1>4 DEF ReservationInv
  <1> QED
    BY <1>1, <1>2, <1>6, <1>7, <1>8, <1>9 DEF ReservationInv

\* A request that is admitted becomes the one that is covered; one that is
\* refused leaves the reservation free, and nobody else was covered.
LEMMA BeginningKeepsReservationInv ==
  ASSUME ReservationInv, ControllersInv,
         NEW c \in Clients, NEW kind \in Kinds, NEW d \in Readings,
         BeginEntry(c, kind, d)
  PROVE  ReservationInv'
  <1> DEFINE verdict == RequireAdmission(d)
             begun == [phase |-> "inFlight", kind |-> kind, id |-> issued,
                       exposure |-> verdict.exposure, startedAt |-> now]
  <1>1. /\ now' = now /\ issued' = issued + 1
        /\ now \in Nat /\ issued \in Nat
        /\ ~IsInFlight(c)
        /\ CanReserve(reservation, now)
        /\ task \in [Clients -> {Idle} \cup InFlight]
    BY DEF BeginEntry, MayReserve, ReservationInv
  <1>2. \A e \in Clients : ~Covered(e, now)
    BY <1>1, FreeMeansUncovered
  <1>3. \A e \in Clients : IsInFlight(e) => task[e].id < issued /\ task[e].id \in Nat
                                          /\ task[e].startedAt <= now
    BY TaskShape
  <1>4. CASE verdict.allowed
    <2>1. /\ reservation' = Reserve(issued, now)
          /\ task' = [task EXCEPT ![c] = begun]
      BY <1>4 DEF BeginEntry
    <2>2. begun \in InFlight
      <3>1. verdict.exposure \in 1..FullExposure
        BY RequireAdmissionFacts, ClientsAssumption DEF ControllersInv
      <3> HIDE DEF verdict
      <3> QED
        BY <3>1, <1>1 DEF InFlight
    <2>3. /\ begun.phase = "inFlight" /\ begun.id = issued /\ begun.startedAt = now
      OBVIOUS
    <2> HIDE DEF begun
    <2>4. /\ task' \in [Clients -> {Idle} \cup InFlight]
          /\ task'[c] = begun
          /\ \A e \in Clients : e # c => task'[e] = task[e]
      BY <2>1, <2>2, <1>1
    <2>5. \A e \in Clients : e # c => (IsInFlight(e)' <=> IsInFlight(e))
      BY <2>4 DEF IsInFlight
    <2>6. /\ reservation' = [id |-> issued, expiresAt |-> now + ReservationTTL]
          /\ reservation' \in Reservations
          /\ ReservationIsCoherent'
          /\ (IsHeld(reservation) => reservation.id < issued)'
      BY <2>1, <1>1, ReservationPolicyAssumption
         DEF Reserve, Reservations, Stamps, ReservationIsCoherent, IsHeld, None
    <2>7. ASSUME NEW e \in Clients, IsInFlight(e)'
          PROVE  task'[e].id < issued' /\ task'[e].startedAt <= now'
      <3>1. CASE e = c
        BY <3>1, <2>3, <2>4, <1>1
      <3>2. CASE e # c
        BY <3>2, <2>4, <2>5, <2>7, <1>1, <1>3
      <3> QED
        BY <3>1, <3>2
    <2>8. ASSUME NEW e \in Clients, Covered(e, now)'
          PROVE  /\ reservation'.id = task'[e].id
                 /\ reservation'.expiresAt = task'[e].startedAt + ReservationTTL
      <3>1. e = c
        BY <2>4, <2>5, <2>8, <1>1, <1>2 DEF Covered
      <3> QED
        BY <3>1, <2>3, <2>4, <2>6
    <2>9. ASSUME NEW e \in Clients, NEW f \in Clients, e # f,
                 IsInFlight(e)', IsInFlight(f)'
          PROVE  task'[e].id # task'[f].id
      <3>1. CASE e # c /\ f # c
        BY <3>1, <2>4, <2>5, <2>9 DEF ReservationInv
      <3>2. CASE e = c \/ f = c
        BY <3>2, <2>3, <2>4, <2>5, <2>9, <1>1, <1>3
      <3> QED
        BY <3>1, <3>2
    <2> QED
      BY <1>1, <2>4, <2>6, <2>7, <2>8, <2>9 DEF ReservationInv
  <1>5. CASE ~verdict.allowed
    <2>1. reservation' = NoReservation /\ task' = task
      BY <1>5 DEF BeginEntry
    <2>2. /\ reservation' \in Reservations
          /\ ReservationIsCoherent'
          /\ (IsHeld(reservation) => reservation.id < issued)'
      BY <2>1, NoReservationShape DEF ReservationIsCoherent
    <2>3. \A e \in Clients : IsInFlight(e)' <=> IsInFlight(e)
      BY <2>1 DEF IsInFlight
    <2>4. \A e \in Clients : ~Covered(e, now)'
      BY <1>1, <1>2, <2>1, <2>3 DEF Covered
    <2>5. \A e \in Clients : IsInFlight(e)'
             => task'[e].id < issued' /\ task'[e].startedAt <= now'
      BY <1>1, <1>3, <2>1, <2>3
    <2>6. \A e, f \in Clients : e # f /\ IsInFlight(e)' /\ IsInFlight(f)'
             => task'[e].id # task'[f].id
      BY <2>1, <2>3 DEF ReservationInv
    <2> QED
      BY <1>1, <2>1, <2>2, <2>4, <2>5, <2>6 DEF ReservationInv
  <1> QED
    BY <1>4, <1>5

\* A crash, after which no request is in flight.
LEMMA DyingKeepsReservationInv ==
  ASSUME ReservationInv, now' = now, issued' \in {issued, issued + 1},
         task' = [c \in Clients |-> Idle],
         \/ reservation' \in {NoReservation, reservation}
         \/ /\ issued' = issued + 1
            /\ reservation' = Reserve(issued, now)
  PROVE  ReservationInv'
  <1>1. now \in Nat /\ issued \in Nat /\ issued' \in Nat
    BY DEF ReservationInv
  <1>2. \A c \in Clients : ~IsInFlight(c)'
    BY DEF IsInFlight, Idle
  <1>3. task' \in [Clients -> {Idle} \cup InFlight]
    OBVIOUS
  <1>4. /\ reservation' \in Reservations
        /\ ReservationIsCoherent'
        /\ (IsHeld(reservation) => reservation.id < issued)'
    <2>1. CASE reservation' = NoReservation
      BY <2>1, NoReservationShape DEF ReservationIsCoherent
    <2>2. CASE reservation' = reservation
      <3>1. IsHeld(reservation) => reservation.id < issued /\ reservation.id \in Nat
        BY DEF ReservationInv, IsHeld, Reservations, Stamps
      <3> QED
        BY <2>2, <3>1, <1>1 DEF ReservationInv, ReservationIsCoherent, IsHeld
    <2>3. CASE issued' = issued + 1 /\ reservation' = Reserve(issued, now)
      BY <2>3, <1>1, ReservationPolicyAssumption
         DEF Reserve, Reservations, Stamps, ReservationIsCoherent, IsHeld, None
    <2> QED
      BY <2>1, <2>2, <2>3
  <1> QED
    BY <1>1, <1>2, <1>3, <1>4 DEF ReservationInv, Covered

LEMMA ReservationStep ==
  ASSUME ReservationInv, ControllersInv, [Next]_vars
  PROVE  ReservationInv'
  <1>1. ASSUME NEW c \in Clients, NEW kind \in Kinds, NEW d \in Readings,
               BeginEntry(c, kind, d)
        PROVE  ReservationInv'
    BY <1>1, BeginningKeepsReservationInv
  <1>2. ASSUME NEW c \in Clients,
               EntryFilled(c) \/ EntryReturnedEmpty(c) \/ EntryFailed(c)
        PROVE  ReservationInv'
    <2>1. Leaves(c)
      BY <1>2 DEF EntryFilled, EntryReturnedEmpty, EntryFailed, Leaves
    <2> QED
      BY <2>1, LeavingKeepsReservationInv
  <1>3. ASSUME \/ \E c \in Clients : CrashDuringSettlement(c)
               \/ \E d \in Readings : CrashDuringAdmission(d)
               \/ Crash
        PROVE  ReservationInv'
    <2>1. /\ now' = now /\ issued' \in {issued, issued + 1}
          /\ task' = [c \in Clients |-> Idle]
      BY <1>3 DEF CrashDuringSettlement, CrashDuringAdmission, Crash, ProcessDies
    <2>2. \/ reservation' \in {NoReservation, reservation}
          \/ issued' = issued + 1 /\ reservation' = Reserve(issued, now)
      BY <1>3, UnexpiredIsCoherent
         DEF CrashDuringSettlement, CrashDuringAdmission, Crash, guardVars, Settle
    <2> QED
      BY <2>1, <2>2, DyingKeepsReservationInv
  <1>4. ASSUME UNCHANGED <<now, reservation, task, issued>>
        PROVE  ReservationInv'
    BY <1>4 DEF ReservationInv, ReservationIsCoherent, Covered, IsInFlight
  <1>5. ASSUME \/ \E d \in Readings :
                     \/ \E reduceOnly \in BOOLEAN : QueryAdmission(d, reduceOnly)
                     \/ QueryHysteresis(d)
               \/ UNCHANGED vars
        PROVE  UNCHANGED <<now, reservation, task, issued>>
    BY <1>5 DEF QueryAdmission, QueryHysteresis, vars, guardVars
  <1>6. ASSUME QueryReservation
        PROVE  ReservationInv'
    <2>1. /\ UNCHANGED <<now, task, issued>>
          /\ reservation' = Unexpired(reservation, now)
      BY <1>6 DEF QueryReservation
    <2>2. reservation' \in {NoReservation, reservation}
      BY <2>1, UnexpiredIsCoherent
    <2>3. \A c \in Clients : Covered(c, now) => reservation' = reservation
      BY <2>1, UnexpiredIsCoherent
    <2> QED
      BY <2>1, <2>2, <2>3, NoReservationShape
         DEF ReservationInv, ReservationIsCoherent, Covered, IsInFlight
  <1>7. ASSUME TimePasses
        PROVE  ReservationInv'
    <2>1. /\ UNCHANGED <<reservation, task, issued>>
          /\ now' = now + 1
          /\ now \in Nat
      BY <1>7 DEF TimePasses, Advance, guardVars, ReservationInv
    <2>2. \A c \in Clients : IsInFlight(c)' <=> IsInFlight(c)
      BY <2>1 DEF IsInFlight
    <2>3. ASSUME NEW c \in Clients, Covered(c, now)'
          PROVE  Covered(c, now)
      <3>1. task[c].startedAt \in Nat
        BY <2>2, <2>3, TaskShape DEF Covered
      <3> QED
        BY <2>1, <2>2, <2>3, <3>1, ReservationPolicyAssumption DEF Covered
    <2>4. \A c \in Clients : IsInFlight(c) => task[c].startedAt <= now'
      BY <2>1, TaskShape
    <2>5. ReservationIsCoherent'
      BY <2>1, ReservationPolicyAssumption DEF ReservationInv, ReservationIsCoherent
    <2> QED
      BY <2>1, <2>2, <2>3, <2>4, <2>5 DEF ReservationInv
  <1> QED
    BY <1>1, <1>2, <1>3, <1>4, <1>5, <1>6, <1>7 DEF Next

LEMMA ReservationInvariant == Spec => []ReservationInv
  <1>1. Init => ReservationInv
    <2> SUFFICES ASSUME Init PROVE ReservationInv
      OBVIOUS
    <2>1. /\ now = 0 /\ issued = 0 /\ reservation = NoReservation
          /\ task = [c \in Clients |-> Idle]
      BY DEF Init, HysteresisInit, ClockInit
    <2>2. \A c \in Clients : ~IsInFlight(c)
      BY <2>1 DEF IsInFlight, Idle
    <2> QED
      BY <2>1, <2>2, NoReservationShape
         DEF ReservationInv, ReservationIsCoherent, Covered
  <1>2. ReservationInv /\ ControllersInv /\ [Next]_vars => ReservationInv'
    BY ReservationStep
  <1> QED
    BY <1>1, <1>2, ControllersInvariant, PTL DEF Spec

\* While its TTL runs, the reservation is the only entry in flight: two entries
\* overlap only if one of them has outlived its reservation.
THEOREM Serialized == Spec => []SerializedWithinTTL
  <1>1. ReservationInv => SerializedWithinTTL
    <2> SUFFICES ASSUME ReservationInv, NEW c \in Clients, NEW e \in Clients,
                        c # e, IsInFlight(c), IsInFlight(e)
                 PROVE  Outlived(c, now) \/ Outlived(e, now)
      BY DEF SerializedWithinTTL
    <2>1. task[c].id # task[e].id
      BY DEF ReservationInv
    <2>2. ~Covered(c, now) \/ ~Covered(e, now)
      BY <2>1 DEF ReservationInv
    <2>3. task[c].startedAt \in Nat /\ task[e].startedAt \in Nat /\ now \in Nat
      BY TaskShape DEF ReservationInv
    <2> QED
      BY <2>2, <2>3, ReservationPolicyAssumption DEF Covered, Outlived
  <1> QED
    BY <1>1, ReservationInvariant, PTL

\* A reservation disappears only by expiring or with the request that holds
\* it: a late confirm() or release() never frees another one's (by id).
THEOREM ReleaseIsOwn == Spec => NoForeignRelease
  <1> DEFINE Step ==
        IsHeld(reservation) /\ reservation'.id # reservation.id =>
          \/ now >= reservation.expiresAt
          \/ \E c \in Clients : /\ IsInFlight(c)
                                /\ task[c].id = reservation.id
                                /\ ~IsInFlight(c)'
  <1>1. ReservationInv /\ [Next]_vars => [Step]_vars
    <2> SUFFICES ASSUME ReservationInv, Next, IsHeld(reservation),
                        reservation'.id # reservation.id,
                        ~(now >= reservation.expiresAt)
                 PROVE  \E c \in Clients : /\ IsInFlight(c)
                                          /\ task[c].id = reservation.id
                                          /\ ~IsInFlight(c)'
      BY DEF Step
    <2>1. Unexpired(reservation, now) = reservation
      BY DEF Unexpired
    <2>2. ~CanReserve(reservation, now)
      BY <2>1 DEF CanReserve
    <2>3. PICK c \in Clients :
             /\ IsInFlight(c)
             /\ reservation' = Settle(reservation, task[c].id, now)
             /\ \/ task' = [task EXCEPT ![c] = Idle]
                \/ task' = [e \in Clients |-> Idle]
      BY <2>1, <2>2
         DEF Next, BeginEntry, MayReserve, EntryFilled, EntryReturnedEmpty, EntryFailed,
             QueryAdmission, QueryHysteresis, QueryReservation, TimePasses, Crash,
             CrashDuringAdmission, CrashDuringSettlement, ProcessDies, guardVars
    <2>4. task[c].id = reservation.id
      BY <2>1, <2>3 DEF Settle
    <2>5. task'[c] = Idle
      BY <2>3 DEF ReservationInv
    <2> QED
      BY <2>3, <2>4, <2>5 DEF IsInFlight, Idle
  <1> QED
    BY <1>1, ReservationInvariant, PTL DEF Spec, NoForeignRelease

----------------------------------------------------------------------------
(***************************************************************************)
(* The latch and the requests in flight.                                   *)
(***************************************************************************)

\* A reading latches the controller now, or leaves the block where it was.
LEMMA LatchingIsNow ==
  ASSUME NEW s, NEW d, NEW t \in Nat, Sound(s, t), HysteresisState(s, d, t).latched
  PROVE  \/ HysteresisState(s, d, t).blockedSince = t
         \/ /\ s.latched
            /\ HysteresisState(s, d, t).blockedSince = s.blockedSince
  <1>1. HysteresisState(s, d, t) = AfterReading(s, d, t)
    BY DEF HysteresisState, Unlatched
  <1>2. CASE d.state = "BLOCKED"
    <2>1. AfterReading(s, d, t).blockedSince
            = IF IsStamp(s.blockedSince) THEN s.blockedSince ELSE t
      BY <1>2 DEF AfterReading
    <2>2. IsStamp(s.blockedSince) => s.latched
      BY DEF Sound, Unlatched, IsStamp
    <2> QED
      BY <1>1, <2>1, <2>2
  <1>3. CASE d.state # "BLOCKED"
    BY <1>1, <1>3, AfterReadingIsSound
  <1> QED
    BY <1>2, <1>3

LEMMA LatchStep ==
  ASSUME ReservationInv, ControllersInv, LatchStopsNewEntries, [Next]_vars
  PROVE  LatchStopsNewEntries'
  <1> SUFFICES ASSUME recovery'.latched, NEW c \in Clients, IsInFlight(c)'
               PROVE  task'[c].startedAt <= recovery'.blockedSince
    BY DEF LatchStopsNewEntries
  <1>1. ASSUME task'[c] = task[c],
               \/ UNCHANGED recovery
               \/ \E d \in Readings : recovery' = HysteresisState(recovery, d, now)
        PROVE  task'[c].startedAt <= recovery'.blockedSince
    <2>1. IsInFlight(c) /\ task[c].startedAt <= now /\ task[c].startedAt \in Nat
      BY <1>1, TaskShape DEF IsInFlight
    <2>2. CASE UNCHANGED recovery
      BY <1>1, <2>1, <2>2 DEF LatchStopsNewEntries
    <2>3. CASE \E d \in Readings : recovery' = HysteresisState(recovery, d, now)
      <3>1. \/ recovery'.blockedSince = now
            \/ recovery.latched /\ recovery'.blockedSince = recovery.blockedSince
        BY <2>3, LatchingIsNow DEF ControllersInv
      <3> QED
        BY <1>1, <2>1, <3>1 DEF LatchStopsNewEntries
    <2> QED
      BY <1>1, <2>2, <2>3
  <1>2. ASSUME NEW e \in Clients, NEW kind \in Kinds, NEW d \in Readings,
               BeginEntry(e, kind, d)
        PROVE  task'[c].startedAt <= recovery'.blockedSince
    <2>1. /\ recovery' = HysteresisState(recovery, d, now)
          /\ ~RequireAdmission(d).allowed
      BY <1>2, RequireAdmissionFacts, ClientsAssumption DEF BeginEntry, ControllersInv
    <2>2. task' = task
      BY <1>2, <2>1 DEF BeginEntry
    <2> QED
      BY <1>1, <2>1, <2>2
  <1>3. ASSUME NEW d \in Readings,
               \/ \E reduceOnly \in BOOLEAN : QueryAdmission(d, reduceOnly)
               \/ QueryHysteresis(d)
        PROVE  task'[c].startedAt <= recovery'.blockedSince
    BY <1>1, <1>3, AdmissionStatusFacts, ClientsAssumption
       DEF QueryAdmission, QueryHysteresis, EvaluateHysteresis, ControllersInv
  <1>4. ASSUME task' = [e \in Clients |-> Idle]
        PROVE  FALSE
    BY <1>4 DEF IsInFlight, Idle
  <1>5. ASSUME \/ \E d \in Readings : CrashDuringAdmission(d)
               \/ \E e \in Clients : CrashDuringSettlement(e)
               \/ Crash
        PROVE  FALSE
    BY <1>4, <1>5 DEF CrashDuringAdmission, CrashDuringSettlement, Crash, ProcessDies
  <1>6. ASSUME NEW e \in Clients,
               EntryFilled(e) \/ EntryReturnedEmpty(e) \/ EntryFailed(e)
        PROVE  task'[c].startedAt <= recovery'.blockedSince
    <2>1. task' = [task EXCEPT ![e] = Idle] /\ UNCHANGED recovery
      BY <1>6 DEF EntryFilled, EntryReturnedEmpty, EntryFailed
    <2>2. task'[c] = task[c]
      BY <2>1 DEF ReservationInv, IsInFlight, Idle
    <2> QED
      BY <1>1, <2>1, <2>2
  <1>7. ASSUME QueryReservation \/ TimePasses \/ UNCHANGED vars
        PROVE  task'[c].startedAt <= recovery'.blockedSince
    BY <1>1, <1>7 DEF QueryReservation, TimePasses, vars, guardVars
  <1> QED
    BY <1>2, <1>3, <1>5, <1>6, <1>7 DEF Next

\* Once the block is latched no entry gets past the gate.
THEOREM LatchStops == Spec => []LatchStopsNewEntries
  <1>1. Init => LatchStopsNewEntries
    BY DEF Init, LatchStopsNewEntries, HysteresisInit, RecoveryInit, Unlatched
  <1>2. /\ ReservationInv /\ ControllersInv /\ LatchStopsNewEntries /\ [Next]_vars
        => LatchStopsNewEntries'
    BY LatchStep
  <1> QED
    BY <1>1, <1>2, ReservationInvariant, ControllersInvariant, PTL DEF Spec

\* The three guards stay coherent whatever the interleaving.
THEOREM GuardsCoherent == Spec => []GuardsAreCoherent
  <1>1. ControllersInv /\ ReservationInv => GuardsAreCoherent
    BY DEF ControllersInv, ReservationInv, GuardsAreCoherent, Sound, ProbationSound,
           LatchIsCoherent, ChecksAreSpaced, ProbationIsCoherent
  <1> QED
    BY <1>1, ControllersInvariant, ReservationInvariant, PTL

----------------------------------------------------------------------------
(***************************************************************************)
(* Type correctness: what is left is the history.                          *)
(***************************************************************************)
Fill == [at : Nat, exposure : 1..FullExposure]

HistoryTypeOK == /\ crashes \in Nat
                 /\ fills \in Seq(Fill)
                 /\ disturbed \in BOOLEAN

\* Extending or emptying the history.
LEMMA HistoryOfFills ==
  ASSUME NEW f \in Seq(Fill), NEW e \in Fill
  PROVE  Append(f, e) \in Seq(Fill)
  OBVIOUS

LEMMA NoFills == <<>> \in Seq(Fill)
  OBVIOUS

LEMMA InitialHistory == Init => HistoryTypeOK
  <1> SUFFICES ASSUME Init PROVE HistoryTypeOK
    OBVIOUS
  <1>1. fills = <<>>
    BY DEF Init
  <1>2. fills \in Seq(Fill)
    BY <1>1, NoFills
  <1>3. crashes = 0 /\ disturbed = FALSE
    BY DEF Init
  <1> QED
    BY <1>2, <1>3 DEF HistoryTypeOK

LEMMA HistoryStep ==
  ASSUME ReservationInv, HistoryTypeOK, [Next]_vars
  PROVE  HistoryTypeOK'
  <1>1. crashes' \in {crashes, crashes + 1}
    BY DEF Next, BeginEntry, EntryFilled, EntryReturnedEmpty, EntryFailed,
           QueryAdmission, QueryHysteresis, QueryReservation, TimePasses, Crash,
           CrashDuringAdmission, CrashDuringSettlement, ProcessDies, vars
  <1>2. disturbed' \in BOOLEAN
    BY DEF HistoryTypeOK, Next, BeginEntry, EntryFilled, EntryReturnedEmpty,
           EntryFailed, QueryAdmission, QueryHysteresis, QueryReservation, TimePasses,
           Crash, CrashDuringAdmission, CrashDuringSettlement, ProcessDies, vars,
           historyVars
  <1>3. ASSUME NEW c \in Clients, IsInFlight(c)
        PROVE  [at |-> now, exposure |-> ExposureUsed(task[c])] \in Fill
    <2>1. task[c].exposure \in 1..FullExposure
      BY <1>3, TaskShape DEF InFlight
    <2>2. ExposureUsed(task[c]) \in 1..FullExposure
      BY <2>1 DEF ExposureUsed, FullExposure
    <2> QED
      BY <2>2 DEF Fill, ReservationInv
  <1>4. ASSUME NEW c \in Clients, EntryFilled(c) \/ CrashDuringSettlement(c)
        PROVE  fills' \in Seq(Fill)
    <2>1. IsInFlight(c)
      BY <1>4 DEF EntryFilled, CrashDuringSettlement
    <2>2. \/ fills' = <<>>
          \/ fills' = Append(fills, [at |-> now, exposure |-> ExposureUsed(task[c])])
      BY <1>4 DEF EntryFilled, CrashDuringSettlement
    <2> QED
      BY <2>1, <2>2, <1>3, HistoryOfFills, NoFills DEF HistoryTypeOK
  <1>5. ASSUME ~\E c \in Clients : EntryFilled(c) \/ CrashDuringSettlement(c)
        PROVE  fills' \in {fills, <<>>}
    BY <1>5 DEF Next, BeginEntry, EntryReturnedEmpty, EntryFailed,
           QueryAdmission, QueryHysteresis, QueryReservation, TimePasses, Crash,
           CrashDuringAdmission, KeepFillsOfThisProbation, vars, historyVars
  <1>6. fills' \in Seq(Fill)
    <2>1. CASE \E c \in Clients : EntryFilled(c) \/ CrashDuringSettlement(c)
      BY <2>1, <1>4
    <2>2. CASE ~\E c \in Clients : EntryFilled(c) \/ CrashDuringSettlement(c)
      <3>1. fills' = fills \/ fills' = <<>>
        BY <2>2, <1>5
      <3> QED
        BY <3>1, NoFills DEF HistoryTypeOK
    <2> QED
      BY <2>1, <2>2
  <1> QED
    BY <1>1, <1>2, <1>6 DEF HistoryTypeOK

\* Type correctness of the whole composition.
THEOREM TypeCorrect == Spec => []TypeOK
  <1>1. Init => HistoryTypeOK
    BY InitialHistory
  <1>2. ReservationInv /\ HistoryTypeOK /\ [Next]_vars => HistoryTypeOK'
    BY HistoryStep
  <1>3. ControllersInv /\ ReservationInv /\ HistoryTypeOK => TypeOK
    BY DEF ControllersInv, ReservationInv, HistoryTypeOK, TypeOK, Sound, ProbationSound,
           RecoveryTypeOK, ProbationTypeOK, ReservationTypeOK, ClockTypeOK, Fill
  <1> QED
    BY <1>1, <1>2, <1>3, ReservationInvariant, ControllersInvariant, PTL DEF Spec

----------------------------------------------------------------------------
(***************************************************************************)
(* The probation and the request in flight: what the guards decided when   *)
(* the request began still holds when its answer arrives.  It is here that *)
(* a reservation must not outlast the cooldown of a block.                 *)
(***************************************************************************)

\* What was decided about request t, on probation p.
StillAdmitted(t, p) ==
    /\ t.exposure <= RampExposure(p, FALSE)
    /\ p.active => /\ p.admittedEntries < MaxProbationEntries
                   /\ IsStamp(p.lastEntryAt) => t.startedAt - p.lastEntryAt >= MinEntryInterval

\* What was created, f, is on record in p.
OnRecord(f, p) ==
    /\ Len(f) <= p.admittedEntries
    /\ Len(f) > 0 => f[Len(f)].at <= p.lastEntryAt
    /\ \A i \in 2..Len(f) : f[i].at - f[i - 1].at >= MinEntryInterval

\* A block that is latched began after the probation.
BlockedSinceThen(p, s) == p.active /\ s.latched => p.startedAt <= s.blockedSince

QuietInv ==
    ~disturbed =>
        /\ \A c \in Clients :
              IsInFlight(c) => ~Outlived(c, now) /\ StillAdmitted(task[c], probation)
        /\ probation.active => OnRecord(fills, probation)
        /\ BlockedSinceThen(probation, recovery)

\* The cooldown of a block has passed when it is released.
LEMMA ReleaseIsLate ==
  ASSUME NEW s, NEW d, NEW t \in Nat, Sound(s, t), Releases(s, d, t)
  PROVE  /\ s.latched /\ s.blockedSince \in Nat
         /\ s.blockedSince + CooldownSeconds <= t
         /\ HysteresisState(s, d, t) = Unlatched
  <1>1. s.latched /\ s.blockedSince \in 0..t
    BY AfterReadingIsSound DEF Releases, RecoveryRequirementsMet, Sound
  <1>2. ElapsedSince(s.blockedSince, t) >= CooldownSeconds
    BY AfterReadingIsSound DEF Releases, RecoveryRequirementsMet
  <1>3. ElapsedSince(s.blockedSince, t) = t - s.blockedSince
    BY <1>1 DEF ElapsedSince, IsStamp, None
  <1> QED
    BY <1>1, <1>2, <1>3, HysteresisPolicyAssumption DEF HysteresisState

\* What becomes of the probation when the guards are evaluated on d.
Reevaluated(p, d) ==
    \/ p \in {probation, NotOnProbation}
    \/ p = StartProbation(now) /\ Releases(recovery, d, now)

LEMMA StatusReevaluates ==
  ASSUME NEW d, NEW reduceOnly \in BOOLEAN
  PROVE  Reevaluated(AdmissionStatus(d, reduceOnly).probation, d)
  <1>1. HysteresisTransition(recovery, d, now) = "RECOVERED" => Releases(recovery, d, now)
    BY DEF HysteresisTransition
  <1> QED
    BY <1>1 DEF AdmissionStatus, ProbationState, Reevaluated

\* An entry is admitted as the probation it leaves behind admits one.
LEMMA RequireReevaluates ==
  ASSUME NEW d
  PROVE  LET v == RequireAdmission(d)
         IN /\ Reevaluated(v.probation, d)
            /\ v.allowed =>
                  /\ v.exposure = RampExposure(v.probation, FALSE)
                  /\ v.probation.active =>
                        /\ v.probation.admittedEntries < MaxProbationEntries
                        /\ EntryIntervalElapsed(v.probation, now)
  <1> DEFINE first == AdmissionStatus(d, FALSE)
  <1>1. Reevaluated(first.probation, d)
    BY StatusReevaluates
  <1> HIDE DEF first
  <1>2. CASE ~first.allowed
    <2>1. RequireAdmission(d) = first
      BY <1>2 DEF RequireAdmission, first
    <2> QED
      BY <1>1, <1>2, <2>1
  <1>3. CASE first.allowed
    <2> DEFINE effective == EffectiveDegradation(first.recovery, d, now)
               evaluated == ProbationState(first.probation, effective, now)
    <2>1. RequireAdmission(d) = SecondLook(first, d)
      BY <1>3 DEF RequireAdmission, first
    <2>2. /\ SecondLook(first, d).probation = evaluated
          /\ SecondLook(first, d).exposure = RampExposure(evaluated, FALSE)
          /\ SecondLook(first, d).allowed = ProbationAllows(evaluated, effective, now, FALSE)
      BY DEF SecondLook
    <2>3. Reevaluated(evaluated, d)
      BY <1>1 DEF ProbationState, Reevaluated
    <2> HIDE DEF evaluated, effective
    <2> QED
      BY <2>1, <2>2, <2>3 DEF ProbationAllows
  <1> QED
    BY <1>2, <1>3


\* What is known between two steps nothing has disturbed.
QuietState == /\ ControllersInv /\ ReservationInv /\ LatchStopsNewEntries /\ HistoryTypeOK
              /\ QuietInv /\ ~disturbed

\* Nobody is in flight beside a request its reservation still covers.
LEMMA SoleRequest ==
  ASSUME QuietState
  PROVE  /\ \A c, e \in Clients : IsInFlight(c) /\ IsInFlight(e) => c = e
         /\ CanReserve(reservation, now) => \A c \in Clients : ~IsInFlight(c)
  <1>1. ASSUME NEW c \in Clients, IsInFlight(c) PROVE Covered(c, now)
    <2>1. task[c].startedAt \in Nat /\ now \in Nat
      BY <1>1, TaskShape DEF QuietState, ReservationInv
    <2> QED
      BY <1>1, <2>1, ReservationPolicyAssumption DEF QuietState, QuietInv, Outlived, Covered
  <1>2. ASSUME NEW c \in Clients, NEW e \in Clients, IsInFlight(c), IsInFlight(e) PROVE c = e
    <2>1. task[c].id = reservation.id /\ task[e].id = reservation.id
      BY <1>1, <1>2 DEF QuietState, ReservationInv
    <2> QED
      BY <1>2, <2>1 DEF QuietState, ReservationInv
  <1> QED
    BY <1>1, <1>2, FreeMeansUncovered DEF QuietState

\* No block is released under a request in flight, and none that began before
\* the probation that is running.
LEMMA NoReleaseUnderway ==
  ASSUME QuietState, NEW d, Releases(recovery, d, now)
  PROVE  /\ \A c \in Clients : ~IsInFlight(c)
         /\ probation.startedAt # now
         /\ ~HysteresisState(recovery, d, now).latched
  <1>1. /\ recovery.latched /\ recovery.blockedSince \in Nat
        /\ recovery.blockedSince + CooldownSeconds <= now
        /\ HysteresisState(recovery, d, now) = Unlatched
    BY ReleaseIsLate DEF QuietState, ControllersInv
  <1>2. now \in Nat /\ ReservationTTL \in Nat \ {0} /\ CooldownSeconds \in Nat
        /\ ReservationTTL <= CooldownSeconds
    BY ReservationPolicyAssumption, HysteresisPolicyAssumption, TTLAssumption
       DEF QuietState, ControllersInv
  <1>3. ASSUME NEW c \in Clients, IsInFlight(c) PROVE FALSE
    <2>1. task[c].startedAt \in Nat /\ task[c].startedAt <= recovery.blockedSince
      BY <1>1, <1>3, TaskShape DEF QuietState, LatchStopsNewEntries
    <2>2. ~Outlived(c, now)
      BY <1>3 DEF QuietState, QuietInv
    <2> QED
      BY <1>1, <1>2, <1>3, <2>1, <2>2 DEF Outlived
  <1>4. probation.startedAt # now
    <2>1. CASE probation.active
      <3>1. probation.startedAt \in Nat /\ probation.startedAt <= recovery.blockedSince
        BY <1>1, <2>1 DEF QuietState, QuietInv, BlockedSinceThen, ControllersInv, ProbationSound
      <3> QED
        BY <1>1, <1>2, <3>1
    <2>2. CASE ~probation.active
      BY <1>2, <2>2 DEF QuietState, ControllersInv, ProbationSound, NotOnProbation, None
    <2> QED
      BY <2>1, <2>2
  <1> QED
    BY <1>1, <1>3, <1>4 DEF Unlatched

LEMMA NothingOnRecord ==
  ASSUME NEW p, p.admittedEntries \in Nat
  PROVE  OnRecord(<<>>, p)
  BY DEF OnRecord

\* A reading that leaves the probation alone leaves it older than the block.
LEMMA ReadingKeepsOrder ==
  ASSUME QuietState, NEW d
  PROVE  BlockedSinceThen(probation, HysteresisState(recovery, d, now))
  <1> DEFINE s == HysteresisState(recovery, d, now)
  <1> SUFFICES ASSUME probation.active, s.latched
               PROVE  probation.startedAt <= s.blockedSince
    BY DEF BlockedSinceThen
  <1>0. /\ now \in Nat /\ ProbationSound(probation, now) /\ Sound(recovery, now)
        /\ BlockedSinceThen(probation, recovery)
    BY DEF QuietState, QuietInv, ControllersInv
  <1>1. \/ s.blockedSince = now
        \/ recovery.latched /\ s.blockedSince = recovery.blockedSince
    BY <1>0, LatchingIsNow
  <1>2. probation.startedAt <= now
    BY <1>0 DEF ProbationSound
  <1> QED
    BY <1>0, <1>1, <1>2 DEF BlockedSinceThen

\* Evaluating the guards keeps the records, and the requests in flight admitted.
LEMMA EvaluationIsQuiet ==
  ASSUME QuietState, NEW d, Reevaluated(probation', d), KeepFillsOfThisProbation,
         recovery' = HysteresisState(recovery, d, now)
  PROVE  /\ probation'.active => OnRecord(fills', probation')
         /\ BlockedSinceThen(probation', recovery')
         /\ \A c \in Clients : IsInFlight(c) => StillAdmitted(task[c], probation')
  <1>0. /\ now \in Nat /\ ProbationSound(probation, now) /\ Sound(recovery, now)
        /\ BlockedSinceThen(probation, recovery)
        /\ probation.active => OnRecord(fills, probation)
        /\ \A c \in Clients : IsInFlight(c) => StillAdmitted(task[c], probation)
    BY DEF QuietState, QuietInv, ControllersInv
  <1>1. CASE probation' = probation
    <2>1. probation'.active => fills' = fills
      BY <1>1 DEF KeepFillsOfThisProbation
    <2>2. BlockedSinceThen(probation, recovery')
      BY ReadingKeepsOrder
    <2> QED
      BY <1>0, <1>1, <2>1, <2>2
  <1>2. CASE probation' = NotOnProbation
    <2>1. ~probation'.active
      BY <1>2 DEF NotOnProbation
    <2>2. ASSUME NEW c \in Clients, IsInFlight(c) PROVE StillAdmitted(task[c], probation')
      <3>1. task[c].exposure \in 1..FullExposure
        BY <2>2, TaskShape DEF QuietState, InFlight
      <3> QED
        BY <2>1, <3>1 DEF StillAdmitted, RampExposure, FullExposure
    <2> QED
      BY <2>1, <2>2 DEF BlockedSinceThen
  <1>3. CASE probation' = StartProbation(now) /\ Releases(recovery, d, now)
    <2>1. fills' = <<>>
      BY <1>3, NoReleaseUnderway DEF KeepFillsOfThisProbation, StartProbation
    <2>2. OnRecord(fills', probation')
      <3>1. probation'.admittedEntries = 0
        BY <1>3 DEF StartProbation
      <3> QED
        BY <2>1, <3>1, NothingOnRecord
    <2> QED
      BY <1>3, <2>2, NoReleaseUnderway DEF BlockedSinceThen
  <1> QED
    BY <1>1, <1>2, <1>3 DEF Reevaluated

LEMMA ElementsOf ==
  ASSUME NEW S, NEW f \in Seq(S)
  PROVE  \A i \in 1..Len(f) : f[i] \in S
  OBVIOUS

LEMMA Appended ==
  ASSUME NEW S, NEW f \in Seq(S), NEW e \in S
  PROVE  /\ Len(f) \in Nat /\ Len(Append(f, e)) = Len(f) + 1
         /\ Append(f, e)[Len(f) + 1] = e
         /\ \A i \in 1..Len(f) : Append(f, e)[i] = f[i]
  OBVIOUS

\* One more entry, an interval after the last one.
LEMMA OneMoreOnRecord ==
  ASSUME NEW f \in Seq(Fill), NEW e \in Fill, NEW p \in ProbationStates, NEW t \in Nat,
         OnRecord(f, p), e.at = t,
         Len(f) > 0 => t - p.lastEntryAt >= MinEntryInterval,
         NEW q, q.admittedEntries = p.admittedEntries + 1, q.lastEntryAt = t
  PROVE  OnRecord(Append(f, e), q)
  <1> DEFINE g == Append(f, e)
  <1>1. /\ Len(f) \in Nat /\ Len(g) = Len(f) + 1 /\ g[Len(f) + 1] = e
        /\ \A i \in 1..Len(f) : g[i] = f[i] /\ f[i].at \in Nat
    <2>1. \A i \in 1..Len(f) : f[i].at \in Nat
      <3>1. \A i \in 1..Len(f) : f[i] \in Fill
        BY ElementsOf
      <3> QED
        BY <3>1 DEF Fill
    <2> QED
      BY <2>1, Appended
  <1>2. p.admittedEntries \in Nat /\ p.lastEntryAt \in Int /\ MinEntryInterval \in Nat
    BY ProbationPolicyAssumption DEF ProbationStates, Stamps, None
  <1> HIDE DEF g
  <1>3. Len(g) <= q.admittedEntries
    BY <1>1, <1>2 DEF OnRecord
  <1>4. g[Len(g)].at <= q.lastEntryAt
    BY <1>1
  <1>5. ASSUME NEW i \in 2..Len(g) PROVE g[i].at - g[i - 1].at >= MinEntryInterval
    <2>1. CASE i = Len(g)
      <3>1. Len(f) > 0 /\ g[i] = e /\ i - 1 = Len(f) /\ g[i - 1] = f[Len(f)]
        BY <1>1, <1>5, <2>1
      <3>2. f[Len(f)].at <= p.lastEntryAt /\ f[Len(f)].at \in Nat
        BY <1>1, <3>1 DEF OnRecord
      <3> QED
        BY <1>2, <3>1, <3>2
    <2>2. CASE i # Len(g)
      <3>1. i \in 2..Len(f) /\ g[i] = f[i] /\ g[i - 1] = f[i - 1]
        BY <1>1, <1>5, <2>2
      <3> QED
        BY <3>1 DEF OnRecord
    <2> QED
      BY <2>1, <2>2
  <1> QED
    BY <1>3, <1>4, <1>5 DEF OnRecord, g


\* An answer: the request is over, and the probation has perhaps recorded it.
LEMMA SettlementIsQuiet ==
  ASSUME QuietState, NEW c \in Clients, IsInFlight(c),
         task' = [task EXCEPT ![c] = Idle], now' = now, UNCHANGED <<recovery, disturbed>>,
         \/ UNCHANGED <<probation, fills>>
         \/ /\ probation' = AfterSuccessfulEntry(probation, now)
            /\ probation.active => \/ fills' = fills
                                   \/ fills' = Append(fills, [at |-> now, exposure |-> ExposureUsed(task[c])])
  PROVE  QuietInv'
  <1>0. /\ now \in Nat /\ ProbationSound(probation, now)
        /\ BlockedSinceThen(probation, recovery)
        /\ probation.active => OnRecord(fills, probation)
        /\ StillAdmitted(task[c], probation)
    BY DEF QuietState, QuietInv, ControllersInv
  <1>1. \A e \in Clients : ~IsInFlight(e)'
    BY SoleRequest DEF QuietState, ReservationInv, IsInFlight, Idle
  <1>2. CASE UNCHANGED <<probation, fills>>
    BY <1>0, <1>1, <1>2 DEF QuietInv, BlockedSinceThen
  <1>3. CASE /\ probation' = AfterSuccessfulEntry(probation, now)
             /\ probation.active =>
                   \/ fills' = fills
                   \/ fills' = Append(fills, [at |-> now, exposure |-> ExposureUsed(task[c])])
    <2>1. CASE ~probation.active
      <3>1. probation' = probation
        BY <1>3, <2>1 DEF AfterSuccessfulEntry
      <3> QED
        BY <1>0, <1>1, <2>1, <3>1 DEF QuietInv, BlockedSinceThen
    <2>2. CASE probation.active
      <3>1. /\ probation.admittedEntries < MaxProbationEntries
            /\ IsStamp(probation.lastEntryAt)
                  => task[c].startedAt - probation.lastEntryAt >= MinEntryInterval
        BY <1>0, <2>2 DEF StillAdmitted
      <3>2. probation \in ProbationStates
        BY <1>0 DEF ProbationSound
      <3>3. probation' = [active |-> probation.active, startedAt |-> probation.startedAt,
                          lastEntryAt |-> now, admittedEntries |-> probation.admittedEntries + 1]
        BY <1>3, <2>2, <3>1, <3>2 DEF AfterSuccessfulEntry, ProbationStates
      <3>4. /\ probation'.active /\ probation'.startedAt = probation.startedAt
            /\ probation'.lastEntryAt = now
            /\ probation'.admittedEntries = probation.admittedEntries + 1
        BY <2>2, <3>3
      <3>5. fills \in Seq(Fill)
        BY DEF QuietState, HistoryTypeOK
      <3>6. Len(fills) > 0 => now - probation.lastEntryAt >= MinEntryInterval
        <4> SUFFICES ASSUME Len(fills) > 0 PROVE now - probation.lastEntryAt >= MinEntryInterval
          OBVIOUS
        <4>1. probation.admittedEntries \in Nat /\ probation.admittedEntries > 0
          BY <1>0, <2>2, <3>2, <3>5 DEF OnRecord, ProbationStates
        <4>2. probation.lastEntryAt \in Nat
          BY <1>0, <2>2, <4>1 DEF ProbationSound
        <4>3. task[c].startedAt \in Nat /\ task[c].startedAt <= now
          BY TaskShape DEF QuietState
        <4> QED
          BY <1>0, <3>1, <4>2, <4>3, ProbationPolicyAssumption DEF IsStamp, None
      <3>7. OnRecord(fills', probation')
        <4>1. CASE fills' = fills
          <5>1. /\ Len(fills) <= probation.admittedEntries + 1
                /\ Len(fills) > 0 => fills[Len(fills)].at <= now
            <6>1. ASSUME Len(fills) > 0
                  PROVE  /\ fills[Len(fills)].at <= probation.lastEntryAt
                         /\ fills[Len(fills)].at \in Nat
              <7>1. Len(fills) \in 1..Len(fills)
                BY <3>5, <6>1
              <7>2. fills[Len(fills)] \in Fill
                BY <3>5, <7>1, ElementsOf
              <7>3. fills[Len(fills)].at \in Nat
                BY <7>2 DEF Fill
              <7>4. OnRecord(fills, probation)
                BY <1>0, <2>2
              <7> QED
                BY <6>1, <7>3, <7>4 DEF OnRecord
            <6>2. Len(fills) > 0 => probation.lastEntryAt <= now
              BY <1>0, <2>2, <3>2, <3>5 DEF OnRecord, ProbationSound, ProbationStates
            <6>3. probation.lastEntryAt \in Int /\ probation.admittedEntries \in Nat
              BY <3>2 DEF ProbationStates, Stamps, None
            <6> QED
              BY <1>0, <2>2, <3>5, <6>1, <6>2, <6>3 DEF OnRecord
          <5> QED
            BY <1>0, <2>2, <3>4, <4>1, <5>1 DEF OnRecord
        <4>2. CASE fills' = Append(fills, [at |-> now, exposure |-> ExposureUsed(task[c])])
          <5> DEFINE e == [at |-> now, exposure |-> ExposureUsed(task[c])]
          <5>1. task[c].exposure \in 1..FullExposure
            BY TaskShape DEF QuietState, InFlight
          <5>2. e \in Fill /\ e.at = now
            BY <1>0, <5>1 DEF ExposureUsed, FullExposure, Fill
          <5> HIDE DEF e
          <5>3. fills' = Append(fills, e)
            BY <4>2 DEF e
          <5>4. OnRecord(Append(fills, e), probation')
            BY <1>0, <2>2, <3>2, <3>4, <3>5, <3>6, <5>2, OneMoreOnRecord
          <5> QED
            BY <5>3, <5>4
        <4> QED
          BY <1>3, <2>2, <4>1, <4>2
      <3>8. BlockedSinceThen(probation', recovery')
        BY <1>0, <2>2, <3>4 DEF BlockedSinceThen
      <3>9. OnRecord(fills, probation)'
        BY <3>7
      <3>10. BlockedSinceThen(probation, recovery)'
        BY <3>8
      <3> QED
        BY <1>1, <3>9, <3>10 DEF QuietInv
    <2> QED
      BY <2>1, <2>2
  <1> QED
    BY <1>2, <1>3

\* A request begins: nobody else is in flight, and it is admitted as the
\* probation that its own evaluation leaves admits one.
LEMMA BeginningIsQuiet ==
  ASSUME QuietState, NEW c \in Clients, NEW kind \in Kinds, NEW d \in Readings,
         BeginEntry(c, kind, d)
  PROVE  QuietInv'
  <1> DEFINE v == RequireAdmission(d)
  <1>1. /\ recovery' = v.recovery /\ probation' = v.probation /\ now' = now
        /\ KeepFillsOfThisProbation /\ CanReserve(reservation, now)
        /\ IF v.allowed
           THEN task' = [task EXCEPT ![c] = [phase |-> "inFlight", kind |-> kind,
                                             id |-> issued, exposure |-> v.exposure,
                                             startedAt |-> now]]
           ELSE UNCHANGED task
    BY DEF BeginEntry, MayReserve
  <1>2. now \in Nat /\ task \in [Clients -> {Idle} \cup InFlight]
    BY DEF QuietState, ReservationInv
  <1>3. v.recovery = HysteresisState(recovery, d, now)
    BY RequireAdmissionFacts, ClientsAssumption DEF QuietState, ControllersInv
  <1>4. /\ Reevaluated(v.probation, d)
        /\ v.allowed =>
              /\ v.exposure = RampExposure(v.probation, FALSE)
              /\ v.probation.active => /\ v.probation.admittedEntries < MaxProbationEntries
                                       /\ EntryIntervalElapsed(v.probation, now)
    BY RequireReevaluates
  <1>5. v.exposure \in 1..FullExposure
    BY RequireAdmissionFacts, ClientsAssumption DEF QuietState, ControllersInv
  <1> HIDE DEF v
  <1>6. /\ probation'.active => OnRecord(fills', probation')
        /\ BlockedSinceThen(probation', recovery')
    BY <1>1, <1>3, <1>4, EvaluationIsQuiet
  <1>7. \A e \in Clients : ~IsInFlight(e)
    BY <1>1, SoleRequest
  <1>8. ASSUME NEW e \in Clients, IsInFlight(e)'
        PROVE  (~Outlived(e, now))' /\ StillAdmitted(task'[e], probation')
    <2>1. v.allowed /\ e = c
      BY <1>1, <1>2, <1>7, <1>8 DEF IsInFlight
    <2>2. task'[e].exposure = v.exposure /\ task'[e].startedAt = now
      BY <1>1, <1>2, <2>1
    <2>3. (~Outlived(e, now))'
      BY <1>1, <1>2, <2>2, ReservationPolicyAssumption DEF Outlived
    <2>4. task'[e].exposure <= RampExposure(v.probation, FALSE)
      <3>1. v.exposure \in Int
        BY <1>5 DEF FullExposure
      <3>2. v.exposure <= v.exposure
        BY <3>1
      <3>3. v.exposure = RampExposure(v.probation, FALSE)
        BY <1>4, <2>1
      <3> QED
        BY <2>2, <3>2, <3>3
    <2> QED
      BY <1>1, <1>4, <2>1, <2>2, <2>3, <2>4 DEF StillAdmitted, EntryIntervalElapsed
  <1>9. /\ (\A e \in Clients : IsInFlight(e)
                => ~Outlived(e, now) /\ StillAdmitted(task[e], probation))'
        /\ (probation.active => OnRecord(fills, probation))'
        /\ BlockedSinceThen(probation, recovery)'
    BY <1>6, <1>8
  <1> QED
    BY <1>9 DEF QuietInv

\* A query evaluates the guards, or the recovery controller alone.
LEMMA QueryIsQuiet ==
  ASSUME QuietState, NEW d, UNCHANGED <<now, task>>,
         recovery' = HysteresisState(recovery, d, now),
         \/ Reevaluated(probation', d) /\ KeepFillsOfThisProbation
         \/ UNCHANGED <<probation, fills>>
  PROVE  QuietInv'
  <1>1. CASE Reevaluated(probation', d) /\ KeepFillsOfThisProbation
    <2>1. /\ probation'.active => OnRecord(fills', probation')
          /\ BlockedSinceThen(probation', recovery')
          /\ \A c \in Clients : IsInFlight(c) => StillAdmitted(task[c], probation')
      BY <1>1, EvaluationIsQuiet
    <2>2. \A c \in Clients : IsInFlight(c) => ~Outlived(c, now)
      BY DEF QuietState, QuietInv
    <2>3. /\ (\A c \in Clients : IsInFlight(c)
                  => ~Outlived(c, now) /\ StillAdmitted(task[c], probation))'
          /\ (probation.active => OnRecord(fills, probation))'
          /\ BlockedSinceThen(probation, recovery)'
      BY <2>1, <2>2 DEF IsInFlight, Outlived
    <2> QED
      BY <2>3 DEF QuietInv
  <1>2. CASE UNCHANGED <<probation, fills>>
    <2>1. BlockedSinceThen(probation, HysteresisState(recovery, d, now))
      BY ReadingKeepsOrder
    <2>2. /\ (\A c \in Clients : IsInFlight(c)
                  => ~Outlived(c, now) /\ StillAdmitted(task[c], probation))'
          /\ (probation.active => OnRecord(fills, probation))'
          /\ BlockedSinceThen(probation, recovery)'
      BY <1>2, <2>1 DEF QuietState, QuietInv, IsInFlight, Outlived
    <2> QED
      BY <2>2 DEF QuietInv
  <1> QED
    BY <1>1, <1>2

LEMMA QuietStep ==
  ASSUME ControllersInv, ReservationInv, LatchStopsNewEntries, HistoryTypeOK, QuietInv,
         [Next]_vars
  PROVE  QuietInv'
  <1> SUFFICES ASSUME ~disturbed' PROVE QuietInv'
    BY DEF QuietInv
  <1>1. /\ ~disturbed
        /\ ~(\E c \in Clients : CrashDuringSettlement(c))
        /\ ~(\E d \in Readings : CrashDuringAdmission(d))
        /\ ~Crash
    <2>1. ASSUME NEW c \in Clients, CrashDuringSettlement(c) PROVE FALSE
      BY <2>1 DEF CrashDuringSettlement, ProcessDies
    <2>2. ASSUME NEW d \in Readings, CrashDuringAdmission(d) PROVE FALSE
      BY <2>2 DEF CrashDuringAdmission, ProcessDies
    <2>3. ~Crash
      BY DEF Crash, ProcessDies
    <2>4. disturbed \in BOOLEAN /\ disturbed => disturbed'
      <3> SUFFICES ASSUME disturbed PROVE disturbed'
        BY DEF HistoryTypeOK
      <3>1. ASSUME TimePasses PROVE disturbed'
        BY <3>1 DEF TimePasses
      <3>2. ASSUME ~TimePasses PROVE disturbed'
        BY <2>1, <2>2, <2>3, <3>2
           DEF Next, BeginEntry, EntryFilled, EntryReturnedEmpty, EntryFailed,
               QueryAdmission, QueryHysteresis, QueryReservation, vars, historyVars
      <3> QED
        BY <3>1, <3>2
    <2> QED
      BY <2>1, <2>2, <2>3, <2>4 DEF HistoryTypeOK
  <1>2. QuietState
    BY <1>1 DEF QuietState
  <1>3. ASSUME NEW c \in Clients, NEW kind \in Kinds, NEW d \in Readings,
               BeginEntry(c, kind, d)
        PROVE  QuietInv'
    BY <1>2, <1>3, BeginningIsQuiet
  <1>4. ASSUME NEW d \in Readings, NEW reduceOnly \in BOOLEAN,
               QueryAdmission(d, reduceOnly)
        PROVE  QuietInv'
    <2>1. AdmissionStatus(d, reduceOnly).recovery = HysteresisState(recovery, d, now)
      BY DEF AdmissionStatus
    <2>2. Reevaluated(AdmissionStatus(d, reduceOnly).probation, d)
      BY StatusReevaluates
    <2> QED
      BY <1>2, <1>4, <2>1, <2>2, QueryIsQuiet DEF QueryAdmission
  <1>5. ASSUME NEW d \in Readings, QueryHysteresis(d)
        PROVE  QuietInv'
    BY <1>2, <1>5, QueryIsQuiet DEF QueryHysteresis, EvaluateHysteresis, historyVars
  <1>6. ASSUME NEW c \in Clients,
               EntryFilled(c) \/ EntryReturnedEmpty(c) \/ EntryFailed(c)
        PROVE  QuietInv'
    <2>1. /\ IsInFlight(c) /\ task' = [task EXCEPT ![c] = Idle] /\ now' = now
          /\ UNCHANGED <<recovery, disturbed>>
      BY <1>6 DEF EntryFilled, EntryReturnedEmpty, EntryFailed, historyVars
    <2>2. \/ UNCHANGED <<probation, fills>>
          \/ /\ probation' = AfterSuccessfulEntry(probation, now)
             /\ probation.active =>
                   \/ fills' = fills
                   \/ fills' = Append(fills, [at |-> now,
                                              exposure |-> ExposureUsed(task[c])])
      BY <1>6 DEF EntryFilled, EntryReturnedEmpty, EntryFailed, historyVars
    <2> QED
      BY <1>2, <2>1, <2>2, SettlementIsQuiet
  <1>7. ASSUME QueryReservation \/ UNCHANGED vars
        PROVE  QuietInv'
    <2>1. UNCHANGED <<now, recovery, probation, task, fills>>
      BY <1>7 DEF QueryReservation, vars, guardVars, historyVars
    <2> QED
      BY <1>1, <2>1 DEF QuietInv, IsInFlight, Outlived
  <1>8. ASSUME TimePasses
        PROVE  QuietInv'
    <2>1. UNCHANGED <<recovery, probation, task, fills>>
      BY <1>8 DEF TimePasses, guardVars
    <2>2. \A c \in Clients : ~Outlived(c, now')
      BY <1>8 DEF TimePasses
    <2>3. \A c \in Clients : (~Outlived(c, now))'
      BY <2>1, <2>2 DEF Outlived, IsInFlight
    <2> QED
      BY <1>1, <2>1, <2>3 DEF QuietInv, IsInFlight
  <1> QED
    BY <1>1, <1>3, <1>4, <1>5, <1>6, <1>7, <1>8 DEF Next

LEMMA QuietInvariant == Spec => []QuietInv
  <1>1. Init => QuietInv
    BY DEF Init, HysteresisInit, RecoveryInit, QuietInv, IsInFlight, Idle,
           NotOnProbation, BlockedSinceThen
  <1>2. Init => HistoryTypeOK
    BY InitialHistory
  <1>3. ReservationInv /\ HistoryTypeOK /\ [Next]_vars => HistoryTypeOK'
    BY HistoryStep
  <1>4. /\ ControllersInv /\ ReservationInv /\ LatchStopsNewEntries /\ HistoryTypeOK
        /\ QuietInv /\ [Next]_vars
        => QuietInv'
    BY QuietStep
  <1> QED
    BY <1>1, <1>2, <1>3, <1>4, ControllersInvariant, ReservationInvariant, LatchStops,
       PTL DEF Spec

\* While nothing outlived its reservation and nothing crashed, the probation
\* admits no more entries than its policy and has each of them on record.
THEOREM ProbationCapped == Spec => []ProbationCapHolds
  <1>1. ControllersInv /\ QuietInv => ProbationCapHolds
    BY DEF ControllersInv, ProbationSound, QuietInv, OnRecord, ProbationCapHolds
  <1> QED
    BY <1>1, ControllersInvariant, QuietInvariant, PTL

\* ... its entries are an interval apart, though the interval is checked before
\* a request is suspended and stamped when its answer arrives.
THEOREM ProbationSpaced == Spec => []ProbationEntriesAreSpaced
  <1>1. QuietInv => ProbationEntriesAreSpaced
    BY DEF QuietInv, OnRecord, ProbationEntriesAreSpaced
  <1> QED
    BY <1>1, QuietInvariant, PTL

\* ... and the exposure a request was admitted with is still one the ramp grants
\* when its answer arrives.
THEOREM ExposureCurrent == Spec => []ExposureStillCurrent
  <1>1. QuietInv => ExposureStillCurrent
    BY DEF QuietInv, StillAdmitted, ExposureStillCurrent
  <1> QED
    BY <1>1, QuietInvariant, PTL

=============================================================================
