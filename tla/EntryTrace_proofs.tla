------------------------- MODULE EntryTrace_proofs -------------------------
(***************************************************************************)
(* What a release says about the readings, for every policy: the progress  *)
(* of the controller is the healthy run it has really seen.  Beside the    *)
(* requests for the entry trace the controller is no different, and an     *)
(* answer is true of the time it took, and counted before it is given, for *)
(* any number of requests.                                                 *)
(***************************************************************************)
EXTENDS EntryTrace, RecoveryHysteresis_proofs

\* The progress of a state r, given the start h of the current healthy run.
Earned(r, h) ==
    /\ r.latched /\ IsStamp(h) => h >= r.blockedSince
    /\ r.healthyChecks > 0 =>
          /\ r.latched
          /\ h \in r.blockedSince..r.lastHealthyCheckAt
          /\ r.lastHealthyCheckAt - h
                >= (r.healthyChecks - 1) * MinHealthyCheckInterval

\* The inductive invariant: ProgressIsEarned needs that a healthy run seen
\* while latched began after the block.
ReadingsInv == /\ now \in Nat
               /\ Sound(recovery, now)
               /\ healthySince \in Stamps
               /\ healthySince <= now
               /\ Earned(recovery, healthySince)

\* More checks span at least as many intervals.
LEMMA MoreChecksMoreTime ==
  ASSUME NEW k \in Nat, NEW n \in Nat, NEW m \in Nat, k >= n
  PROVE  (k - 1) * m >= (n - 1) * m
  BY SMT

\* A reading leaves, before any release, only progress that was earned.
LEMMA ReadingEarns ==
  ASSUME ReadingsInv, NEW d, TakeReading(d)
  PROVE  /\ Earned(AfterReading(recovery, d, now), healthySince')
         /\ healthySince' \in Stamps
         /\ healthySince' <= now
  <1> DEFINE r == AfterReading(recovery, d, now)
  <1>s. /\ recovery = [latched |-> recovery.latched,
                       blockedSince |-> recovery.blockedSince,
                       healthyChecks |-> recovery.healthyChecks,
                       lastHealthyCheckAt |-> recovery.lastHealthyCheckAt]
        /\ recovery.latched \in BOOLEAN
        /\ recovery.healthyChecks \in Nat
        /\ recovery.lastHealthyCheckAt \in Stamps
        /\ recovery.latched => recovery.blockedSince \in 0..now
        /\ ~recovery.latched => recovery.healthyChecks = 0
        /\ now \in Nat
        /\ healthySince \in Stamps
        /\ healthySince <= now
    BY DEF ReadingsInv, Sound, RecoveryStates, Unlatched
  <1>e. Earned(recovery, healthySince)
    BY DEF ReadingsInv
  <1>1. CASE ~HealthyForRecovery(d)
    <2>1. healthySince' = None
      BY <1>1 DEF TakeReading
    <2>2. r.healthyChecks = 0
      <3>1. CASE d.state = "BLOCKED"
        BY <3>1 DEF AfterReading
      <3>2. CASE d.state # "BLOCKED" /\ recovery.latched
        <4>1. r = [recovery EXCEPT !.healthyChecks = 0, !.lastHealthyCheckAt = None]
          BY <3>2, <1>1 DEF AfterReading
        <4> QED
          BY <4>1, <1>s
      <3>3. CASE d.state # "BLOCKED" /\ ~recovery.latched
        <4>1. r = recovery
          BY <3>3 DEF AfterReading
        <4> QED
          BY <4>1, <3>3, <1>s
      <3> QED
        BY <3>1, <3>2, <3>3
    <2> QED
      BY <2>1, <2>2, <1>s DEF Earned, IsStamp, Stamps, None
  <1>2. CASE HealthyForRecovery(d)
    <2>1. d.state # "BLOCKED"
      BY <1>2 DEF HealthyForRecovery
    <2>2. healthySince' = IF IsStamp(healthySince) THEN healthySince ELSE now
      BY <1>2 DEF TakeReading
    <2>3. healthySince' \in 0..now
      BY <2>2, <1>s DEF IsStamp, Stamps, None
    <2>4. recovery.latched => healthySince' >= recovery.blockedSince
      BY <2>2, <1>s, <1>e DEF Earned
    <2>5. recovery.healthyChecks > 0 => IsStamp(healthySince)
      BY <1>e, <1>s DEF Earned, IsStamp, None
    <2>6. CASE recovery.latched /\ CanCountHealthyCheck(recovery, now)
      <3>1. r = [recovery EXCEPT !.healthyChecks = @ + 1, !.lastHealthyCheckAt = now]
        BY <2>6, <2>1, <1>2 DEF AfterReading
      <3>2. r = [latched |-> recovery.latched, blockedSince |-> recovery.blockedSince,
                 healthyChecks |-> recovery.healthyChecks + 1,
                 lastHealthyCheckAt |-> now]
        BY <3>1, <1>s
      <3>3. now - healthySince'
              >= (recovery.healthyChecks + 1 - 1) * MinHealthyCheckInterval
        <4>1. CASE recovery.healthyChecks = 0
          BY <4>1, <2>3, <1>s, HysteresisPolicyAssumption
        <4>2. CASE recovery.healthyChecks > 0
          <5>1. /\ healthySince' = healthySince
                /\ recovery.lastHealthyCheckAt - healthySince
                      >= (recovery.healthyChecks - 1) * MinHealthyCheckInterval
                /\ healthySince <= recovery.lastHealthyCheckAt
            BY <4>2, <2>2, <2>5, <1>e, <1>s DEF Earned
          <5>2. now - recovery.lastHealthyCheckAt >= MinHealthyCheckInterval
            BY <5>1, <2>3, <2>6, <1>s DEF CanCountHealthyCheck, IsStamp, Stamps, None
          <5>3. (recovery.healthyChecks + 1 - 1) * MinHealthyCheckInterval
                  = (recovery.healthyChecks - 1) * MinHealthyCheckInterval
                       + MinHealthyCheckInterval
            BY OneMoreInterval, <1>s, HysteresisPolicyAssumption
          <5>4. (recovery.healthyChecks - 1) * MinHealthyCheckInterval \in Int
            BY <1>s, HysteresisPolicyAssumption
          <5>5. recovery.lastHealthyCheckAt \in Int
            BY <1>s DEF Stamps, None
          <5> QED
            BY <5>1, <5>2, <5>3, <5>4, <5>5, <2>3, <1>s, HysteresisPolicyAssumption
        <4> QED
          BY <4>1, <4>2, <1>s
      <3>4. healthySince' \in recovery.blockedSince..now
        BY <2>3, <2>4, <2>6, <1>s
      <3> QED
        BY <3>2, <3>3, <3>4, <2>3, <2>6, <1>s DEF Earned, Stamps
    <2>7. CASE ~(recovery.latched /\ CanCountHealthyCheck(recovery, now))
      <3>1. r = recovery
        BY <2>7, <2>1, <1>2 DEF AfterReading
      <3>2. recovery.healthyChecks > 0 => healthySince' = healthySince
        BY <2>2, <2>5
      <3> QED
        BY <3>1, <3>2, <2>3, <2>4, <1>e, <1>s DEF Earned, Stamps
    <2> QED
      BY <2>6, <2>7
  <1> QED
    BY <1>1, <1>2

----------------------------------------------------------------------------
LEMMA ReadingsInvariant == ReadingsSpec => []ReadingsInv
  <1>1. ReadingsInit => ReadingsInv
    BY UnlatchedIsSound
       DEF ReadingsInit, ReadingsInv, HysteresisInit, RecoveryInit, ClockInit,
           Earned, Unlatched, Stamps, None, IsStamp
  <1>2. ReadingsInv /\ [ReadingsNext]_readingsVars => ReadingsInv'
    <2> SUFFICES ASSUME ReadingsInv, [ReadingsNext]_readingsVars
                 PROVE  ReadingsInv'
      OBVIOUS
    <2>1. CASE \E d \in Reports : TakeReading(d)
      <3>1. PICK d \in Reports : TakeReading(d)
        BY <2>1
      <3>2. /\ now' = now
            /\ recovery' = HysteresisState(recovery, d, now)
        BY <3>1 DEF TakeReading, EvaluateHysteresis, ReadingsInv, Stamps
      <3>3. Sound(recovery', now)
        BY <3>2, HysteresisStateIsSound DEF ReadingsInv
      <3>4. /\ Earned(AfterReading(recovery, d, now), healthySince')
            /\ healthySince' \in Stamps
            /\ healthySince' <= now
        BY <3>1, ReadingEarns
      <3>5. Earned(recovery', healthySince')
        BY <3>2, <3>4 DEF HysteresisState, Earned, Unlatched
      <3> QED
        BY <3>2, <3>3, <3>4, <3>5 DEF ReadingsInv
    <2>2. CASE LetTimePass
      <3>1. /\ now' = now + 1 /\ now \in Nat
            /\ recovery' = recovery
            /\ healthySince' = healthySince
        BY <2>2 DEF LetTimePass, Advance, ReadingsInv
      <3>2. Sound(recovery', now')
        BY <3>1, SoundLater DEF ReadingsInv
      <3> QED
        BY <3>1, <3>2 DEF ReadingsInv, Stamps, None
    <2>3. CASE UNCHANGED readingsVars
      BY <2>3 DEF readingsVars, ReadingsInv
    <2> QED
      BY <2>1, <2>2, <2>3 DEF ReadingsNext
  <1> QED
    BY <1>1, <1>2, PTL DEF ReadingsSpec

\* Type correctness of the controller, its clock and the history.
THEOREM ReadingsTypeCorrect == ReadingsSpec => []ReadingsTypeOK
  <1>1. ReadingsInv => ReadingsTypeOK
    BY DEF ReadingsInv, ReadingsTypeOK, RecoveryTypeOK, ClockTypeOK, Sound
  <1> QED
    BY <1>1, ReadingsInvariant, PTL

\* k counted checks mean that nothing but healthy readings was seen for k - 1
\* intervals, whatever the policy and however often evaluate() is polled.
THEOREM ProgressEarned == ReadingsSpec => []ProgressIsEarned
  <1>1. ReadingsInv => ProgressIsEarned
    BY DEF ReadingsInv, ProgressIsEarned, Earned
  <1> QED
    BY <1>1, ReadingsInvariant, PTL

\* The block is released only after the cooldown and after a run of healthy
\* readings of RequiredHealthyChecks - 1 intervals, never by an unhealthy one.
THEOREM ReleaseEarned == ReadingsSpec => ReleaseIsEarned
  <1> DEFINE Step ==
        recovery.latched /\ ~recovery'.latched =>
          /\ now - recovery.blockedSince >= CooldownSeconds
          /\ IsStamp(healthySince')
          /\ now - healthySince'
                >= (RequiredHealthyChecks - 1) * MinHealthyCheckInterval
  <1>1. ReadingsInv /\ [ReadingsNext]_readingsVars => [Step]_readingsVars
    <2> SUFFICES ASSUME ReadingsInv, ReadingsNext,
                        recovery.latched, ~recovery'.latched
                 PROVE  /\ now - recovery.blockedSince >= CooldownSeconds
                        /\ IsStamp(healthySince')
                        /\ now - healthySince'
                             >= (RequiredHealthyChecks - 1) * MinHealthyCheckInterval
      BY DEF Step
    <2>1. PICK d \in Reports : TakeReading(d)
      BY DEF ReadingsNext, LetTimePass
    <2> DEFINE r == AfterReading(recovery, d, now)
    <2>2. Releases(recovery, d, now)
      <3>1. recovery' = HysteresisState(recovery, d, now)
        BY <2>1 DEF TakeReading, EvaluateHysteresis
      <3>2. now \in Nat /\ Sound(recovery, now)
        BY DEF ReadingsInv
      <3>3. r.latched
        BY <3>2, AfterReadingIsSound
      <3> QED
        BY <3>1, <3>3 DEF HysteresisState
    <2>3. /\ Sound(recovery, now)
          /\ now \in Nat
          /\ recovery.blockedSince \in 0..now
      BY DEF ReadingsInv, Sound
    <2>4. /\ Sound(r, now)
          /\ r.blockedSince = recovery.blockedSince
      BY <2>2, <2>3, AfterReadingIsSound DEF Releases
    <2>5. /\ r.healthyChecks >= RequiredHealthyChecks
          /\ r.healthyChecks \in Nat
          /\ ElapsedSince(r.blockedSince, now) >= CooldownSeconds
      BY <2>2, <2>4 DEF Releases, RecoveryRequirementsMet, Sound, RecoveryStates
    <2>6. now - recovery.blockedSince >= CooldownSeconds
      BY <2>3, <2>4, <2>5, HysteresisPolicyAssumption DEF ElapsedSince, IsStamp, None
    <2>7. Earned(r, healthySince')
      BY <2>1, ReadingEarns
    <2>8. r.healthyChecks > 0
      BY <2>5, HysteresisPolicyAssumption
    <2>9. /\ healthySince' \in r.blockedSince..r.lastHealthyCheckAt
          /\ r.lastHealthyCheckAt \in r.blockedSince..now
          /\ r.lastHealthyCheckAt - healthySince'
                >= (r.healthyChecks - 1) * MinHealthyCheckInterval
      BY <2>4, <2>7, <2>8 DEF Earned, Sound
    <2>10. IsStamp(healthySince')
      BY <2>9, <2>4, <2>3 DEF IsStamp, None
    <2>11. (r.healthyChecks - 1) * MinHealthyCheckInterval
             >= (RequiredHealthyChecks - 1) * MinHealthyCheckInterval
      BY <2>5, MoreChecksMoreTime, HysteresisPolicyAssumption
    <2>12. /\ (r.healthyChecks - 1) * MinHealthyCheckInterval \in Int
           /\ (RequiredHealthyChecks - 1) * MinHealthyCheckInterval \in Int
      BY <2>5, HysteresisPolicyAssumption
    <2> HIDE DEF r
    <2>13. now - healthySince'
             >= (RequiredHealthyChecks - 1) * MinHealthyCheckInterval
      BY <2>3, <2>4, <2>9, <2>11, <2>12
    <2> QED
      BY <2>6, <2>10, <2>13
  <1> QED
    BY <1>1, ReadingsInvariant, PTL DEF ReadingsSpec, ReleaseIsEarned

----------------------------------------------------------------------------
(***************************************************************************)
(* The trace.                                                              *)
(***************************************************************************)
Readings == [allowed : BOOLEAN, hard : SUBSET HardReasons]

Traces == [allowed : BOOLEAN, blockers : SUBSET Blockers]

Requests == [stage : {"idle", "reading", "done"}, reading : Readings, trace : Traces]

Witnesses == [held : SUBSET Gates, touched : SUBSET Gates]

\* The gates that are closed now.
ClosedNow == Closed(evidence, recovery, reserved)

\* What TraceIsTruthful says of one answer.
Truthful(trace, w) ==
    /\ w.held \subseteq Named(trace)
    /\ Named(trace) \subseteq w.touched
    /\ trace.allowed => w.held = {}

\* A request a that waits with the history w, while the gates c are closed:
\* what is closed throughout is closed now, what is closed now is remembered,
\* and the reading it has taken is one of those moments.
Waits(a, w, c) ==
    /\ w.held \subseteq c /\ c \subseteq w.touched
    /\ "degradation" \in w.held => a.reading.hard # {}
    /\ a.reading.hard # {} => "degradation" \in w.touched

Consistent(a, w, c) ==
    /\ a.stage = "reading" => Waits(a, w, c)
    /\ a.stage = "done" => Truthful(a.trace, w)

\* The inductive invariant of the answers.
TraceInv == /\ evidence \in Evidences
            /\ asking \in [Readers -> Requests]
            /\ witness \in [Readers -> Witnesses]
            /\ \A r \in Readers : Consistent(asking[r], witness[r], ClosedNow)

LEMMA EvaluateShape ==
  ASSUME NEW m
  PROVE  /\ Evaluate(m).hard \in SUBSET HardReasons
         /\ Evaluate(m).newEntriesAllowed = (Evaluate(m).hard = {})
  BY DEF Evaluate, RawHardReasons, HardReasons, When

LEMMA DegradationShape ==
  /\ DegradationNow \in Readings
  /\ DegradationNow.hard = Evaluate(evidence).hard
  BY EvaluateShape DEF DegradationNow, Readings

LEMMA ClosedShape ==
  /\ ClosedNow \in SUBSET Gates
  /\ "degradation" \in ClosedNow <=> DegradationNow.hard # {}
  /\ recovery.latched <=> "recovery" \in ClosedNow
  /\ reserved <=> "reservation" \in ClosedNow
  BY DegradationShape DEF ClosedNow, Closed, Gates, When

LEMMA TraceShape ==
  ASSUME NEW d \in Readings, NEW latched, NEW active
  PROVE  /\ Trace(d, latched, active) \in Traces
         /\ d.hard \subseteq Trace(d, latched, active).blockers
         /\ Trace(d, latched, active).allowed => d.hard = {} /\ ~latched /\ ~active
         /\ Named(Trace(d, latched, active)) =
              When(d.hard # {}, "degradation") \cup When(latched, "recovery")
                                               \cup When(active, "reservation")
  <1> DEFINE t == Trace(d, latched, active)
  <1>1. /\ t.blockers = d.hard \cup When(latched, "recovery_hysteresis_active")
                               \cup When(active, "entry_reservation_active")
        /\ t.allowed = (t.blockers = {} /\ d.allowed)
        /\ t = [allowed |-> t.allowed, blockers |-> t.blockers]
    BY DEF Trace
  <1>2. d.hard \subseteq HardReasons
    BY DEF Readings
  <1>3. /\ "recovery_hysteresis_active" \notin HardReasons
        /\ "entry_reservation_active" \notin HardReasons
    BY DEF HardReasons
  <1> HIDE DEF t
  <1>4. /\ t.blockers \cap HardReasons = d.hard
        /\ "recovery_hysteresis_active" \in t.blockers <=> latched
        /\ "entry_reservation_active" \in t.blockers <=> active
    BY <1>1, <1>2, <1>3 DEF When
  <1>5. t \in Traces
    BY <1>1, <1>2 DEF Traces, Blockers, When
  <1>6. t.allowed => d.hard = {} /\ ~latched /\ ~active
    BY <1>1 DEF When
  <1>7. Named(t) = When(d.hard # {}, "degradation") \cup When(latched, "recovery")
                                                   \cup When(active, "reservation")
    BY <1>4 DEF Named, When
  <1>8. d.hard \subseteq t.blockers
    BY <1>1
  <1> QED
    BY <1>5, <1>6, <1>7, <1>8 DEF t

\* The answer of a request that has waited is true of the time it took.
LEMMA AnswerIsTruthful ==
  ASSUME TraceInv, NEW r \in Readers, asking[r].stage = "reading"
  PROVE  TraceNow(r) \in Traces /\ Truthful(TraceNow(r), witness[r])
  <1> DEFINE d == asking[r].reading
  <1>1. d \in Readings /\ witness[r] \in Witnesses
    BY DEF TraceInv, Requests
  <1>2. Waits(asking[r], witness[r], ClosedNow)
    BY DEF TraceInv, Consistent
  <1>3. /\ TraceNow(r) \in Traces
        /\ TraceNow(r).allowed => d.hard = {} /\ ~recovery.latched /\ ~reserved
        /\ Named(TraceNow(r)) =
             When(d.hard # {}, "degradation") \cup When(recovery.latched, "recovery")
                                              \cup When(reserved, "reservation")
    BY <1>1, TraceShape DEF TraceNow
  <1> DEFINE named == Named(TraceNow(r))
  <1>4. /\ "degradation" \in named <=> d.hard # {}
        /\ "recovery" \in named <=> "recovery" \in ClosedNow
        /\ "reservation" \in named <=> "reservation" \in ClosedNow
        /\ named \subseteq Gates
    BY <1>3, ClosedShape DEF When, Gates
  <1>5. witness[r].held \subseteq named
    BY <1>1, <1>2, <1>4 DEF Waits, Witnesses, Gates
  <1>6. named \subseteq witness[r].touched
    BY <1>2, <1>4 DEF Waits, Gates
  <1>7. TraceNow(r).allowed => witness[r].held = {}
    <2>1. TraceNow(r).allowed => named = {}
      BY <1>3 DEF When
    <2> QED
      BY <2>1, <1>5
  <1> QED
    BY <1>3, <1>5, <1>6, <1>7 DEF Truthful

LEMMA TraceInitially == Init => TraceInv
  <1>1. Idle \in Requests /\ NoWitness \in Witnesses
    BY DEF Idle, NoReading, NoTrace, NoWitness, Requests, Readings, Traces, Witnesses
  <1>2. Idle.stage = "idle"
    BY DEF Idle
  <1> QED
    BY <1>1, <1>2 DEF Init, TraceInv, Consistent

\* What changes the gates leaves the requests as they are.
LEMMA WitnessedStep ==
  ASSUME TraceInv, evidence' \in Evidences, Witness, asking' = asking
  PROVE  TraceInv'
  <1>1. ClosedNow' \in SUBSET Gates
    BY DEF ClosedNow, Closed, Gates, When
  <1>2. ClosedNow' = Closed(evidence', recovery', reserved')
    BY DEF ClosedNow
  <1>3. ASSUME NEW r \in Readers
        PROVE  /\ witness'[r] \in Witnesses
               /\ Consistent(asking[r], witness'[r], ClosedNow')
    <2>1. /\ witness[r] \in Witnesses /\ asking[r] \in Requests
          /\ Consistent(asking[r], witness[r], ClosedNow)
      BY DEF TraceInv
    <2>2. CASE asking[r].stage = "reading"
      <3>1. witness'[r] = [held    |-> witness[r].held \cap ClosedNow',
                           touched |-> witness[r].touched \cup ClosedNow']
        BY <1>2, <2>2 DEF Witness
      <3>2. witness'[r] \in Witnesses
        BY <1>1, <2>1, <3>1 DEF Witnesses
      <3> HIDE DEF ClosedNow
      <3> QED
        BY <2>1, <2>2, <3>1, <3>2 DEF Consistent, Waits
    <2>3. CASE asking[r].stage # "reading"
      <3>1. witness'[r] = witness[r]
        BY <2>3 DEF Witness
      <3> QED
        BY <2>1, <2>3, <3>1 DEF Consistent
    <2> QED
      BY <2>2, <2>3
  <1>4. witness' \in [Readers -> Witnesses]
    BY <1>3 DEF Witness
  <1> QED
    BY <1>3, <1>4 DEF TraceInv

\* A request begins with the gates of the moment.
LEMMA AskStep ==
  ASSUME TraceInv, NEW r \in Readers, Ask(r)
  PROVE  TraceInv'
  <1> DEFINE a == [stage |-> "reading", reading |-> DegradationNow, trace |-> NoTrace]
             w == [held |-> ClosedNow, touched |-> ClosedNow]
  <1>1. /\ asking' = [asking EXCEPT ![r] = a] /\ witness' = [witness EXCEPT ![r] = w]
        /\ evidence' = evidence /\ recovery' = recovery /\ reserved' = reserved
    BY DEF Ask, ClosedNow, gateVars
  <1>2. NoTrace \in Traces
    BY DEF NoTrace, Traces
  <1>3. a \in Requests /\ a.stage = "reading" /\ a.reading = DegradationNow
    BY <1>2, DegradationShape DEF Requests
  <1> HIDE DEF a
  <1>4. w \in Witnesses /\ w.held = ClosedNow /\ w.touched = ClosedNow
    BY ClosedShape DEF Witnesses
  <1>5. Consistent(a, w, ClosedNow)
    BY <1>3, <1>4, ClosedShape DEF Consistent, Waits
  <1>6. ClosedNow' = ClosedNow
    BY <1>1 DEF ClosedNow
  <1> HIDE DEF w
  <1> QED
    BY <1>1, <1>3, <1>4, <1>5, <1>6 DEF TraceInv

\* It ends with a true answer ...
LEMMA AnswerStep ==
  ASSUME TraceInv, NEW r \in Readers, Answer(r)
  PROVE  TraceInv'
  <1> DEFINE a == [stage |-> "done", reading |-> NoReading, trace |-> TraceNow(r)]
  <1>1. /\ asking' = [asking EXCEPT ![r] = a] /\ witness' = witness
        /\ evidence' = evidence /\ recovery' = recovery /\ reserved' = reserved
        /\ asking[r].stage = "reading"
    BY DEF Answer, Answered, gateVars
  <1>2. TraceNow(r) \in Traces /\ Truthful(TraceNow(r), witness[r])
    BY <1>1, AnswerIsTruthful
  <1>3. NoReading \in Readings
    BY DEF NoReading, Readings
  <1>4. a \in Requests /\ Consistent(a, witness[r], ClosedNow)
    BY <1>2, <1>3 DEF Requests, Consistent
  <1> HIDE DEF a
  <1>5. ClosedNow' = ClosedNow
    BY <1>1 DEF ClosedNow
  <1> QED
    BY <1>1, <1>4, <1>5 DEF TraceInv

\* ... or without one.
LEMMA NoAnswerStep ==
  ASSUME TraceInv, (\E r \in Readers : SaveFails(r)) \/ Restart \/ RestartUnread
  PROVE  TraceInv'
  <1>1. /\ Idle \in Requests /\ Idle.stage = "idle" /\ NoWitness \in Witnesses
    BY DEF Idle, NoReading, NoTrace, NoWitness, Requests, Readings, Traces, Witnesses
  <1>2. \A w \in Witnesses : \A c : Consistent(Idle, w, c)
    BY <1>1 DEF Consistent
  <1>3. evidence' = evidence /\ ClosedNow' = ClosedNow
    BY DEF SaveFails, Restart, RestartUnread, gateVars, ClosedNow
  <1>4. CASE \E r \in Readers : SaveFails(r)
    <2>1. PICK r \in Readers : /\ asking' = [asking EXCEPT ![r] = Idle]
                               /\ witness' = [witness EXCEPT ![r] = NoWitness]
      BY <1>4 DEF SaveFails
    <2> QED
      BY <1>1, <1>2, <1>3, <2>1 DEF TraceInv
  <1>5. CASE Restart \/ RestartUnread
    <2>1. /\ asking' = [r \in Readers |-> Idle]
          /\ witness' = [r \in Readers |-> NoWitness]
      BY <1>5 DEF Restart, RestartUnread, RequestsEnd
    <2> QED
      BY <1>1, <1>2, <1>3, <2>1 DEF TraceInv
  <1> QED
    BY <1>4, <1>5

LEMMA TraceInvariant == Spec => []TraceInv
  <1>1. TraceInv /\ [Next]_vars => TraceInv'
    <2> SUFFICES ASSUME TraceInv, [Next]_vars
                 PROVE  TraceInv'
      OBVIOUS
    <2>0. evidence \in Evidences
      BY DEF TraceInv
    <2>1. CASE ReadRecovery
      BY <2>0, <2>1, WitnessedStep DEF ReadRecovery
    <2>2. CASE EvidenceChanges
      BY <2>2, WitnessedStep DEF EvidenceChanges
    <2>3. CASE ReservationChanges
      BY <2>0, <2>3, WitnessedStep DEF ReservationChanges
    <2>4. CASE TimePasses \/ UNCHANGED vars
      <3>1. UNCHANGED <<evidence, recovery, reserved, asking, witness>>
        BY <2>4 DEF TimePasses, LetTimePass, vars, gateVars
      <3>2. ClosedNow' = ClosedNow
        BY <3>1 DEF ClosedNow
      <3> QED
        BY <3>1, <3>2 DEF TraceInv
    <2>5. CASE \E r \in Readers : Ask(r)
      BY <2>5, AskStep
    <2>6. CASE \E r \in Readers : Answer(r)
      BY <2>6, AnswerStep
    <2>7. CASE (\E r \in Readers : SaveFails(r)) \/ Restart \/ RestartUnread
      BY <2>7, NoAnswerStep
    <2> QED
      BY <2>1, <2>2, <2>3, <2>4, <2>5, <2>6, <2>7 DEF Next
  <1> QED
    BY <1>1, TraceInitially, PTL DEF Spec

\* For any number of requests at once, a gate closed throughout a request is
\* named in its answer, a gate that is named was closed at some moment of it,
\* and no entry is said to be allowed that a gate held back throughout
\* (kernel.py lines 1112-1131).
THEOREM TracesAreTruthful == Spec => []TraceIsTruthful
  <1>1. TraceInv => TraceIsTruthful
    BY DEF TraceInv, Consistent, Truthful, TraceIsTruthful
  <1> QED
    BY <1>1, TraceInvariant, PTL

----------------------------------------------------------------------------
(***************************************************************************)
(* The counters.                                                           *)
(***************************************************************************)
Labels == {"allowed", "denied"} \cup Blockers

\* The fields the answers are compared with.
Counts(m) == /\ m.approved \in Nat /\ m.rejected \in Nat
             /\ m.filters \in [Blockers -> Nat]
             /\ m = [approved |-> m.approved, rejected |-> m.rejected,
                     filters |-> m.filters, groups |-> m.groups]

Plus(a, trace) == [label \in DOMAIN a |-> a[label] + One(label \in Says(trace))]

\* The counters m have counted the answers a.
Covers(m, a) == /\ m.approved >= a["allowed"]
                /\ m.rejected >= a["denied"]
                /\ \A b \in Blockers : m.filters[b] >= a[b]

\* The inductive invariant of the counters: memory is never behind the file's
\* answers, or a restart and the next save would lose some.
CountInv == /\ Counts(counters) /\ Counts(file)
            /\ answered \in [Labels -> Nat]
            /\ Covers(counters, answered) /\ Covers(file, answered)

LEMMA RecordCounts ==
  ASSUME NEW m, Counts(m), NEW trace \in Traces, NEW a \in [Labels -> Nat], Covers(m, a)
  PROVE  /\ Counts(Record(m, trace))
         /\ Covers(Record(m, trace), a)
         /\ Plus(a, trace) \in [Labels -> Nat]
         /\ Covers(Record(m, trace), Plus(a, trace))
  <1> DEFINE x == Record(m, trace)
             p == Plus(a, trace)
  <1>1. /\ "allowed" \in Labels /\ "denied" \in Labels /\ Blockers \subseteq Labels
        /\ "allowed" \notin Blockers /\ "denied" \notin Blockers
    BY DEF Labels, Blockers, HardReasons
  <1>2. trace.blockers \subseteq Blockers
    BY DEF Traces
  <1>3. /\ p \in [Labels -> Nat]
        /\ \A l \in Labels : p[l] = a[l] + One(l \in Says(trace))
    BY DEF Plus, One
  <1>4. CASE trace.allowed
    <2>1. Says(trace) = {"allowed"}
      BY <1>4 DEF Says
    <2>2. /\ p["allowed"] = a["allowed"] + 1 /\ p["denied"] = a["denied"]
          /\ \A b \in Blockers : p[b] = a[b]
      BY <1>1, <1>3, <2>1 DEF One
    <2>3. x = [approved |-> m.approved + 1, rejected |-> m.rejected,
               filters |-> m.filters, groups |-> m.groups]
      BY <1>4 DEF Record, Counts
    <2> HIDE DEF p, x
    <2>4. Counts(x)
      BY <2>3 DEF Counts
    <2>5. Covers(x, a) /\ Covers(x, p)
      BY <1>1, <2>2, <2>3 DEF Counts, Covers
    <2> QED
      BY <1>3, <2>4, <2>5 DEF p, x
  <1>5. CASE ~trace.allowed
    <2>1. Says(trace) = {"denied"} \cup trace.blockers
      BY <1>5 DEF Says
    <2> DEFINE f == [b \in Blockers |-> m.filters[b] + One(b \in trace.blockers)]
               g == x.groups
    <2>2. /\ p["allowed"] = a["allowed"] /\ p["denied"] = a["denied"] + 1
          /\ \A b \in Blockers : p[b] = a[b] + One(b \in trace.blockers)
      BY <1>1, <1>2, <1>3, <2>1 DEF One
    <2>3. x = [approved |-> m.approved, rejected |-> m.rejected + 1,
               filters |-> f, groups |-> g]
      BY <1>5 DEF Record, Counts
    <2>4. f \in [Blockers -> Nat] /\ \A b \in Blockers : f[b] = m.filters[b] + One(b \in trace.blockers)
      BY DEF Counts, One
    <2>5. \A b \in Blockers : One(b \in trace.blockers) \in Nat
      BY DEF One
    <2> HIDE DEF p, x, f, g
    <2>6. Counts(x)
      BY <2>3, <2>4 DEF Counts
    <2>7. Covers(x, a) /\ Covers(x, p)
      BY <1>1, <2>2, <2>3, <2>4, <2>5 DEF Counts, Covers
    <2> QED
      BY <1>3, <2>6, <2>7 DEF p, x
  <1> QED
    BY <1>4, <1>5

LEMMA NothingCounted ==
  /\ Counts(NoDecision) /\ NoAnswers \in [Labels -> Nat] /\ Covers(NoDecision, NoAnswers)
  /\ \A m : Counts(m) => Covers(m, NoAnswers)
  BY DEF Counts, NoDecision, NoAnswers, Labels, Covers

LEMMA CountStep ==
  ASSUME TraceInv, CountInv, Next
  PROVE  CountInv'
  <1>1. CASE \E r \in Readers : Answer(r)
    <2>1. PICK r \in Readers : Answer(r)
      BY <1>1
    <2>2. TraceNow(r) \in Traces
      BY <2>1, AnswerIsTruthful DEF Answer
    <2>3. /\ counters' = Record(counters, TraceNow(r))
          /\ file' = Record(counters, TraceNow(r))
          /\ answered' = Plus(answered, TraceNow(r))
      BY <2>1 DEF Answer, Answered, Plus
    <2> QED
      BY <2>2, <2>3, RecordCounts DEF CountInv
  <1>2. CASE \E r \in Readers : SaveFails(r)
    <2>1. PICK r \in Readers : SaveFails(r)
      BY <1>2
    <2>2. TraceNow(r) \in Traces
      BY <2>1, AnswerIsTruthful DEF SaveFails
    <2>3. /\ counters' = Record(counters, TraceNow(r))
          /\ file' = file /\ answered' = answered
      BY <2>1 DEF SaveFails
    <2> QED
      BY <2>2, <2>3, RecordCounts DEF CountInv
  <1>3. CASE Restart
    BY <1>3 DEF Restart, CountInv
  <1>4. CASE RestartUnread
    BY <1>4, NothingCounted DEF RestartUnread, CountInv
  <1>5. CASE UNCHANGED countVars
    BY <1>5 DEF countVars, CountInv
  <1> QED
    BY <1>1, <1>2, <1>3, <1>4, <1>5
       DEF Next, ReadRecovery, TimePasses, EvidenceChanges, ReservationChanges, Ask

\* Whatever saves fail and whenever the process restarts, the file has counted
\* every answer given since the counters last started from zero, with each of
\* its blockers (filter_rigidity.py lines 41-70, 113-134).
THEOREM AnswersCounted == Spec => []AnswersAreCounted
  <1>1. Init => CountInv
    BY NothingCounted DEF Init, CountInv
  <1>2. TraceInv /\ CountInv /\ [Next]_vars => CountInv'
    <2>1. CASE UNCHANGED vars
      BY <2>1 DEF vars, countVars, CountInv
    <2> QED
      BY <2>1, CountStep
  <1>3. CountInv => AnswersAreCounted
    BY DEF CountInv, Covers, AnswersAreCounted
  <1> QED
    BY <1>1, <1>2, <1>3, TraceInvariant, PTL DEF Spec

----------------------------------------------------------------------------
\* Beside the requests the controller is read and waits as it does alone: every
\* step of the composition is one of ReadingsSpec or a stutter.  Hence what
\* holds of its checks and its releases holds here.
THEOREM TraceKeepsReadings == Spec => ReadingsSpec
  <1>1. Init => ReadingsInit
    BY DEF Init
  <1>2. TraceInv /\ [Next]_vars => [ReadingsNext]_readingsVars
    <2> SUFFICES ASSUME TraceInv, [Next]_vars
                 PROVE  ReadingsNext \/ UNCHANGED readingsVars
      OBVIOUS
    <2>1. CASE ReadRecovery
      <3>1. Evaluate(evidence) \in Reports
        BY TraceAssumption DEF TraceInv, Reports
      <3> QED
        BY <2>1, <3>1 DEF ReadRecovery, ReadingsNext
    <2>2. CASE TimePasses
      BY <2>2 DEF TimePasses, ReadingsNext
    <2>3. CASE ~ReadRecovery /\ ~TimePasses
      BY <2>3 DEF Next, vars, gateVars, readingsVars, EvidenceChanges, ReservationChanges,
                  Ask, Answer, SaveFails, Restart, RestartUnread
    <2> QED
      BY <2>1, <2>2, <2>3
  <1> QED
    BY <1>1, <1>2, TraceInvariant, PTL DEF Spec, ReadingsSpec

\* Counted checks are an interval apart, however often requests and status
\* queries poll the controller (recovery_hysteresis.py lines 56-75).
THEOREM ReadChecksAreSpaced == ReadingsSpec => []ChecksAreSpaced
  <1>1. ReadingsInv => ChecksAreSpaced
    BY DEF ReadingsInv, Sound, ChecksAreSpaced
  <1> QED
    BY <1>1, ReadingsInvariant, PTL
=============================================================================
