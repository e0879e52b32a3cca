--------------------- MODULE RecoveryHysteresis_proofs ---------------------
(***************************************************************************)
(* Proofs about the recovery controller alone, for every policy: its       *)
(* invariant HysteresisInv is inductive.  The lemmas speak of one state s  *)
(* at a time t, so that the modules that compose the controller with other *)
(* guards, and evaluate it twice in one step, can use them.                *)
(***************************************************************************)
EXTENDS RecoveryHysteresis, TLAPS

\* HysteresisInv, of any state at any time.
Sound(s, t) ==
    /\ s \in RecoveryStates
    /\ IF s.latched THEN s.blockedSince \in 0..t ELSE s = Unlatched
    /\ s.healthyChecks > 0 =>
          /\ s.lastHealthyCheckAt \in s.blockedSince..t
          /\ s.lastHealthyCheckAt - s.blockedSince
                >= (s.healthyChecks - 1) * MinHealthyCheckInterval

LEMMA SoundIsInv == HysteresisInv <=> now \in Nat /\ Sound(recovery, now)
  BY DEF HysteresisInv, RecoveryTypeOK, ClockTypeOK, LatchIsCoherent,
         ChecksAreSpaced, Sound

LEMMA UnlatchedIsSound == \A t \in Nat : Sound(Unlatched, t)
  BY DEF Sound, Unlatched, RecoveryStates, Stamps, None

\* One more interval.
LEMMA OneMoreInterval ==
  ASSUME NEW k \in Nat, NEW m \in Nat
  PROVE  (k + 1 - 1) * m = (k - 1) * m + m
  BY SMT

\* A state that was sound stays sound while time passes.
LEMMA SoundLater ==
  ASSUME NEW s, NEW t \in Nat, NEW u \in Nat, t <= u, Sound(s, t)
  PROVE  Sound(s, u)
  <1>1. /\ s \in RecoveryStates
        /\ s.latched => s.blockedSince \in 0..u
        /\ ~s.latched => s = Unlatched
    BY DEF Sound
  <1>2. ASSUME s.healthyChecks > 0
        PROVE  s.lastHealthyCheckAt \in s.blockedSince..u
    BY <1>1, <1>2 DEF Sound, RecoveryStates, Stamps, None
  <1> QED
    BY <1>1, <1>2 DEF Sound

\* Taking a reading into account keeps the state sound.
LEMMA AfterReadingIsSound ==
  ASSUME NEW s, NEW d, NEW t \in Nat, Sound(s, t)
  PROVE  /\ Sound(AfterReading(s, d, t), t)
         /\ d.state # "BLOCKED" => AfterReading(s, d, t).latched = s.latched
         /\ d.state # "BLOCKED" => AfterReading(s, d, t).blockedSince = s.blockedSince
         /\ d.state = "BLOCKED" => AfterReading(s, d, t).latched
  <1> DEFINE r == AfterReading(s, d, t)
  <1>s. /\ s = [latched |-> s.latched, blockedSince |-> s.blockedSince,
                healthyChecks |-> s.healthyChecks,
                lastHealthyCheckAt |-> s.lastHealthyCheckAt]
        /\ s.latched \in BOOLEAN
        /\ s.blockedSince \in Stamps
        /\ s.healthyChecks \in Nat
        /\ s.lastHealthyCheckAt \in Stamps
        /\ s.latched => s.blockedSince \in 0..t
        /\ ~s.latched => s = Unlatched
        /\ ~s.latched => s.blockedSince = None
    BY DEF Sound, RecoveryStates, Unlatched
  <1>1. CASE d.state = "BLOCKED"
    <2>1. r = [latched            |-> TRUE,
               blockedSince       |-> IF IsStamp(s.blockedSince)
                                      THEN s.blockedSince ELSE t,
               healthyChecks      |-> 0,
               lastHealthyCheckAt |-> None]
      BY <1>1 DEF AfterReading
    <2>2. r.blockedSince \in 0..t
      BY <2>1, <1>s DEF IsStamp, Stamps, None
    <2> QED
      BY <1>1, <2>1, <2>2 DEF Sound, RecoveryStates, Stamps, None
  <1>2. CASE d.state # "BLOCKED" /\ s.latched /\ ~HealthyForRecovery(d)
    <2>1. r = [s EXCEPT !.healthyChecks = 0, !.lastHealthyCheckAt = None]
      BY <1>2 DEF AfterReading
    <2>2. r = [latched |-> s.latched, blockedSince |-> s.blockedSince,
               healthyChecks |-> 0, lastHealthyCheckAt |-> None]
      BY <2>1, <1>s
    <2> QED
      BY <1>2, <2>2, <1>s DEF Sound, RecoveryStates, Stamps, None
  <1>3. CASE /\ d.state # "BLOCKED" /\ s.latched /\ HealthyForRecovery(d)
             /\ CanCountHealthyCheck(s, t)
    <2>1. r = [s EXCEPT !.healthyChecks = @ + 1, !.lastHealthyCheckAt = t]
      BY <1>3 DEF AfterReading
    <2>2. r = [latched |-> s.latched, blockedSince |-> s.blockedSince,
               healthyChecks |-> s.healthyChecks + 1, lastHealthyCheckAt |-> t]
      BY <2>1, <1>s
    <2>3. t \in s.blockedSince..t
      BY <1>3, <1>s
    <2>4. t - s.blockedSince >= (s.healthyChecks + 1 - 1) * MinHealthyCheckInterval
      <3>1. CASE s.healthyChecks = 0
        BY <3>1, <2>3, <1>3, <1>s, HysteresisPolicyAssumption DEF None
      <3>2. CASE s.healthyChecks > 0
        <4>1. /\ s.lastHealthyCheckAt \in s.blockedSince..t
              /\ s.lastHealthyCheckAt - s.blockedSince
                    >= (s.healthyChecks - 1) * MinHealthyCheckInterval
          BY <3>2 DEF Sound
        <4>2. t - s.lastHealthyCheckAt >= MinHealthyCheckInterval
          BY <4>1, <1>3, <1>s DEF CanCountHealthyCheck, IsStamp, None
        <4>3. (s.healthyChecks + 1 - 1) * MinHealthyCheckInterval
                = (s.healthyChecks - 1) * MinHealthyCheckInterval
                     + MinHealthyCheckInterval
          BY OneMoreInterval, <1>s, HysteresisPolicyAssumption
        <4>4. (s.healthyChecks - 1) * MinHealthyCheckInterval \in Int
          BY <1>s, HysteresisPolicyAssumption
        <4> HIDE DEF r
        <4> QED
          BY <4>1, <4>2, <4>3, <4>4, <1>3, <1>s, HysteresisPolicyAssumption DEF None
      <3> QED
        BY <3>1, <3>2, <1>s
    <2> QED
      BY <1>3, <2>2, <2>3, <2>4, <1>s DEF Sound, RecoveryStates, Stamps, None
  <1>4. CASE /\ d.state # "BLOCKED"
             /\ ~(s.latched /\ ~HealthyForRecovery(d))
             /\ ~(s.latched /\ HealthyForRecovery(d) /\ CanCountHealthyCheck(s, t))
    BY <1>4 DEF AfterReading
  <1> QED
    BY <1>1, <1>2, <1>3, <1>4

\* So does a whole call of evaluate().
LEMMA HysteresisStateIsSound ==
  ASSUME NEW s, NEW d, NEW t \in Nat, Sound(s, t)
  PROVE  Sound(HysteresisState(s, d, t), t)
  BY AfterReadingIsSound, UnlatchedIsSound DEF HysteresisState

----------------------------------------------------------------------------
LEMMA HysteresisStep ==
  ASSUME HysteresisInv, [HysteresisNext]_<<now, recovery>>
  PROVE  HysteresisInv'
  <1> SUFFICES now' \in Nat /\ Sound(recovery', now')
    BY DEF HysteresisInv, RecoveryTypeOK, ClockTypeOK, LatchIsCoherent,
           ChecksAreSpaced, Sound
  <1>0. now \in Nat /\ Sound(recovery, now)
    BY SoundIsInv
  <1>1. CASE (\E d \in Reports : EvaluateHysteresis(d)) /\ UNCHANGED now
    BY <1>0, <1>1, HysteresisStateIsSound DEF EvaluateHysteresis
  <1>2. CASE Advance /\ UNCHANGED recovery
    <2>1. now' = now + 1 /\ recovery' = recovery
      BY <1>2 DEF Advance
    <2> QED
      BY <2>1, <1>0, SoundLater
  <1>3. CASE UNCHANGED <<now, recovery>>
    BY <1>0, <1>3
  <1> QED
    BY <1>1, <1>2, <1>3 DEF HysteresisNext

\* The controller of every policy keeps its invariant: the type of its saved
\* state, LatchIsCoherent and ChecksAreSpaced (evaluate(), lines 36-117).
THEOREM HysteresisInvariant == HysteresisSpec => []HysteresisInv
  <1>1. HysteresisInit => HysteresisInv
    BY SoundIsInv, UnlatchedIsSound
       DEF HysteresisInit, RecoveryInit, ClockInit
  <1>2. HysteresisInv /\ [HysteresisNext]_<<now, recovery>> => HysteresisInv'
    BY HysteresisStep
  <1> QED
    BY <1>1, <1>2, PTL DEF HysteresisSpec

\* The part of it that the runs check by name.
THEOREM LatchCoherence == HysteresisSpec => [](LatchIsCoherent /\ ChecksAreSpaced)
  <1>1. HysteresisInv => LatchIsCoherent /\ ChecksAreSpaced
    BY DEF HysteresisInv
  <1> QED
    BY <1>1, HysteresisInvariant, PTL
=============================================================================
