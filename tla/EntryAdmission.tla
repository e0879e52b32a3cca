--------------------------- MODULE EntryAdmission ---------------------------
(***************************************************************************)
(* How kernel.py composes the guards of nexor_x/operations around          *)
(* paper_open and testnet_order_create.                                    *)
(*                                                                         *)
(* Everything runs on one asyncio event loop, and the guards never await:  *)
(* between two suspension points a request is one atomic step.  A new      *)
(* entry therefore has two steps.  Begin reserves, evaluates the three     *)
(* guards and, if admitted, is suspended in an HTTP call (market data or   *)
(* the exchange).  Settle is what follows the answer: the fill, then the   *)
(* exits of the two context managers.  Other requests, readings and the    *)
(* clock move while an entry is suspended.                                 *)
(*                                                                         *)
(* The controllers' states are on disk; a request in flight is not.        *)
(***************************************************************************)
EXTENDS RecoveryHysteresis, PostRecoveryProbation, EntryReservation, Sequences

CONSTANTS Clients,        \* concurrent callers: AutoPaper, API requests
          Readings,       \* the degradation reports the environment produces
          MaxEntries,     \* bound: reservations ever made
          MaxCrashes      \* bound: crashes of the process

ASSUME ClientsAssumption == Readings \subseteq Reports /\ Readings # {}
ASSUME BoundsAssumption == MaxEntries \in Nat /\ MaxCrashes \in Nat

\* The policies of the code are fixed: a reservation lasts 30 s
\* (entry_reservation.py line 15), the cooldown of a block 15 minutes
\* (recovery_hysteresis.py line 12).
ASSUME TTLAssumption == ReservationTTL <= CooldownSeconds

VARIABLES
    task,           \* the request each client has in flight, or Idle
    issued,         \* reservations made so far: the source of fresh ids
    crashes

\* History: the entries created during the current probation; whether a request
\* outlived its reservation or was cut off by a crash.
VARIABLES fills, disturbed

guardVars == <<recovery, probation, reservation>>
historyVars == <<fills, disturbed>>
vars == <<now, guardVars, task, issued, crashes, historyVars>>

Kinds == {"PAPER", "TESTNET"}

Idle == [phase |-> "idle"]

InFlight == [phase     : {"inFlight"},
             kind      : Kinds,
             id        : Nat,
             exposure  : 1..FullExposure,
             startedAt : Nat]

IsInFlight(c) == task[c].phase = "inFlight"

----------------------------------------------------------------------------
(***************************************************************************)
(* The pure part: one evaluation of the chain of guards.                   *)
(***************************************************************************)

\* EntryAdmissionController.evaluate
AdmissionAllows(d, reduceOnly) == reduceOnly \/ d.newEntriesAllowed

\* entry_admission_status(): degradation -> hysteresis -> (a recovery starts a
\* probation) -> probation -> admission -> exposure ramp.
AdmissionStatus(d, reduceOnly) ==
    LET effective == EffectiveDegradation(recovery, d, now)
        started   == IF HysteresisTransition(recovery, d, now) = "RECOVERED"
                     THEN StartProbation(now) ELSE probation
        evaluated == ProbationState(started, effective, now)
    IN [recovery  |-> HysteresisState(recovery, d, now),
        started   |-> started,
        probation |-> evaluated,
        allowed   |-> AdmissionAllows(
                         DegradationAfterProbation(evaluated, effective, now, reduceOnly),
                         reduceOnly),
        exposure  |-> RampExposure(evaluated, reduceOnly)]

\* The second evaluation in require_entry_admission(), for an entry that the
\* first one allowed: hysteresis and probation again, without start().
SecondLook(first, d) ==
    LET effective == EffectiveDegradation(first.recovery, d, now)
        evaluated == ProbationState(first.probation, effective, now)
    IN [recovery  |-> HysteresisState(first.recovery, d, now),
        started   |-> first.started,
        probation |-> evaluated,
        allowed   |-> ProbationAllows(evaluated, effective, now, FALSE),
        exposure  |-> RampExposure(evaluated, FALSE)]

\* require_entry_admission(reduce_only=False)
RequireAdmission(d) ==
    LET first == AdmissionStatus(d, FALSE)
    IN IF first.allowed THEN SecondLook(first, d) ELSE first

----------------------------------------------------------------------------
Init == /\ HysteresisInit
        /\ probation = NotOnProbation
        /\ reservation = NoReservation
        /\ task = [c \in Clients |-> Idle]
        /\ issued = 0
        /\ crashes = 0
        /\ fills = <<>>
        /\ disturbed = FALSE

\* The history follows the probation: it is emptied when one starts or ends.
KeepFillsOfThisProbation ==
    fills' = IF probation'.active /\ probation'.startedAt = probation.startedAt
             THEN fills ELSE <<>>

\* Enough time is left for the reservation to expire within the bound.
MayReserve == /\ issued < MaxEntries
              /\ now + ReservationTTL <= MaxNow
              /\ CanReserve(reservation, now)

\* paper_open / testnet_order_create up to the first suspension.  (With another
\* reservation held, reserve() refuses and nothing changes.)
BeginEntry(c, kind, d) ==
    LET verdict == RequireAdmission(d) IN
    /\ ~IsInFlight(c)
    /\ MayReserve
    /\ issued' = issued + 1
    /\ recovery' = verdict.recovery
    /\ probation' = verdict.probation
    /\ KeepFillsOfThisProbation
    /\ IF verdict.allowed
       THEN /\ reservation' = Reserve(issued, now)
            /\ task' = [task EXCEPT ![c] = [phase     |-> "inFlight",
                                            kind      |-> kind,
                                            id        |-> issued,
                                            exposure  |-> verdict.exposure,
                                            startedAt |-> now]]
       ELSE \* the RuntimeError leaves both context managers: release()
            /\ reservation' = NoReservation
            /\ UNCHANGED task
    /\ UNCHANGED <<now, crashes, disturbed>>

\* The exposure an entry is created with: testnet_order_create scales the
\* requested quantity, paper_open sizes by the risk budget alone.
ExposureUsed(t) == IF t.kind = "TESTNET" THEN t.exposure ELSE FullExposure

\* The answer arrives and an entry is created: confirm(), then
\* record_successful_entry().
EntryFilled(c) ==
    /\ IsInFlight(c)
    /\ reservation' = Settle(reservation, task[c].id, now)
    /\ probation' = AfterSuccessfulEntry(probation, now)
    /\ fills' = IF probation.active
                THEN Append(fills, [at |-> now, exposure |-> ExposureUsed(task[c])])
                ELSE <<>>
    /\ task' = [task EXCEPT ![c] = Idle]
    /\ UNCHANGED <<now, recovery, issued, crashes, disturbed>>

\* The call returns without an exception but creates nothing: a REJECTED PAPER
\* fill, or the stored answer of a duplicate TESTNET order.  The context
\* managers cannot tell this from a fill.
EntryReturnedEmpty(c) ==
    /\ IsInFlight(c)
    /\ reservation' = Settle(reservation, task[c].id, now)
    /\ probation' = AfterSuccessfulEntry(probation, now)
    /\ task' = [task EXCEPT ![c] = Idle]
    /\ UNCHANGED <<now, recovery, issued, crashes, historyVars>>

\* An exception (timeout, lock, cancellation): release(), nothing recorded.
EntryFailed(c) ==
    /\ IsInFlight(c)
    /\ reservation' = Settle(reservation, task[c].id, now)
    /\ task' = [task EXCEPT ![c] = Idle]
    /\ UNCHANGED <<now, recovery, probation, issued, crashes, historyVars>>

\* GET /api/operations/entry-admission, and the admission of a reduce-only
\* TESTNET order, which bypasses the reservation and the bookkeeping.
QueryAdmission(d, reduceOnly) ==
    /\ recovery' = AdmissionStatus(d, reduceOnly).recovery
    /\ probation' = AdmissionStatus(d, reduceOnly).probation
    /\ KeepFillsOfThisProbation
    /\ UNCHANGED <<now, reservation, task, issued, crashes, disturbed>>

\* GET /api/operations/recovery-hysteresis: evaluates, and drops the transition.
QueryHysteresis(d) ==
    /\ EvaluateHysteresis(d)
    /\ UNCHANGED <<now, probation, reservation, task, issued, crashes, historyVars>>

\* GET /api/operations/entry-reservation
QueryReservation ==
    /\ reservation' = Unexpired(reservation, now)
    /\ UNCHANGED <<now, recovery, probation, task, issued,
                   crashes, historyVars>>

Outlived(c, t) == IsInFlight(c) /\ t >= task[c].startedAt + ReservationTTL

TimePasses ==
    /\ Advance
    /\ disturbed' = (disturbed \/ \E c \in Clients : Outlived(c, now'))
    /\ UNCHANGED <<guardVars, task, issued, crashes, fills>>

----------------------------------------------------------------------------
(***************************************************************************)
(* Crashes.  The requests in flight are lost; each controller restarts     *)
(* from the file it last renamed into place.                               *)
(***************************************************************************)
ProcessDies == /\ crashes < MaxCrashes
               /\ crashes' = crashes + 1
               /\ task' = [c \in Clients |-> Idle]
               /\ disturbed' = TRUE

\* Faulty variant: the hysteresis is not loaded when the process restarts.
CrashForgets == /\ ProcessDies
                /\ recovery' = Unlatched
                /\ UNCHANGED <<now, probation, reservation, issued, fills>>

Crash == /\ ProcessDies
         /\ UNCHANGED <<now, guardVars, issued, fills>>

\* Inside BeginEntry, after the reservation is saved: the hysteresis perhaps
\* saved too, and perhaps the probation.
CrashDuringAdmission(d) ==
    /\ MayReserve
    /\ ProcessDies
    /\ issued' = issued + 1
    /\ reservation' = Reserve(issued, now)
    /\ \/ UNCHANGED <<recovery, probation>>
       \/ EvaluateHysteresis(d) /\ UNCHANGED probation
       \/ /\ recovery' = RequireAdmission(d).recovery
          /\ probation' = RequireAdmission(d).probation
    /\ KeepFillsOfThisProbation
    /\ UNCHANGED now

\* Inside EntryFilled: the entry is committed; the reservation perhaps
\* confirmed; the probation not told.
CrashDuringSettlement(c) ==
    /\ IsInFlight(c)
    /\ ProcessDies
    /\ \/ UNCHANGED reservation
       \/ reservation' = Settle(reservation, task[c].id, now)
    /\ fills' = IF probation.active
                THEN Append(fills, [at |-> now, exposure |-> ExposureUsed(task[c])])
                ELSE <<>>
    /\ UNCHANGED <<now, recovery, probation, issued>>

Next == \/ \E d \in Readings :
              \/ \E c \in Clients, kind \in Kinds : BeginEntry(c, kind, d)
              \/ \E reduceOnly \in BOOLEAN : QueryAdmission(d, reduceOnly)
              \/ QueryHysteresis(d)
              \/ CrashDuringAdmission(d)
        \/ \E c \in Clients : \/ EntryFilled(c)
                              \/ EntryReturnedEmpty(c)
                              \/ EntryFailed(c)
                              \/ CrashDuringSettlement(c)
        \/ QueryReservation
        \/ TimePasses
        \/ Crash

Spec == Init /\ [][Next]_vars

\* Time does not stop; nothing else is assumed to happen.
FairSpec == Spec /\ WF_vars(TimePasses)

----------------------------------------------------------------------------
\* Type correctness.
TypeOK == /\ RecoveryTypeOK
          /\ ProbationTypeOK
          /\ ReservationTypeOK
          /\ task \in [Clients -> {Idle} \cup InFlight]
          /\ issued \in Nat
          /\ crashes \in Nat
          /\ fills \in Seq([at : Nat, exposure : 1..FullExposure])
          /\ disturbed \in BOOLEAN

\* The guards stay coherent under every interleaving of requests, queries and
\* crashes between their separate saves.
GuardsAreCoherent == /\ LatchIsCoherent
                     /\ ChecksAreSpaced
                     /\ ProbationIsCoherent
                     /\ ReservationIsCoherent

\* While its TTL runs, the reservation belongs to the one entry in flight that
\* made it: two entries are in flight together only if the older has outlived
\* its reservation (entry_reservation.py lines 105-137).
SerializedWithinTTL ==
    \A c, e \in Clients :
        (c # e /\ IsInFlight(c) /\ IsInFlight(e)) => Outlived(c, now) \/ Outlived(e, now)

\* Releasing is by id: a reservation disappears only because it expired or
\* because the entry that holds it left its transaction (lines 149 and 174).
\* A late request never frees the reservation of the one that replaced it.
NoForeignRelease ==
    [][IsHeld(reservation) /\ reservation'.id # reservation.id =>
          \/ now >= reservation.expiresAt
          \/ \E c \in Clients : /\ IsInFlight(c)
                                /\ task[c].id = reservation.id
                                /\ ~IsInFlight(c)']_vars

\* Once the block is latched no entry gets past the gate: whatever is still in
\* flight was admitted no later than the BLOCKED reading.
LatchStopsNewEntries ==
    recovery.latched =>
        \A c \in Clients : IsInFlight(c) => task[c].startedAt <= recovery.blockedSince

\* During a probation no more entries are created than the policy admits, and
\* each one is accounted for, as long as no request outlived its reservation
\* and no crash fell between an entry and its record.
ProbationCapHolds ==
    (probation.active /\ ~disturbed) =>
        /\ Len(fills) <= probation.admittedEntries
        /\ probation.admittedEntries <= MaxProbationEntries

\* ... and consecutive entries are the policy's interval apart, though the
\* interval is checked before the suspension and the stamp is set after it.
ProbationEntriesAreSpaced ==
    (probation.active /\ ~disturbed) =>
        \A i \in 2..Len(fills) : fills[i].at - fills[i - 1].at >= MinEntryInterval

\* The exposure decided at admission is still the one the ramp grants when the
\* answer arrives: a TESTNET entry never exceeds it.
ExposureStillCurrent ==
    ~disturbed => \A c \in Clients :
        IsInFlight(c) => task[c].exposure <= RampExposure(probation, FALSE)

\* Whatever happens to its holder, a crash included, the gate becomes free
\* again: the TTL is what keeps a lost holder from blocking entries for ever.
ReservationIsNeverStuck == []<>CanReserve(reservation, now)

\* The composition drives the recovery controller as its own specification
\* allows, crashes between saves included.
ImplementsHysteresis == HysteresisSpec

----------------------------------------------------------------------------
(***************************************************************************)
(* What the repository's documents say, and the code does not do.          *)
(***************************************************************************)

\* docs/AUDIT_UPDATE_45.md: the probation applies after RECOVERED.
RecoveryStartsProbation ==
    [][recovery.latched /\ ~recovery'.latched => probation'.active]_vars
=============================================================================
