----------------------------- MODULE EntryTrace -----------------------------
(***************************************************************************)
(* The trace of the decision on a new entry, and the counters it keeps.    *)
(* From nexor_x/operations/entry_decision_trace.py,                        *)
(* filter_decision_telemetry.py and filter_rigidity.py, and the handler    *)
(* unified_entry_decision_trace() of kernel.py that puts them together.    *)
(*                                                                         *)
(* A request reads the degradation and then publishes an event, which      *)
(* suspends it when the queue of the event bus is full: evidence, block    *)
(* and reservation may change before it reads the last two and answers.    *)
(* Every answer is first counted and saved.  The saves of block and        *)
(* reservation are the subject of EntryAdmission; here a restart keeps     *)
(* both.  A BLOCKED degradation always has a hard reason.                  *)
(*                                                                         *)
(* The warnings and the exposure of a trace, which decide nothing, are     *)
(* left out.  The summary and the acceptance audit would read the trace    *)
(* too, but no request gets that far: see KernelHandlers.                  *)
(***************************************************************************)
EXTENDS RecoveryReadings

CONSTANTS
    Evidences,  \* the states of the evidence that are told apart
    Readers,    \* requests for the trace, those at the same time
    MaxAsked,   \* bound: requests in a behaviour
    MaxFaults   \* bound: saves that fail and files that cannot be read

ASSUME TraceAssumption == /\ Evidences \subseteq Metrics
                          /\ MaxAsked \in Nat /\ MaxFaults \in Nat

VARIABLES
    evidence,  \* what collect() and the certification would answer now
    reserved,  \* an entry reservation is active
    asking,    \* each request: where it is, what it has read, what it answered
    counters,  \* FilterRigidityMonitor._state
    file,      \* filter_rigidity_state.json
    asked, faults,
    witness,   \* history: the gates closed throughout, and at some time of, a request
    answered   \* history: the answers since the counters last started from zero

gateVars == <<now, recovery, healthySince, evidence, reserved>>
countVars == <<counters, file, answered>>
vars == <<gateVars, asking, countVars, asked, faults, witness>>

Gates == {"degradation", "recovery", "reservation"}

Blockers == HardReasons \cup {"recovery_hysteresis_active", "entry_reservation_active"}

NoReading == [allowed |-> FALSE, hard |-> {}]
NoTrace == [allowed |-> FALSE, blockers |-> {}]
Idle == [stage |-> "idle", reading |-> NoReading, trace |-> NoTrace]
NoWitness == [held |-> {}, touched |-> {}]

NoDecision == [approved |-> 0, rejected |-> 0,
               filters |-> [b \in Blockers |-> 0],
               groups  |-> [g \in {"CRITICAL", "SCORE"} |-> 0]]

NoAnswers == [label \in {"allowed", "denied"} \cup Blockers |-> 0]

----------------------------------------------------------------------------
(* The reports.                                                            *)

\* performance_degradation_status(): as much of its report as is read here.
DegradationNow ==
    LET d == Evaluate(evidence) IN [allowed |-> d.newEntriesAllowed, hard |-> d.hard]

\* Faulty variant: a reservation is shown but blocks nothing.
TraceIgnoringReservation(d, latched, active) ==
    LET blockers == d.hard \cup When(latched, "recovery_hysteresis_active")
    IN  [allowed |-> blockers = {} /\ d.allowed, blockers |-> blockers]

\* UnifiedEntryDecisionTrace.build
Trace(d, latched, active) ==
    LET blockers == d.hard \cup When(latched, "recovery_hysteresis_active")
                           \cup When(active, "entry_reservation_active")
    IN  [allowed |-> blockers = {} /\ d.allowed, blockers |-> blockers]

\* FilterDecisionTelemetry.classify: by the words in the reason, so that two
\* of the hard reasons of a block count as matters of score.
Group(blocker) ==
    IF blocker \in {"drawdown_limit_reached", "recovery_hysteresis_active",
                    "entry_reservation_active"}
    THEN "CRITICAL" ELSE "SCORE"

One(condition) == IF condition THEN 1 ELSE 0

\* record_trace and FilterRigidityMonitor.record, up to its save.
Record(monitor, trace) ==
    IF trace.allowed
    THEN [monitor EXCEPT !.approved = @ + 1]
    ELSE [monitor EXCEPT
            !.rejected = @ + 1,
            !.filters  = [b \in Blockers |-> @[b] + One(b \in trace.blockers)],
            !.groups   = [g \in DOMAIN @ |->
                             @[g] + Cardinality({b \in trace.blockers : Group(b) = g})]]

----------------------------------------------------------------------------
\* The gates that are closed to a new entry, from the gates' own state.
Closed(e, r, active) ==
    When(Evaluate(e).hard # {}, "degradation") \cup When(r.latched, "recovery")
                                               \cup When(active, "reservation")

\* The gates a trace names.
Named(trace) ==
    When(trace.blockers \cap HardReasons # {}, "degradation")
    \cup When("recovery_hysteresis_active" \in trace.blockers, "recovery")
    \cup When("entry_reservation_active" \in trace.blockers, "reservation")

\* What an answer says, for the history of the answers.
Says(trace) == IF trace.allowed THEN {"allowed"} ELSE {"denied"} \cup trace.blockers

Init ==
    /\ ReadingsInit
    /\ evidence \in Evidences /\ reserved = FALSE
    /\ asking = [r \in Readers |-> Idle]
    /\ counters = NoDecision /\ file = NoDecision
    /\ asked = 0 /\ faults = 0
    /\ witness = [r \in Readers |-> NoWitness] /\ answered = NoAnswers

\* What the history remembers of a change of the gates.
Witness ==
    LET closed == Closed(evidence', recovery', reserved')
    IN  witness' = [r \in Readers |->
                       IF asking[r].stage = "reading"
                       THEN [held    |-> witness[r].held \cap closed,
                             touched |-> witness[r].touched \cup closed]
                       ELSE witness[r]]

\* A request or a status query puts the evidence to the recovery guard.
ReadRecovery ==
    /\ TakeReading(Evaluate(evidence)) /\ UNCHANGED <<evidence, reserved>>
    /\ Witness
    /\ UNCHANGED <<asking, countVars, asked, faults>>

TimePasses ==
    /\ LetTimePass
    /\ UNCHANGED <<evidence, reserved, asking, countVars, asked, faults, witness>>

\* Trades are closed, shadows complete.
EvidenceChanges ==
    /\ evidence' \in Evidences \ {evidence}
    /\ UNCHANGED <<now, recovery, healthySince, reserved>>
    /\ Witness
    /\ UNCHANGED <<asking, countVars, asked, faults>>

\* An entry reserves the gate, settles, or lets its reservation expire.
ReservationChanges ==
    /\ reserved' = ~reserved
    /\ UNCHANGED <<now, recovery, healthySince, evidence>>
    /\ Witness
    /\ UNCHANGED <<asking, countVars, asked, faults>>

----------------------------------------------------------------------------
(* unified_entry_decision_trace().                                         *)

\* performance_degradation_status(): the evidence is read, the event published.
Ask(r) ==
    /\ asking[r].stage # "reading" /\ asked < MaxAsked
    /\ asking' = [asking EXCEPT ![r] = [stage   |-> "reading",
                                        reading |-> DegradationNow, trace |-> NoTrace]]
    /\ asked' = asked + 1
    /\ witness' = [witness EXCEPT ![r] = [held    |-> Closed(evidence, recovery, reserved),
                                          touched |-> Closed(evidence, recovery, reserved)]]
    /\ UNCHANGED <<gateVars, countVars, faults>>

\* The trace: block and reservation are looked at only now.
TraceNow(r) == Trace(asking[r].reading, recovery.latched, reserved)

Answered(r) ==
    /\ asking' = [asking EXCEPT ![r] = [stage   |-> "done", reading |-> NoReading,
                                        trace   |-> TraceNow(r)]]
    /\ answered' = [label \in DOMAIN answered |->
                       answered[label] + One(label \in Says(TraceNow(r)))]

\* The trace is built, counted, saved and answered.
Answer(r) ==
    /\ asking[r].stage = "reading"
    /\ counters' = Record(counters, TraceNow(r))
    /\ file' = counters'
    /\ Answered(r)
    /\ UNCHANGED <<gateVars, asked, faults, witness>>

\* Faulty variant: an error of the save is swallowed, and the trace answered.
SaveFailsQuietly(r) ==
    /\ asking[r].stage = "reading" /\ faults < MaxFaults
    /\ counters' = Record(counters, TraceNow(r))
    /\ Answered(r)
    /\ faults' = faults + 1
    /\ UNCHANGED <<gateVars, file, asked, witness>>

\* The save raises: counted in memory, not in the file, and the request ends in
\* an error.
SaveFails(r) ==
    /\ asking[r].stage = "reading" /\ faults < MaxFaults
    /\ counters' = Record(counters, TraceNow(r))
    /\ asking' = [asking EXCEPT ![r] = Idle]
    /\ witness' = [witness EXCEPT ![r] = NoWitness]
    /\ faults' = faults + 1
    /\ UNCHANGED <<gateVars, file, answered, asked>>

\* Whoever was waiting for an answer is gone.
RequestsEnd ==
    /\ asking' = [r \in Readers |-> Idle]
    /\ witness' = [r \in Readers |-> NoWitness]

\* The process starts again from the file ...
Restart ==
    /\ counters' = file
    /\ RequestsEnd
    /\ UNCHANGED <<gateVars, file, answered, asked, faults>>

\* ... or from zero, if _load() cannot read it.
RestartUnread ==
    /\ faults < MaxFaults
    /\ counters' = NoDecision
    /\ answered' = NoAnswers
    /\ RequestsEnd
    /\ faults' = faults + 1
    /\ UNCHANGED <<gateVars, file, asked>>

Next ==
    \/ ReadRecovery \/ TimePasses \/ EvidenceChanges \/ ReservationChanges
    \/ \E r \in Readers : Ask(r) \/ Answer(r) \/ SaveFails(r)
    \/ Restart \/ RestartUnread

Spec == Init /\ [][Next]_vars

----------------------------------------------------------------------------
\* An answer put together from readings of two moments is still true of the
\* time between them: a gate closed throughout the request is named, a gate
\* that is named was closed at some moment of it, and the entry is said to be
\* allowed only if no gate was closed throughout (kernel.py lines 1112-1131,
\* entry_decision_trace.py lines 21-51).
TraceIsTruthful ==
    \A r \in Readers : asking[r].stage = "done" =>
        LET trace == asking[r].trace
        IN  /\ witness[r].held \subseteq Named(trace)
            /\ Named(trace) \subseteq witness[r].touched
            /\ trace.allowed => witness[r].held = {}

\* Whatever saves fail and whenever the process restarts, the file has counted
\* every answer that was given since the counters last started from zero, with
\* each of its blockers (filter_rigidity.py lines 41-70, 113-134): no request
\* is answered that a restart would forget.
AnswersAreCounted ==
    /\ file.approved >= answered["allowed"]
    /\ file.rejected >= answered["denied"]
    /\ \A b \in Blockers : file.filters[b] >= answered[b]
=============================================================================
