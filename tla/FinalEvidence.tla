---------------------------- MODULE FinalEvidence ----------------------------
(***************************************************************************)
(* From the campaign to the dossier that precedes a discussion of live     *)
(* trading: the programs of tools/ around the server.                      *)
(*                                                                         *)
(* The orchestrator repeats a cycle: a tick of the campaign, the           *)
(* completion watchdog, the audit of the bundle's integrity and the        *)
(* dossier.  The watchdog is also a program of its own.  The programs      *)
(* share nothing but the server and the files under reports/.              *)
(*                                                                         *)
(* rc_verify.py and evidence_progress_recorder.py, the first and third     *)
(* steps of a cycle, write reports that no program reads and are left out. *)
(* A bundle's hash is known by its writer: a digest matches a bundle when  *)
(* both are from the latest evaluation of the same watchdog.               *)
(*                                                                         *)
(* As the kernel is wired, nothing here gets far: every handler that asks  *)
(* for the acceptance audit raises (AuditAnswers, KernelHandlers), so no   *)
(* tick counts and no completion is answered; certification is never       *)
(* positive (EvidenceLadder); and the kernel has no live_readiness that a  *)
(* release candidate would find (kernel.py lines 1011-1012).  The module   *)
(* lets the audit, the certification and the candidate answer what their   *)
(* evaluators may, or fail, at any time: it says what may never come of    *)
(* that, and never that something comes of it.                             *)
(***************************************************************************)
EXTENDS FinalCampaign

CONSTANTS
    EnvironmentReady,   \* the credentials are set and the mode is not LIVE
    AuditAnswers        \* operational_acceptance_audit() returns: as the kernel is
                        \* wired (kernel.py lines 312-313) it raises a TypeError

ASSUME EnvironmentAssumption == {EnvironmentReady, AuditAnswers} \subseteq BOOLEAN

VARIABLES
    audit,         \* the acceptance audit would pass
    certified,     \* live certification would certify the evidence
    pc,            \* where the orchestrator is
    watch,         \* where each watchdog is
    bundle, digest,     \* final_evidence_bundle.json and .sha256
    report,        \* final_evidence_integrity_audit.json
    dossier,       \* live_preauthorization_dossier.json
    wasCertified   \* history: the evidence has been certified at some time

gateVars == <<audit, certified, wasCertified>>
fileVars == <<bundle, digest, report, dossier>>
vars == <<now, memory, file, first, earned, audit, certified, wasCertified, pc, watch,
          bundle, digest, report, dossier>>

\* The watchdog the orchestrator runs, and the one an operator runs.
Watchdogs == {"cycle", "alone"}

NoFile == "noFile"
Broken == "broken"     \* cut short, or from an evaluation that was overtaken

\* What evaluate() reads, one suspension of the server after the other: live
\* certification, the campaign, the completion gate (its audit together with
\* the campaign, then its certification) and the release candidate.
Questions == {"certification", "campaign", "completion", "evidence", "candidate"}

After == [certification |-> "campaign", campaign |-> "completion", completion |-> "evidence",
          evidence |-> "candidate", candidate |-> "bundle"]

\* FinalTechnicalCompletionGate.evaluate, as far as it is known before the
\* gate asks for the certification.  Without an audit the request fails, and a
\* request that fails ends the watchdog as a negative answer does.
CompletionStands == AuditAnswers /\ audit /\ Completed(memory)

\* ReleaseCandidateAudit.evaluate, with every component in its place.
ReleaseCandidateReady == AuditAnswers /\ audit

Answer(question) ==
    CASE question = "campaign"                     -> Completed(memory)
      [] question = "completion"                   -> CompletionStands
      [] question \in {"certification", "evidence"} -> certified
      [] question = "candidate"                    -> ReleaseCandidateReady

WatchStates == {"idle", "bundle", "digest"} \cup Questions

TypeOK ==
    /\ ClockTypeOK /\ CampaignTypeOK
    /\ audit \in BOOLEAN /\ certified \in BOOLEAN /\ wasCertified \in BOOLEAN
    /\ pc \in {"tick", "recordPass", "recordFail", "watch", "watching",
               "integrity", "preauthorization"}
    /\ watch \in [Watchdogs -> WatchStates]
    /\ bundle \in {NoFile, Broken} \cup Watchdogs
    /\ digest \in {NoFile, Broken} \cup Watchdogs
    /\ report \in {NoFile, "invalid", "verified"}
    /\ dossier \in {NoFile, "blocked", "ready"}

Init ==
    /\ ClockInit /\ CampaignInit
    /\ audit = FALSE /\ certified = FALSE /\ wasCertified = FALSE
    /\ pc = "tick" /\ watch = [w \in Watchdogs |-> "idle"]
    /\ bundle = NoFile /\ digest = NoFile /\ report = NoFile /\ dossier = NoFile
----------------------------------------------------------------------------
(* The server.                                                             *)

\* Evidence and the operational gates come and go at any time.
GatesChange ==
    /\ audit' \in BOOLEAN /\ certified' \in BOOLEAN
    /\ wasCertified' = (wasCertified \/ certified')
    /\ UNCHANGED <<now, campaignVars, pc, watch, fileVars>>

TimePasses == Advance /\ UNCHANGED <<campaignVars, gateVars, pc, watch, fileVars>>

\* POST .../final-campaign/tick from somebody else, a runner or a browser.
ApiTick == /\ AuditAnswers
           /\ Record(audit)
           /\ UNCHANGED <<now, gateVars, pc, watch, fileVars>>

IsRecording == pc \in {"recordPass", "recordFail"}

\* The requests under way fail; a watchdog's may also have been answered.
ServerRestarts ==
    /\ Reload
    /\ pc' = IF IsRecording THEN "watch" ELSE pc
    /\ UNCHANGED <<now, gateVars, watch, fileVars>>

----------------------------------------------------------------------------
(* The watchdog: evaluate().                                               *)

\* Where a watchdog goes, and with it the orchestrator that waits for it.
Goes(w, to) ==
    /\ watch' = [watch EXCEPT ![w] = to]
    /\ pc' = IF w = "cycle" /\ to = "idle" THEN "integrity" ELSE pc

Begin == /\ pc = "watch" /\ pc' = "watching"
         /\ watch' = [watch EXCEPT !["cycle"] = "certification"]
         /\ UNCHANGED <<now, campaignVars, gateVars, fileVars>>

\* The operator's watchdog is there for what it writes: its answers come at once.
BeginAlone == /\ watch["alone"] = "idle" /\ \A question \in Questions : Answer(question)
              /\ Goes("alone", "bundle")
              /\ UNCHANGED <<now, campaignVars, gateVars, fileVars>>

\* Faulty variant: one requirement that fails does not make the verdict pending.
AskForgetting(w) ==
    /\ watch[w] \in Questions
    /\ Goes(w, IF watch[w] = "candidate" /\ ~Answer("candidate") THEN "idle"
               ELSE After[watch[w]])
    /\ UNCHANGED <<now, campaignVars, gateVars, fileVars>>

\* One answer.  Once a requirement fails the remaining ones change nothing.
Ask(w) ==
    /\ watch[w] \in Questions
    /\ Goes(w, IF Answer(watch[w]) THEN After[watch[w]] ELSE "idle")
    /\ UNCHANGED <<now, campaignVars, gateVars, fileVars>>

\* _persist_bundle(): first the bundle, in place,
WriteBundle(w) ==
    /\ watch[w] = "bundle"
    /\ bundle' = w
    /\ digest' = IF digest = w THEN Broken ELSE digest
    /\ Goes(w, "digest")
    /\ UNCHANGED <<now, campaignVars, gateVars, report, dossier>>

\* then the digest.
WriteDigest(w) ==
    /\ watch[w] = "digest"
    /\ digest' = w
    /\ Goes(w, "idle")
    /\ UNCHANGED <<now, campaignVars, gateVars, bundle, report, dossier>>

\* A request that fails, or the end of the program at any point: a file that
\* was being written in place may be left cut short.
WatchdogFails(w) ==
    /\ watch[w] # "idle"
    /\ bundle' \in {bundle} \cup (IF watch[w] = "bundle" THEN {Broken} ELSE {})
    /\ digest' \in {digest} \cup (IF watch[w] = "digest" THEN {Broken} ELSE {})
    /\ Goes(w, "idle")
    /\ UNCHANGED <<now, campaignVars, gateVars, report, dossier>>

----------------------------------------------------------------------------
(* The orchestrator: run_cycle(), again and again.  Its lock against a     *)
(* second orchestrator is not modelled, nor the length of its sleep, on    *)
(* which the server does not rely.                                         *)

Moves(from, to) == pc = from /\ pc' = to /\ UNCHANGED <<now, gateVars, watch>>

\* The audit of the tick is over before the server records it; where it raises,
\* there is no tick and TickFails is what happens.
Tick == /\ AuditAnswers
        /\ Moves("tick", IF audit THEN "recordPass" ELSE "recordFail")
        /\ UNCHANGED <<campaignVars, fileVars>>

TickRecorded == /\ IsRecording
                /\ Moves(pc, "watch")
                /\ Record(pc = "recordPass")
                /\ UNCHANGED fileVars

\* The runner reports a failure and the cycle goes on.
TickFails == Moves("tick", "watch") /\ UNCHANGED <<campaignVars, fileVars>>

\* audit() of the integrity tool.  A bundle that is whole says that every
\* requirement was met.
BundleIsSound == bundle \in Watchdogs /\ digest = bundle

CheckIntegrity ==
    /\ Moves("integrity", "preauthorization")
    /\ report' = IF bundle = NoFile THEN report
                 ELSE IF BundleIsSound THEN "verified" ELSE "invalid"
    /\ UNCHANGED <<campaignVars, bundle, digest, dossier>>

\* An audit that dies of an exception exits with 1, which the orchestrator
\* accepts as it accepts INVALID: the report of an earlier cycle stands.
IntegrityDies ==
    /\ bundle # NoFile
    /\ Moves("integrity", "preauthorization")
    /\ UNCHANGED <<campaignVars, fileVars>>

EvidenceVerified == report = "verified"

\* The dossier reads the report again.
Dossier == IF EnvironmentReady /\ EvidenceVerified THEN "ready" ELSE "blocked"

Preauthorize ==
    /\ Moves("preauthorization", "tick")
    /\ dossier' = IF EvidenceVerified THEN Dossier ELSE dossier
    /\ UNCHANGED <<campaignVars, bundle, digest, report>>

\* As with the audit, the failure of the tool is not seen.
DossierFails == Moves("preauthorization", "tick") /\ UNCHANGED <<campaignVars, fileVars>>

\* The orchestrator ends, the watchdog it runs with it, and is started again.
OrchestratorDies ==
    /\ pc' = "tick"
    /\ watch' = [watch EXCEPT !["cycle"] = "idle"]
    /\ bundle' \in {bundle} \cup (IF watch["cycle"] = "bundle" THEN {Broken} ELSE {})
    /\ digest' \in {digest} \cup (IF watch["cycle"] = "digest" THEN {Broken} ELSE {})
    /\ UNCHANGED <<now, campaignVars, gateVars, report, dossier>>

Fault ==
    \/ ServerRestarts \/ TickFails \/ IntegrityDies \/ DossierFails \/ OrchestratorDies
    \/ \E w \in Watchdogs : WatchdogFails(w)

Cycle ==
    \/ Tick \/ TickRecorded \/ CheckIntegrity \/ Preauthorize
    \/ Begin \/ Ask("cycle") \/ WriteBundle("cycle") \/ WriteDigest("cycle")

OperatorsWatchdogWrites == WriteBundle("alone") \/ WriteDigest("alone")

Next ==
    \/ TimePasses \/ GatesChange \/ ApiTick \/ Cycle
    \/ BeginAlone \/ OperatorsWatchdogWrites \/ Fault

Spec == Init /\ [][Next]_vars

----------------------------------------------------------------------------
(* What has been saved as a complete campaign stays complete: failures of  *)
(* the audit, saves that fail and restarts do not take it back.            *)
CompletionIsKept == [][Completed(file) => Completed(file)']_vars

(* A dossier that says LIVE_PREAUTH_READY was preceded by as many passes   *)
(* as the campaign requires, by a campaign as long as required and by      *)
(* evidence that was certified, whatever crashed, overlapped or was left   *)
(* over from earlier cycles.                                               *)
DossierIsEarned ==
    dossier = "ready" =>
        earned = RequiredPasses /\ ElapsedSince(first, now) >= MinimumCampaign /\ wasCertified
=============================================================================
