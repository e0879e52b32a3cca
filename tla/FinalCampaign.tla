---------------------------- MODULE FinalCampaign ----------------------------
(***************************************************************************)
(* The final validation campaign of the server                             *)
(* (validation/final_campaign.py): passes of the acceptance audit, counted *)
(* at most once per interval, kept in memory and in a JSON file.           *)
(*                                                                         *)
(* The fields that only appear in reports (consecutive passes, failures,   *)
(* last status, failed checks) decide nothing and are left out.            *)
(***************************************************************************)
EXTENDS Clock

CONSTANTS RequiredPasses, MinimumInterval, MinimumCampaign

ASSUME CampaignAssumption ==
    /\ RequiredPasses \in Nat \ {0}
    /\ MinimumInterval \in Nat /\ MinimumCampaign \in Nat

VARIABLES
    memory,       \* the controller's _state
    file,         \* what a restart would load
    first,        \* history: when the first sample was counted
    earned        \* history: the passes ever counted, up to RequiredPasses

campaignVars == <<memory, file, first, earned>>

Campaigns == [startedAt : Stamps, lastSample : Stamps, passes : Nat]

CampaignTypeOK ==
    /\ memory \in Campaigns /\ file \in Campaigns
    /\ first \in Stamps /\ earned \in 0 .. RequiredPasses

NewCampaign == [startedAt |-> None, lastSample |-> None, passes |-> 0]

----------------------------------------------------------------------------
\* Faulty variant: the comparison is off by one.
IntervalElapsedLoosely(campaign) ==
    IsStamp(campaign.lastSample) => now - campaign.lastSample >= MinimumInterval - 1

\* Every counted sample starts a new interval, whether it passed or failed.
IntervalElapsed(campaign) ==
    IsStamp(campaign.lastSample) => now - campaign.lastSample >= MinimumInterval

Completed(campaign) ==
    /\ campaign.passes >= RequiredPasses
    /\ ElapsedSince(campaign.startedAt, now) >= MinimumCampaign

\* Faulty variant: a failure starts the count again, as it does for the sequence.
SampledResetting(campaign, passed) ==
    [startedAt  |-> IF IsStamp(campaign.startedAt) THEN campaign.startedAt ELSE now,
     lastSample |-> now,
     passes     |-> IF passed THEN campaign.passes + 1 ELSE 0]

\* Faulty variant: a failure costs a pass.
SampledDeducting(campaign, passed) ==
    [startedAt  |-> IF IsStamp(campaign.startedAt) THEN campaign.startedAt ELSE now,
     lastSample |-> now,
     passes     |-> IF passed THEN campaign.passes + 1 ELSE campaign.passes - 1]

\* A failure leaves the count of passes as it is.
Sampled(campaign, passed) ==
    [startedAt  |-> IF IsStamp(campaign.startedAt) THEN campaign.startedAt ELSE now,
     lastSample |-> now,
     passes     |-> IF passed THEN campaign.passes + 1 ELSE campaign.passes]

CampaignInit == memory = NewCampaign /\ file = NewCampaign /\ first = None /\ earned = 0

\* _save(): raises or is cut short before the new file replaces the old one, or
\* not.
Save(campaign) == file' \in {file, campaign}

\* record(): the sample counts in memory, whatever becomes of the file.
Record(passed) ==
    IF IntervalElapsed(memory)
    THEN /\ memory' = Sampled(memory, passed)
         /\ Save(Sampled(memory, passed))
         /\ first' = IF IsStamp(first) THEN first ELSE now
         /\ earned' = IF passed /\ earned < RequiredPasses THEN earned + 1 ELSE earned
    ELSE UNCHANGED campaignVars

\* A new process: __init__() and _load().
Reload == memory' = file /\ UNCHANGED <<file, first, earned>>

----------------------------------------------------------------------------
SpacedPasses(campaign) ==
    campaign.passes > 0 =>
        /\ IsStamp(campaign.startedAt) /\ campaign.startedAt <= campaign.lastSample
        /\ (campaign.passes - 1) * MinimumInterval <= campaign.lastSample - campaign.startedAt

(* The passes counted since the campaign began are at least an interval    *)
(* apart, in memory and in the file, although samples are lost when a save *)
(* fails, audits overlap and the process restarts: fast polling earns      *)
(* nothing.                                                                *)
PassesAreSpaced == SpacedPasses(memory) /\ SpacedPasses(file)
=============================================================================
