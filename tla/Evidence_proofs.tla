-------------------------- MODULE Evidence_proofs --------------------------
(***************************************************************************)
(* What evidence is worth, for every policy, and for campaigns of any      *)
(* length: a dossier and a milestone are earned whatever fails, restarts,  *)
(* overlaps or is cut short.                                               *)
(***************************************************************************)
EXTENDS FinalEvidence, EvidenceLadder, TLAPS

\* A campaign in memory or in the file began with its first sample, and its
\* passes are an interval apart.
SoundCampaign(c, t) ==
    /\ c \in Campaigns
    /\ c.startedAt = None => c.lastSample = None /\ c.passes = 0
    /\ c.startedAt # None =>
          /\ c.lastSample # None
          /\ c.startedAt <= c.lastSample /\ c.lastSample <= t
          /\ (c.passes - 1) * MinimumInterval <= c.lastSample - c.startedAt

\* It holds no pass that was not earned (count of them since the first sample),
\* and no time before that sample.
EarnedCampaign(c, since, count) ==
    /\ c.passes <= count \/ count = RequiredPasses
    /\ c.startedAt # None => since # None /\ since <= c.startedAt

\* What a restart loads is an earlier state of what is in memory.
FileIsBehind ==
    file.startedAt # None => file.startedAt = memory.startedAt /\ file.passes <= memory.passes

CampaignInv ==
    /\ now \in Nat
    /\ first \in Stamps /\ first <= now
    /\ earned \in 0..RequiredPasses
    /\ SoundCampaign(memory, now) /\ SoundCampaign(file, now)
    /\ EarnedCampaign(memory, first, earned) /\ EarnedCampaign(file, first, earned)
    /\ FileIsBehind

CampaignEarned == earned = RequiredPasses /\ ElapsedSince(first, now) >= MinimumCampaign

Earned == CampaignEarned /\ wasCertified

\* Where a watchdog has got to shows what was once so.
Knows(state) ==
    /\ state \in {"campaign", "completion", "evidence", "candidate", "bundle", "digest"}
          => wasCertified
    /\ state \in {"completion", "evidence", "candidate", "bundle", "digest"} => CampaignEarned

WatchKnows == \A w \in Watchdogs : Knows(watch[w])

FilesKnow == /\ bundle \in Watchdogs => Earned
             /\ report = "verified" => Earned
             /\ dossier = "ready" => Earned

EvidenceInv == /\ TypeOK /\ CampaignInv
               /\ certified => wasCertified
               /\ WatchKnows /\ FilesKnow

----------------------------------------------------------------------------
(* The campaign.                                                           *)

\* A step of the campaign keeps the invariant and takes nothing back.
CampaignGoesOn == /\ CampaignInv'
                  /\ now' >= now
                  /\ earned = RequiredPasses => earned' = RequiredPasses
                  /\ first # None => first' = first
                  /\ Completed(file) => Completed(file)'

LEMMA AnotherInterval ==
  ASSUME NEW n \in Nat, NEW d \in Int, NEW e \in Int,
         (n - 1) * MinimumInterval <= d, d + MinimumInterval <= e
  PROVE  n * MinimumInterval <= e
  <1>1. n * MinimumInterval = (n - 1) * MinimumInterval + MinimumInterval
    BY CampaignAssumption
  <1>2. (n - 1) * MinimumInterval \in Int /\ n * MinimumInterval \in Int
    BY CampaignAssumption
  <1> QED
    BY <1>1, <1>2, CampaignAssumption

LEMMA WaitingKeepsCampaign ==
  ASSUME CampaignInv, UNCHANGED campaignVars, now' \in Nat, now' >= now
  PROVE  CampaignGoesOn
  <1> USE DEF campaignVars, CampaignInv
  <1>1. SoundCampaign(memory, now)' /\ SoundCampaign(file, now)'
    BY CampaignAssumption DEF SoundCampaign, Campaigns, Stamps, None
  <1>2. EarnedCampaign(memory, first, earned)' /\ EarnedCampaign(file, first, earned)' /\ FileIsBehind'
    BY DEF EarnedCampaign, FileIsBehind
  <1>3. Completed(file) => Completed(file)'
    BY CampaignAssumption DEF Completed, ElapsedSince, IsStamp, SoundCampaign, Campaigns, Stamps, None
  <1>4. first' \in Stamps /\ first' <= now' /\ earned' \in 0..RequiredPasses
    BY DEF Stamps, None
  <1> QED
    BY <1>1, <1>2, <1>3, <1>4 DEF CampaignGoesOn

LEMMA ReloadKeepsCampaign ==
  ASSUME CampaignInv, Reload, now' = now
  PROVE  CampaignGoesOn
  <1> USE DEF Reload, CampaignInv
  <1>1. SoundCampaign(memory, now)' /\ SoundCampaign(file, now)'
    BY DEF SoundCampaign
  <1>2. EarnedCampaign(memory, first, earned)' /\ EarnedCampaign(file, first, earned)'
    BY DEF EarnedCampaign
  <1>3. FileIsBehind'
    BY DEF FileIsBehind, SoundCampaign, Campaigns
  <1>4. Completed(file) => Completed(file)'
    BY DEF Completed
  <1>5. now \in Int
    OBVIOUS
  <1> QED
    BY <1>1, <1>2, <1>3, <1>4, <1>5 DEF CampaignGoesOn

\* The sample that counts: it is what memory becomes and the file may become.
LEMMA SampleIsSound ==
  ASSUME CampaignInv, NEW passed \in BOOLEAN, IntervalElapsed(memory), now' = now,
         first' = (IF IsStamp(first) THEN first ELSE now),
         earned' = (IF passed /\ earned < RequiredPasses THEN earned + 1 ELSE earned),
         NEW STATE c, c = Sampled(memory, passed)
  PROVE  /\ SoundCampaign(c, now) /\ EarnedCampaign(c, first', earned')
         /\ memory.passes <= c.passes /\ c.startedAt # None
         /\ memory.startedAt # None => c.startedAt = memory.startedAt
  <1> USE DEF CampaignInv
  <1>1. memory.passes \in Nat /\ memory.startedAt \in Stamps /\ memory.lastSample \in Stamps
    BY DEF SoundCampaign, Campaigns
  <1>2. /\ c.startedAt = IF memory.startedAt # None THEN memory.startedAt ELSE now
        /\ c.lastSample = now
        /\ c.passes = IF passed THEN memory.passes + 1 ELSE memory.passes
        /\ c = [startedAt |-> c.startedAt, lastSample |-> now, passes |-> c.passes]
    BY DEF Sampled, IsStamp
  <1>3. c.passes \in Nat /\ c.startedAt \in Nat /\ c.startedAt <= now
    BY <1>1, <1>2 DEF SoundCampaign, Stamps, None
  <1>4. c \in Campaigns
    BY <1>2, <1>3 DEF Campaigns, Stamps
  <1>5. (c.passes - 1) * MinimumInterval <= now - c.startedAt
    <2>1. CASE memory.startedAt = None
      <3>1. memory.passes = 0 /\ c.startedAt = now
        BY <1>2, <2>1 DEF SoundCampaign
      <3>2. CASE passed
        <4>1. c.passes - 1 = 0 /\ 0 * MinimumInterval = 0
          BY <1>2, <3>1, <3>2, CampaignAssumption
        <4> QED
          BY <3>1, <4>1
      <3>3. CASE ~passed
        <4>1. c.passes - 1 = -1 /\ (-1) * MinimumInterval = -MinimumInterval
          BY <1>2, <3>1, <3>3, CampaignAssumption
        <4> QED
          BY <3>1, <4>1, CampaignAssumption
      <3> QED
        BY <3>2, <3>3
    <2>2. CASE memory.startedAt # None
      <3> DEFINE d == memory.lastSample - memory.startedAt
                 e == now - memory.startedAt
      <3>1. /\ memory.lastSample \in Nat /\ memory.startedAt \in Nat
            /\ (memory.passes - 1) * MinimumInterval <= d
            /\ memory.lastSample <= now /\ c.startedAt = memory.startedAt
        BY <1>1, <1>2, <2>2 DEF SoundCampaign, Stamps
      <3>2. d + MinimumInterval <= e
        BY <3>1, CampaignAssumption DEF IntervalElapsed, IsStamp, None
      <3>3. d \in Int /\ e \in Int /\ d <= e
        BY <3>1
      <3>4. memory.passes * MinimumInterval <= e
        <4> HIDE DEF d, e
        <4> QED
          BY <1>1, <3>1, <3>2, <3>3, AnotherInterval
      <3>5. CASE passed
        <4>1. c.passes - 1 = memory.passes
          BY <1>1, <1>2, <3>5
        <4> QED
          BY <3>1, <3>4, <4>1
      <3>6. CASE ~passed
        <4>1. c.passes = memory.passes /\ (c.passes - 1) * MinimumInterval \in Int
          BY <1>1, <1>2, <3>6, CampaignAssumption
        <4> QED
          BY <3>1, <3>3, <4>1
      <3> QED
        BY <3>5, <3>6
    <2> QED
      BY <2>1, <2>2
  <1>6. SoundCampaign(c, now)
    <2>1. /\ c \in Campaigns /\ c.startedAt # None /\ c.lastSample # None
          /\ c.startedAt <= c.lastSample /\ c.lastSample <= now
          /\ (c.passes - 1) * MinimumInterval <= c.lastSample - c.startedAt
      BY <1>2, <1>3, <1>4, <1>5 DEF None
    <2> QED
      BY <2>1 DEF SoundCampaign
  <1>7. EarnedCampaign(c, first', earned')
    <2>1. c.passes <= earned' \/ earned' = RequiredPasses
      BY <1>1, <1>2, CampaignAssumption DEF EarnedCampaign
    <2>2. first' # None /\ first' <= c.startedAt
      BY <1>1, <1>2 DEF EarnedCampaign, SoundCampaign, IsStamp, Stamps, None
    <2> QED
      BY <2>1, <2>2 DEF EarnedCampaign
  <1> QED
    BY <1>1, <1>2, <1>3, <1>6, <1>7 DEF None

LEMMA RecordKeepsCampaign ==
  ASSUME CampaignInv, NEW passed \in BOOLEAN, Record(passed), now' = now
  PROVE  CampaignGoesOn
  <1> USE DEF CampaignInv
  <1>1. CASE ~IntervalElapsed(memory)
    BY <1>1, WaitingKeepsCampaign DEF Record
  <1>2. CASE IntervalElapsed(memory)
    <2> DEFINE c == Sampled(memory, passed)
    <2>1. /\ memory' = c /\ file' \in {file, c}
          /\ first' = IF IsStamp(first) THEN first ELSE now
          /\ earned' = IF passed /\ earned < RequiredPasses THEN earned + 1 ELSE earned
      BY <1>2 DEF Record, Save
    <2>2. /\ SoundCampaign(c, now) /\ EarnedCampaign(c, first', earned')
          /\ memory.passes <= c.passes /\ c.startedAt # None
          /\ memory.startedAt # None => c.startedAt = memory.startedAt
      BY <1>2, <2>1, SampleIsSound
    <2> HIDE DEF c
    <2>3. SoundCampaign(file, now)' /\ EarnedCampaign(file, first, earned)' /\ SoundCampaign(memory, now)' /\ EarnedCampaign(memory, first, earned)'
      <3>1. SoundCampaign(memory, now)' /\ EarnedCampaign(memory, first, earned)'
        BY <2>1, <2>2 DEF SoundCampaign, EarnedCampaign
      <3>2. CASE file' = c
        BY <2>2, <3>1, <3>2 DEF SoundCampaign, EarnedCampaign
      <3>3. CASE file' = file
        <4>1. SoundCampaign(file, now)'
          BY <3>3 DEF SoundCampaign
        <4>2. EarnedCampaign(file, first, earned)'
          BY <2>1, <3>3, CampaignAssumption DEF EarnedCampaign, SoundCampaign, Campaigns, IsStamp
        <4> QED
          BY <3>1, <4>1, <4>2
      <3> QED
        BY <2>1, <3>1, <3>2, <3>3
    <2>4. FileIsBehind'
      BY <2>1, <2>2 DEF FileIsBehind, SoundCampaign, Campaigns
    <2>5. first' \in Stamps /\ first' <= now' /\ earned' \in 0..RequiredPasses
      BY <2>1, CampaignAssumption DEF Stamps, IsStamp
    <2>6. Completed(file) => Completed(file)'
      <3> SUFFICES ASSUME Completed(file), file' = c PROVE Completed(file)'
        BY <2>1 DEF Completed
      <3>1. file.startedAt # None /\ file.startedAt = memory.startedAt /\ file.passes <= memory.passes
        BY CampaignAssumption DEF Completed, SoundCampaign, Campaigns, FileIsBehind
      <3>2. c.startedAt = file.startedAt /\ c.passes >= file.passes /\ c.passes \in Nat
        BY <2>2, <3>1 DEF SoundCampaign, Campaigns
      <3> QED
        BY <3>1, <3>2, CampaignAssumption DEF Completed, SoundCampaign, Campaigns
    <2>7. /\ earned = RequiredPasses => earned' = RequiredPasses
          /\ first # None => first' = first
      BY <2>1 DEF IsStamp
    <2> QED
      BY <2>3, <2>4, <2>5, <2>6, <2>7 DEF CampaignGoesOn
  <1> QED
    BY <1>1, <1>2

\* What a campaign has completed was earned, and what was earned stays so.
LEMMA CompletionIsEarned == CampaignInv /\ Completed(memory) => CampaignEarned
  BY CampaignAssumption
     DEF CampaignInv, Completed, CampaignEarned, SoundCampaign, EarnedCampaign, Campaigns,
         ElapsedSince, IsStamp, Stamps, None

LEMMA Elapsing ==
  ASSUME NEW stamp \in Stamps, NEW t \in Nat
  PROVE  /\ ElapsedSince(stamp, t) \in Nat
         /\ stamp = None => ElapsedSince(stamp, t) = 0
         /\ \A u \in Nat : u >= t => ElapsedSince(stamp, u) >= ElapsedSince(stamp, t)
  <1>1. CASE stamp = None
    BY <1>1 DEF ElapsedSince, IsStamp
  <1>2. CASE stamp \in Nat
    BY <1>2 DEF ElapsedSince, IsStamp
  <1> QED
    BY <1>1, <1>2 DEF Stamps

LEMMA CampaignStaysEarned == CampaignInv /\ CampaignGoesOn /\ CampaignEarned => CampaignEarned'
  <1> SUFFICES ASSUME CampaignInv, CampaignGoesOn, CampaignEarned PROVE CampaignEarned'
    OBVIOUS
  <1>1. /\ now \in Nat /\ now' \in Nat /\ now' >= now
        /\ first \in Stamps /\ first' \in Stamps /\ (first # None => first' = first)
        /\ earned' = RequiredPasses
    BY DEF CampaignInv, CampaignGoesOn, CampaignEarned
  <1>2. ElapsedSince(first', now') >= ElapsedSince(first, now)
    BY <1>1, Elapsing
  <1>3. ElapsedSince(first, now) \in Nat /\ ElapsedSince(first', now') \in Nat
    BY <1>1, Elapsing
  <1> QED
    BY <1>1, <1>2, <1>3, CampaignAssumption DEF CampaignEarned

----------------------------------------------------------------------------
(* The programs around it.                                                 *)

\* Every step of the system is one of the campaign, or leaves it alone, and what
\* was certified once remains so.
LEMMA CampaignStep ==
  ASSUME EvidenceInv, [Next]_vars
  PROVE  CampaignGoesOn /\ (wasCertified => wasCertified')
  <1> USE DEF EvidenceInv, Moves
  <1>0. now \in Nat /\ CampaignInv /\ wasCertified \in BOOLEAN
    BY DEF CampaignInv, TypeOK
  <1>1. CASE TimePasses
    <2>1. now' \in Nat /\ now' >= now /\ UNCHANGED <<campaignVars, gateVars>>
      BY <1>0, <1>1 DEF TimePasses, Advance
    <2> QED
      BY <1>0, <2>1, WaitingKeepsCampaign DEF gateVars
  <1>2. CASE GatesChange
    <2>1. now' = now /\ UNCHANGED campaignVars /\ (wasCertified => wasCertified')
      BY <1>2 DEF GatesChange
    <2> QED
      BY <1>0, <2>1, WaitingKeepsCampaign
  <1>3. CASE ApiTick
    <2>1. Record(audit) /\ now' = now /\ audit \in BOOLEAN /\ wasCertified' = wasCertified
      BY <1>3 DEF ApiTick, gateVars, TypeOK
    <2> QED
      BY <1>0, <2>1, RecordKeepsCampaign
  <1>4. CASE TickRecorded
    <2>1. /\ Record(pc = "recordPass") /\ now' = now /\ (pc = "recordPass") \in BOOLEAN
          /\ wasCertified' = wasCertified
      BY <1>4 DEF TickRecorded, gateVars
    <2> QED
      BY <1>0, <2>1, RecordKeepsCampaign
  <1>5. CASE ServerRestarts
    <2>1. Reload /\ now' = now /\ wasCertified' = wasCertified
      BY <1>5 DEF ServerRestarts, gateVars
    <2> QED
      BY <1>0, <2>1, ReloadKeepsCampaign
  <1>6. CASE UNCHANGED <<now, campaignVars, gateVars>>
    <2>1. now' = now /\ UNCHANGED campaignVars /\ wasCertified' = wasCertified
      BY <1>6 DEF gateVars
    <2> QED
      BY <1>0, <2>1, WaitingKeepsCampaign
  <1>7. CASE \/ Tick \/ CheckIntegrity \/ Preauthorize \/ Begin
             \/ \E w \in Watchdogs : Ask(w) \/ WriteBundle(w) \/ WriteDigest(w) \/ WatchdogFails(w)
             \/ BeginAlone \/ TickFails \/ IntegrityDies \/ DossierFails \/ OrchestratorDies
    <2>1. UNCHANGED <<now, campaignVars, gateVars>>
      BY <1>7 DEF Tick, CheckIntegrity, Preauthorize, Begin, Ask, WriteBundle, WriteDigest,
                  WatchdogFails, BeginAlone, TickFails, IntegrityDies, DossierFails, OrchestratorDies
    <2> QED
      BY <1>6, <2>1
  <1>8. CASE UNCHANGED vars
    BY <1>6, <1>8 DEF vars, campaignVars, gateVars
  <1> QED
    BY <1>1, <1>2, <1>3, <1>4, <1>5, <1>7, <1>8
       DEF Next, Cycle, OperatorsWatchdogWrites, Fault, Watchdogs

LEMMA EarnedStays ==
  ASSUME EvidenceInv, [Next]_vars
  PROVE  /\ CampaignEarned => CampaignEarned'
         /\ Earned => Earned'
         /\ wasCertified => wasCertified'
  BY CampaignStep, CampaignStaysEarned DEF EvidenceInv, Earned

LEMMA GatesStep ==
  ASSUME EvidenceInv, [Next]_vars
  PROVE  /\ audit' \in BOOLEAN /\ certified' \in BOOLEAN /\ wasCertified' \in BOOLEAN
         /\ certified' => wasCertified'
  <1>1. CASE GatesChange
    BY <1>1 DEF GatesChange, EvidenceInv, TypeOK
  <1>2. CASE UNCHANGED gateVars
    BY <1>2 DEF gateVars, EvidenceInv, TypeOK
  <1>3. GatesChange \/ UNCHANGED gateVars
    BY DEF Next, vars, gateVars, TimePasses, ApiTick, Cycle, Tick, TickRecorded, CheckIntegrity,
           Preauthorize, Begin, Ask, WriteBundle, WriteDigest, BeginAlone,
           OperatorsWatchdogWrites, Fault, ServerRestarts, TickFails, IntegrityDies,
           DossierFails, OrchestratorDies, WatchdogFails, Moves
  <1> QED
    BY <1>1, <1>2, <1>3

LEMMA Answers ==
  /\ Answer("certification") = certified /\ Answer("campaign") = Completed(memory)
  BY DEF Answer

LEMMA Afters ==
  /\ After["certification"] = "campaign" /\ After["campaign"] = "completion"
  /\ After["completion"] = "evidence" /\ After["evidence"] = "candidate"
  /\ After["candidate"] = "bundle"
  BY DEF After

\* A positive answer lets a watchdog know what it goes on with.
LEMMA AnswersAreKnown ==
  ASSUME EvidenceInv, NEW question \in Questions, Knows(question), Answer(question)
  PROVE  After[question] \in WatchStates /\ Knows(After[question])
  <1>1. CASE question = "certification"
    BY <1>1, Answers, Afters DEF EvidenceInv, Knows, WatchStates, Questions
  <1>2. CASE question = "campaign"
    BY <1>2, Answers, Afters, CompletionIsEarned DEF EvidenceInv, Knows, WatchStates, Questions
  <1>3. CASE question \in {"completion", "evidence", "candidate"}
    BY <1>3, Afters DEF Knows, WatchStates, Questions
  <1> QED
    BY <1>1, <1>2, <1>3 DEF Questions

LEMMA IdleKnows ==
  /\ "idle" \in WatchStates /\ Knows("idle")
  /\ "certification" \in WatchStates /\ Knows("certification")
  /\ "bundle" \in WatchStates /\ "digest" \in WatchStates
  /\ "cycle" \in Watchdogs /\ "alone" \in Watchdogs
  BY DEF WatchStates, Questions, Knows, Watchdogs

\* At most one watchdog moves in a step, and where it gets to it knows enough.
WatchMoves ==
    \/ watch' = watch
    \/ \E w \in Watchdogs, to \in WatchStates :
          Knows(to) /\ watch' = [watch EXCEPT ![w] = to]

LEMMA WatchStep ==
  ASSUME EvidenceInv, [Next]_vars
  PROVE  WatchMoves
  <1>0. WatchKnows /\ watch \in [Watchdogs -> WatchStates]
    BY DEF EvidenceInv, TypeOK
  <1>1. ASSUME NEW w \in Watchdogs, Ask(w) PROVE WatchMoves
    <2>1. watch[w] \in Questions /\ Knows(watch[w])
      BY <1>0, <1>1 DEF Ask, WatchKnows
    <2>2. CASE Answer(watch[w])
      <3>1. watch' = [watch EXCEPT ![w] = After[watch[w]]]
        BY <1>1, <2>2 DEF Ask, Goes
      <3> QED
        BY <2>1, <2>2, <3>1, AnswersAreKnown DEF WatchMoves
    <2>3. CASE ~Answer(watch[w])
      <3>1. watch' = [watch EXCEPT ![w] = "idle"]
        BY <1>1, <2>3 DEF Ask, Goes
      <3> QED
        BY <3>1, IdleKnows DEF WatchMoves
    <2> QED
      BY <2>2, <2>3
  <1>2. ASSUME NEW w \in Watchdogs, WriteBundle(w) PROVE WatchMoves
    <2>1. watch' = [watch EXCEPT ![w] = "digest"] /\ watch[w] = "bundle"
      BY <1>2 DEF WriteBundle, Goes
    <2>2. Knows("digest")
      BY <1>0, <2>1 DEF WatchKnows, Knows
    <2> QED
      BY <2>1, <2>2, IdleKnows DEF WatchMoves
  <1>3. ASSUME NEW w \in Watchdogs, WriteDigest(w) \/ WatchdogFails(w) PROVE WatchMoves
    <2>1. watch' = [watch EXCEPT ![w] = "idle"]
      BY <1>3 DEF WriteDigest, WatchdogFails, Goes
    <2> QED
      BY <2>1, IdleKnows DEF WatchMoves
  <1>4. CASE Begin
    <2>1. watch' = [watch EXCEPT !["cycle"] = "certification"]
      BY <1>4 DEF Begin
    <2> QED
      BY <2>1, IdleKnows DEF WatchMoves
  <1>5. CASE BeginAlone
    <2>1. watch' = [watch EXCEPT !["alone"] = "bundle"]
      BY <1>5 DEF BeginAlone, Goes
    <2>2. Knows("bundle")
      <3>1. certified /\ Completed(memory)
        BY <1>5, Answers DEF BeginAlone, Questions
      <3> QED
        BY <3>1, CompletionIsEarned DEF EvidenceInv, Knows
    <2> QED
      BY <2>1, <2>2, IdleKnows DEF WatchMoves
  <1>6. CASE OrchestratorDies
    <2>1. watch' = [watch EXCEPT !["cycle"] = "idle"]
      BY <1>6 DEF OrchestratorDies
    <2> QED
      BY <2>1, IdleKnows DEF WatchMoves
  <1>7. CASE \/ TimePasses \/ GatesChange \/ ApiTick \/ Tick \/ TickRecorded \/ CheckIntegrity
             \/ Preauthorize \/ ServerRestarts \/ TickFails \/ IntegrityDies \/ DossierFails
             \/ UNCHANGED vars
    BY <1>7 DEF WatchMoves, TimePasses, GatesChange, ApiTick, Tick, TickRecorded, CheckIntegrity,
                Preauthorize, ServerRestarts, TickFails, IntegrityDies, DossierFails, Moves, vars
  <1> QED
    BY <1>1, <1>2, <1>3, <1>4, <1>5, <1>6, <1>7, IdleKnows
       DEF Next, Cycle, OperatorsWatchdogWrites, Fault

LEMMA WatchKnowsStep ==
  ASSUME EvidenceInv, [Next]_vars
  PROVE  WatchKnows' /\ watch' \in [Watchdogs -> WatchStates]
  <1>0. WatchKnows /\ watch \in [Watchdogs -> WatchStates]
    BY DEF EvidenceInv, TypeOK
  <1>1. \A state \in WatchStates : Knows(state) => Knows(state)'
    BY EarnedStays DEF Knows
  <1>2. CASE watch' = watch
    BY <1>0, <1>1, <1>2 DEF WatchKnows
  <1>3. ASSUME NEW w \in Watchdogs, NEW to \in WatchStates, Knows(to), watch' = [watch EXCEPT ![w] = to]
        PROVE  WatchKnows' /\ watch' \in [Watchdogs -> WatchStates]
    <2>1. watch' \in [Watchdogs -> WatchStates]
      BY <1>0, <1>3
    <2>2. ASSUME NEW u \in Watchdogs PROVE Knows(watch[u])'
      <3>1. Knows(watch'[u]) /\ watch'[u] \in WatchStates
        BY <1>0, <1>3 DEF WatchKnows
      <3> QED
        BY <3>1, EarnedStays DEF Knows
    <2> QED
      BY <2>1, <2>2 DEF WatchKnows
  <1> QED
    BY <1>2, <1>3, WatchStep DEF WatchMoves

LEMMA FilesStep ==
  ASSUME EvidenceInv, [Next]_vars
  PROVE  /\ FilesKnow'
         /\ bundle' \in {NoFile, Broken} \cup Watchdogs
         /\ digest' \in {NoFile, Broken} \cup Watchdogs
         /\ report' \in {NoFile, "invalid", "verified"}
         /\ dossier' \in {NoFile, "blocked", "ready"}
  <1>0. /\ bundle \in {NoFile, Broken} \cup Watchdogs
        /\ digest \in {NoFile, Broken} \cup Watchdogs
        /\ report \in {NoFile, "invalid", "verified"}
        /\ dossier \in {NoFile, "blocked", "ready"}
        /\ FilesKnow
        /\ \A w \in Watchdogs : watch[w] = "bundle" => Earned
    BY DEF EvidenceInv, TypeOK, WatchKnows, Knows, Earned
  <1> DEFINE Written == /\ bundle' \in {NoFile, Broken} \cup Watchdogs
                        /\ bundle' = bundle \/ bundle' = Broken \/ Earned
                        /\ digest' \in {NoFile, Broken} \cup Watchdogs
  <1>1. Written
    <2>1. ASSUME NEW w \in Watchdogs, WriteBundle(w) PROVE Written
      BY <1>0, <2>1 DEF WriteBundle
    <2>2. ASSUME NEW w \in Watchdogs, WriteDigest(w) PROVE Written
      BY <1>0, <2>2 DEF WriteDigest
    <2>3. ASSUME NEW w \in Watchdogs, WatchdogFails(w) PROVE Written
      BY <1>0, <2>3 DEF WatchdogFails
    <2>4. CASE OrchestratorDies
      BY <1>0, <2>4 DEF OrchestratorDies
    <2>5. CASE UNCHANGED <<bundle, digest>>
      BY <1>0, <2>5
    <2>6. \/ \E w \in Watchdogs : WriteBundle(w) \/ WriteDigest(w) \/ WatchdogFails(w)
          \/ OrchestratorDies \/ UNCHANGED <<bundle, digest>>
      BY IdleKnows
         DEF Next, vars, fileVars, TimePasses, GatesChange, ApiTick, Cycle, Tick, TickRecorded,
             CheckIntegrity, Preauthorize, Begin, Ask, BeginAlone, OperatorsWatchdogWrites, Fault,
             ServerRestarts, TickFails, IntegrityDies, DossierFails
    <2> QED
      BY <2>1, <2>2, <2>3, <2>4, <2>5, <2>6
  <1>2. /\ report' \in {NoFile, "invalid", "verified"}
        /\ report' = "verified" => Earned
    <2>1. CASE CheckIntegrity
      BY <1>0, <2>1 DEF CheckIntegrity, BundleIsSound, FilesKnow
    <2>2. CASE UNCHANGED report
      BY <1>0, <2>2 DEF FilesKnow
    <2>3. CheckIntegrity \/ UNCHANGED report
      BY DEF Next, vars, fileVars, TimePasses, GatesChange, ApiTick, Cycle, Tick, TickRecorded,
             Preauthorize, Begin, Ask, WriteBundle, WriteDigest, BeginAlone,
             OperatorsWatchdogWrites, Fault, ServerRestarts, TickFails, IntegrityDies,
             DossierFails, OrchestratorDies, WatchdogFails
    <2> QED
      BY <2>1, <2>2, <2>3
  <1>3. /\ dossier' \in {NoFile, "blocked", "ready"}
        /\ dossier' = "ready" => Earned
    <2>1. CASE Preauthorize
      BY <1>0, <2>1 DEF Preauthorize, EvidenceVerified, Dossier, FilesKnow
    <2>2. CASE UNCHANGED dossier
      BY <1>0, <2>2 DEF FilesKnow
    <2>3. Preauthorize \/ UNCHANGED dossier
      BY DEF Next, vars, fileVars, TimePasses, GatesChange, ApiTick, Cycle, Tick, TickRecorded,
             CheckIntegrity, Begin, Ask, WriteBundle, WriteDigest, BeginAlone,
             OperatorsWatchdogWrites, Fault, ServerRestarts, TickFails, IntegrityDies,
             DossierFails, OrchestratorDies, WatchdogFails
    <2> QED
      BY <2>1, <2>2, <2>3
  <1>4. Broken \notin Watchdogs
    BY DEF Broken, Watchdogs
  <1>5. FilesKnow'
    BY <1>0, <1>1, <1>2, <1>3, <1>4, EarnedStays DEF FilesKnow
  <1> QED
    BY <1>1, <1>2, <1>3, <1>5

LEMMA OrchestratorStep ==
  ASSUME EvidenceInv, [Next]_vars
  PROVE  pc' \in {"tick", "recordPass", "recordFail", "watch", "watching",
                  "integrity", "preauthorization"}
  BY DEF EvidenceInv, TypeOK, Next, vars, TimePasses, GatesChange, ApiTick, Cycle, Tick,
         TickRecorded, CheckIntegrity, Preauthorize, Begin, Ask, WriteBundle, WriteDigest,
         BeginAlone, OperatorsWatchdogWrites, Fault, ServerRestarts, TickFails, IntegrityDies,
         DossierFails, OrchestratorDies, WatchdogFails, Moves, Goes

LEMMA EvidenceInitially == Init => EvidenceInv
  <1> SUFFICES ASSUME Init PROVE EvidenceInv
    OBVIOUS
  <1> USE DEF Init, ClockInit, CampaignInit
  <1>1. /\ NewCampaign \in Campaigns /\ NewCampaign.startedAt = None
        /\ NewCampaign.lastSample = None /\ NewCampaign.passes = 0
    BY DEF NewCampaign, Campaigns, Stamps, None
  <1>2. CampaignInv
    BY <1>1, CampaignAssumption
       DEF CampaignInv, SoundCampaign, EarnedCampaign, FileIsBehind, Stamps, None
  <1>3. TypeOK
    <2>1. ClockTypeOK /\ CampaignTypeOK
      BY <1>1, CampaignAssumption DEF ClockTypeOK, CampaignTypeOK, Stamps
    <2>2. watch \in [Watchdogs -> WatchStates]
      BY IdleKnows
    <2> QED
      BY <2>1, <2>2 DEF TypeOK
  <1>4. WatchKnows /\ FilesKnow
    BY DEF WatchKnows, Knows, FilesKnow, NoFile, Watchdogs
  <1> QED
    BY <1>2, <1>3, <1>4 DEF EvidenceInv

LEMMA EvidenceStep == EvidenceInv /\ [Next]_vars => EvidenceInv'
  <1> SUFFICES ASSUME EvidenceInv, [Next]_vars PROVE EvidenceInv'
    OBVIOUS
  <1>1. CampaignInv'
    BY CampaignStep DEF CampaignGoesOn
  <1>2. (ClockTypeOK /\ CampaignTypeOK)'
    BY <1>1 DEF CampaignInv, ClockTypeOK, CampaignTypeOK, SoundCampaign
  <1>3. TypeOK'
    BY <1>2, GatesStep, WatchKnowsStep, FilesStep, OrchestratorStep DEF TypeOK
  <1> QED
    BY <1>1, <1>3, GatesStep, WatchKnowsStep, FilesStep DEF EvidenceInv

LEMMA EvidenceInvariant == Spec => []EvidenceInv
  BY EvidenceInitially, EvidenceStep, PTL DEF Spec

\* Type correctness of the campaign, the programs around it and their files.
THEOREM EvidenceTypeCorrect == Spec => []TypeOK
  <1>1. EvidenceInv => TypeOK
    BY DEF EvidenceInv
  <1> QED
    BY <1>1, EvidenceInvariant, PTL

\* Fast polling, lost saves and restarts earn no pass (final_campaign.py line 142).
THEOREM PassesSpaced == Spec => []PassesAreSpaced
  <1>1. EvidenceInv => PassesAreSpaced
    BY DEF EvidenceInv, CampaignInv, SoundCampaign, PassesAreSpaced, SpacedPasses, IsStamp,
           Campaigns
  <1> QED
    BY <1>1, EvidenceInvariant, PTL

\* A saved campaign that is complete is complete for good (final_campaign.py line 172).
THEOREM CompletionKept == Spec => CompletionIsKept
  <1>1. EvidenceInv /\ [Next]_vars => [Completed(file) => Completed(file)']_vars
    BY CampaignStep DEF CampaignGoesOn
  <1> QED
    BY <1>1, EvidenceInvariant, PTL DEF Spec, CompletionIsKept

\* No torn, mixed or outdated file makes a dossier ready that was not earned.
THEOREM DossierEarned == Spec => []DossierIsEarned
  <1>1. EvidenceInv => DossierIsEarned
    BY DEF EvidenceInv, FilesKnow, Earned, CampaignEarned, DossierIsEarned
  <1> QED
    BY <1>1, EvidenceInvariant, PTL

\* As the kernel is wired every audit raises (kernel.py lines 312-313): no tick
\* is ever recorded, and no dossier ever becomes ready.
THEOREM NothingAsWired ==
  ASSUME ~AuditAnswers
  PROVE  Spec => [](earned = 0 /\ dossier # "ready")
  <1> DEFINE NoTick == earned = 0 /\ ~IsRecording
  <1>1. Init => NoTick
    BY DEF Init, CampaignInit, IsRecording
  <1>2. NoTick /\ [Next]_vars => NoTick'
    <2> SUFFICES ASSUME NoTick, [Next]_vars PROVE NoTick'
      OBVIOUS
    <2>1. ~ApiTick /\ ~Tick /\ ~TickRecorded
      BY DEF ApiTick, Tick, TickRecorded
    <2>2. CASE \/ TimePasses \/ GatesChange \/ Begin \/ BeginAlone \/ CheckIntegrity
               \/ Preauthorize \/ UNCHANGED vars
      BY <2>2 DEF TimePasses, GatesChange, Begin, BeginAlone, Goes, CheckIntegrity, Preauthorize,
                  Moves, IsRecording, campaignVars, vars
    <2>3. CASE \E w \in Watchdogs : Ask(w) \/ WriteBundle(w) \/ WriteDigest(w)
      BY <2>3 DEF Ask, WriteBundle, WriteDigest, Goes, IsRecording, campaignVars
    <2>4. CASE Fault
      BY <2>4 DEF Fault, ServerRestarts, Reload, TickFails, IntegrityDies, DossierFails,
                  OrchestratorDies, WatchdogFails, Goes, Moves, IsRecording, campaignVars
    <2> QED
      BY <2>1, <2>2, <2>3, <2>4, IdleKnows DEF Next, Cycle, OperatorsWatchdogWrites
  <1>3. EvidenceInv /\ NoTick => earned = 0 /\ dossier # "ready"
    BY CampaignAssumption DEF EvidenceInv, FilesKnow, Earned, CampaignEarned
  <1> QED
    BY <1>1, <1>2, <1>3, EvidenceInvariant, PTL DEF Spec

----------------------------------------------------------------------------
(* The validation cycle.                                                   *)

\* What is judged between the first commit of a cycle and its second.
JudgedFrom(missing) ==
    /\ Unmet \subseteq missing /\ missing \subseteq Milestones
    /\ cycle = Phase(missing) /\ latest["campaign"] = CampaignAllows(missing)

LadderInv == /\ latest \in [Tables -> Verdicts]
             /\ cycle # Idle => \E missing \in SUBSET Milestones : JudgedFrom(missing)

LEMMA PhaseOf ==
  ASSUME NEW missing \in SUBSET Milestones
  PROVE  /\ Phase(missing) \in Phases
         /\ HardBlockers(missing) # {} <=> Phase(missing) = "PAUSED_BY_RISK"
         /\ Phase(missing) = "EVIDENCE_MILESTONE_REACHED" => missing = {}
  BY DEF Phase, Phases, HardBlockers

\* No milestone is judged by the campaign's own reports.
LEMMA MetIsKept ==
  ASSUME NEW m \in Milestones, UNCHANGED <<now, closed>>,
         \A table \in {"integration", "recovery", "supervisor"} : latest'[table] = latest[table]
  PROVE  Met(m)' <=> Met(m)
  BY DEF Met, Milestones

LEMMA DecisionsAreVerdicts ==
  /\ \A engine, failing : Decide(engine, failing) \in Verdicts
  /\ \A missing : CampaignAllows(missing) \in Verdicts
  /\ \A clean \in BOOLEAN : Allowing(clean, clean) \in Verdicts
  BY DEF Decide, CampaignAllows, Allowing, Verdicts

LEMMA RunJudges ==
  ASSUME LadderInv, NEW failures, Run(failures)
  PROVE  LadderInv'
  <1>1. PICK failed \in failures :
           /\ cycle' = Phase(Missing(Unmet, failed))
           /\ latest' = [latest EXCEPT !["campaign"] = CampaignAllows(Missing(Unmet, failed))]
    BY DEF Run
  <1> DEFINE missing == Missing(Unmet, failed)
  <1>2. Unmet \subseteq missing /\ missing \in SUBSET Milestones
    BY DEF Missing, Unmet
  <1>3. latest' \in [Tables -> Verdicts] /\ latest'["campaign"] = CampaignAllows(missing)
    BY <1>1, DecisionsAreVerdicts DEF LadderInv, Tables
  <1>4. \A table \in {"integration", "recovery", "supervisor"} : latest'[table] = latest[table]
    BY <1>1 DEF LadderInv, Tables
  <1>5. UNCHANGED <<now, closed>>
    BY DEF Run
  <1>6. Unmet' = Unmet
    BY <1>4, <1>5, MetIsKept DEF Unmet
  <1> HIDE DEF missing
  <1>7. \E missed \in SUBSET Milestones :
           /\ Unmet' \subseteq missed /\ missed \subseteq Milestones
           /\ cycle' = Phase(missed) /\ latest'["campaign"] = CampaignAllows(missed)
    <2>1. cycle' = Phase(missing)
      BY <1>1 DEF missing
    <2> QED
      BY <1>2, <1>3, <1>6, <2>1
  <1> QED
    BY <1>3, <1>7 DEF LadderInv, JudgedFrom

LEMMA LadderInitially == LadderInit => LadderInv
  BY DEF LadderInit, LadderInv, Verdicts

LEMMA LadderStep == LadderInv /\ [LadderNext]_ladderVars => LadderInv'
  <1> SUFFICES ASSUME LadderInv, [LadderNext]_ladderVars PROVE LadderInv'
    OBVIOUS
  <1>1. ASSUME NEW table \in Tables, NEW verdict \in Verdicts, Store(table, verdict)
        PROVE  LadderInv'
    BY <1>1 DEF Store, Open, LadderInv
  <1>2. CASE Supervise \/ Integrate \/ Validate \/ Reconcile \/ JudgeByHand
    BY <1>1, <1>2, DecisionsAreVerdicts
       DEF Supervise, Integrate, Validate, Reconcile, JudgeByHand, Tables
  <1>3. CASE \E result \in {"win", "loss"} : CloseTrade(result)
    BY <1>3 DEF CloseTrade, Open, LadderInv
  <1>4. CASE DayPasses
    BY <1>4 DEF DayPasses, LadderInv
  <1>5. ASSUME NEW failures, Run(failures) PROVE LadderInv'
    BY <1>5, RunJudges
  <1>6. CASE RecordRun \/ RunFails
    BY <1>6 DEF RecordRun, RunFails, LadderInv
  <1>7. CASE UNCHANGED ladderVars
    <2>1. UNCHANGED <<now, closed, latest, cycle>>
      BY <1>7 DEF ladderVars
    <2>2. Unmet' = Unmet
      BY <2>1, MetIsKept DEF Unmet
    <2> QED
      BY <2>1, <2>2 DEF LadderInv, JudgedFrom
  <1> QED
    BY <1>2, <1>3, <1>4, <1>5, <1>6, <1>7 DEF LadderNext

LEMMA LadderInvariant == LadderSpec => []LadderInv
  BY LadderInitially, LadderStep, PTL DEF LadderSpec

LEMMA CompleteEvidenceAllows == CampaignAllows({}) = "testnet"
  BY DEF CampaignAllows, Allowing

LEMMA BlockedAllowsNoTestnet ==
  ASSUME NEW missing, HardBlockers(missing) # {}
  PROVE  CampaignAllows(missing) # "testnet"
  BY DEF CampaignAllows, Allowing, HardBlockers

\* No query that fails, alone or with the database, yields evidence.
THEOREM MilestoneEarned == LadderSpec => []MilestoneIsEarned
  <1>1. LadderInv => MilestoneIsEarned
    <2> SUFFICES ASSUME LadderInv, cycle = "EVIDENCE_MILESTONE_REACHED"
                 PROVE  /\ Unmet = {}
                        /\ now >= MinimumDays /\ Len(closed) >= MinimumTrades
                        /\ latest["campaign"] = "testnet"
      BY DEF MilestoneIsEarned
    <2>1. PICK missing \in SUBSET Milestones : JudgedFrom(missing)
      BY DEF LadderInv, Idle
    <2>2. missing = {}
      BY <2>1, PhaseOf DEF JudgedFrom
    <2>3. Unmet = {} /\ latest["campaign"] = "testnet"
      BY <2>1, <2>2, CompleteEvidenceAllows DEF JudgedFrom
    <2>4. Met("MINIMUM_DAYS") /\ Met("MINIMUM_PAPER_TRADES")
      BY <2>3 DEF Unmet, Milestones
    <2> QED
      BY <2>3, <2>4 DEF Met
  <1> QED
    BY <1>1, LadderInvariant, PTL

\* Phase and permission, derived side by side, agree about a risk.
THEOREM RiskAlwaysPauses == LadderSpec => []RiskPauses
  <1>1. LadderInv => RiskPauses
    <2> SUFFICES ASSUME LadderInv, cycle # Idle
                 PROVE  /\ Unmet \cap {"DRAWDOWN", "INTEGRATION_HEALTH", "RECOVERY",
                                       "SUPERVISOR_PAPER"} # {}
                              => cycle = "PAUSED_BY_RISK"
                        /\ cycle = "PAUSED_BY_RISK" => latest["campaign"] # "testnet"
      BY DEF RiskPauses
    <2>1. PICK missing \in SUBSET Milestones : JudgedFrom(missing)
      BY DEF LadderInv
    <2>2. Unmet \cap {"DRAWDOWN", "INTEGRATION_HEALTH", "RECOVERY", "SUPERVISOR_PAPER"} # {}
             => HardBlockers(missing) # {}
      BY <2>1 DEF JudgedFrom, HardBlockers
    <2>3. cycle = "PAUSED_BY_RISK" <=> HardBlockers(missing) # {}
      BY <2>1, PhaseOf DEF JudgedFrom
    <2> QED
      BY <2>1, <2>2, <2>3, BlockedAllowsNoTestnet DEF JudgedFrom
  <1> QED
    BY <1>1, LadderInvariant, PTL

\* However much evidence there is, the readiness finds no candidate: the keys it
\* asks for are one level below those of the payloads (live_readiness.py line 37).
THEOREM NoCandidateEver == LadderSpec => [](~CandidateReady /\ ~EvidenceCertified)
  <1>1. "testnet_allowed" \notin DOMAIN SupervisorStatus
    BY DEF SupervisorStatus
  <1>2. ~Get(SupervisorStatus, "testnet_allowed", FALSE)
    BY <1>1 DEF Get
  <1>3. ~CandidateReady /\ ~EvidenceCertified
    BY <1>2 DEF CandidateReady, EvidenceCertified
  <1> QED
    BY <1>3, PTL

LEMMA LadderTypeStep == LadderTypeOK /\ LadderInv' /\ [LadderNext]_ladderVars => LadderTypeOK'
  <1> SUFFICES ASSUME LadderTypeOK, LadderInv', [LadderNext]_ladderVars PROVE LadderTypeOK'
    OBVIOUS
  <1> USE DEF LadderTypeOK, ClockTypeOK
  <1>1. latest' \in [Tables -> Verdicts]
    BY DEF LadderInv
  <1>2. CASE \E result \in {"win", "loss"} : CloseTrade(result)
    <2>1. PICK result \in {"win", "loss"} : CloseTrade(result)
      BY <1>2
    <2>2. closed' \in Seq({"win", "loss"}) /\ Len(closed') = Len(closed) + 1
      BY <2>1 DEF CloseTrade
    <2>3. Len(closed) < MaxTrades /\ Len(closed) \in Nat /\ MaxTrades \in Nat
      BY <2>1, CampaignPolicyAssumption DEF CloseTrade
    <2>4. Len(closed') <= MaxTrades
      BY <2>2, <2>3
    <2> QED
      BY <1>1, <2>1, <2>2, <2>4 DEF CloseTrade
  <1>3. CASE DayPasses
    BY <1>1, <1>3 DEF DayPasses, Advance
  <1>4. ASSUME NEW failures, Run(failures) PROVE LadderTypeOK'
    <2>1. cycle' \in Phases
      <3>1. PICK failed : cycle' = Phase(Missing(Unmet, failed))
        BY <1>4 DEF Run
      <3>2. Missing(Unmet, failed) \in SUBSET Milestones
        BY DEF Missing, Unmet
      <3> QED
        BY <3>1, <3>2, PhaseOf
    <2> QED
      BY <1>1, <1>4, <2>1 DEF Run
  <1>5. CASE RecordRun \/ RunFails
    BY <1>1, <1>5 DEF RecordRun, RunFails
  <1>6. CASE \/ Supervise \/ Integrate \/ Validate \/ Reconcile \/ JudgeByHand
             \/ UNCHANGED ladderVars
    BY <1>1, <1>6 DEF Supervise, Integrate, Validate, Reconcile, JudgeByHand, Store, ladderVars
  <1> QED
    BY <1>2, <1>3, <1>4, <1>5, <1>6 DEF LadderNext

\* Type correctness of the reports, the results and the cycle.
THEOREM LadderTypeCorrect == LadderSpec => []LadderTypeOK
  <1>1. LadderInit => LadderTypeOK
    BY CampaignPolicyAssumption DEF LadderInit, LadderTypeOK, ClockInit, ClockTypeOK, Verdicts
  <1> QED
    BY <1>1, LadderInvariant, LadderTypeStep, PTL DEF LadderSpec
=============================================================================
