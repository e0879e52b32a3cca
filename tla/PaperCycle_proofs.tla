-------------------------- MODULE PaperCycle_proofs -------------------------
(***************************************************************************)
(* The autonomous PAPER loop, for every policy, any number of tasks,       *)
(* symbols, scans and shadow positions, and any market.                    *)
(***************************************************************************)
EXTENDS PaperCycle, SequenceTheorems, FiniteSetTheorems, WellFoundedInduction, TLAPS

----------------------------------------------------------------------------
(* What the assessment of a snapshot can be. *)

LEMMA SizeOfSum ==
  ASSUME NEW a \in Int, NEW b \in Int, (a >= 0 /\ b >= 0) \/ (a <= 0 /\ b <= 0)
  PROVE  Size(a + b) = Size(a) + Size(b)
  BY DEF Size

LEMMA ConfidenceIsPositive ==
  ASSUME NEW m \in [change : Int, range : Nat, stale : BOOLEAN]
  PROVE  Confidence(m) \in Int /\ Confidence(m) >= 0
  <1> DEFINE base == 5300 - (IF m.stale THEN 2500 ELSE 0)
             more == CASE Regime(m) \in {"TREND_UP", "TREND_DOWN"}   -> AtMost(7 * Size(m.change), 3000)
                       [] Regime(m) \in {"COMPRESSION", "EXPANSION"} -> AtMost(5 * m.range, 2500)
                       [] Regime(m) = "RANGE"                        -> 1000
  <1>1. base \in Int /\ base >= 0
    OBVIOUS
  <1>2. Size(m.change) \in Nat
    BY DEF Size
  <1>3. Regime(m) \in {"TREND_UP", "TREND_DOWN", "COMPRESSION", "EXPANSION", "RANGE"}
    BY DEF Regime
  <1>4. more \in Int /\ more >= 0
    BY <1>2, <1>3 DEF AtMost
  <1>5. Confidence(m) = base + more
    BY DEF Confidence
  <1> HIDE DEF base, more
  <1> QED
    BY <1>1, <1>4, <1>5

\* The momentum and the regime of a snapshot never point in different directions.
LEMMA EvidencesAgree ==
  ASSUME NEW m \in [change : Int, range : Nat, stale : BOOLEAN]
  PROVE  /\ PriceMomentum(m) \in Int /\ MarketRegime(m) \in Int
         /\ \/ PriceMomentum(m) >= 0 /\ MarketRegime(m) >= 0
            \/ PriceMomentum(m) <= 0 /\ MarketRegime(m) <= 0
  <1> DEFINE slope == IF m.stale THEN 700 ELSE 1700
             size  == AtMost(Size(m.change), 500)
             c     == Confidence(m)
  <1>1. size \in Int /\ size >= 0 /\ slope \in {700, 1700}
    BY DEF Size, AtMost
  <1>2. c \in Int /\ c >= 0
    BY ConfidenceIsPositive
  <1>3. PriceMomentum(m) = Trend(m) * size * slope
    BY DEF PriceMomentum
  <1>4. /\ Trend(m) \in {-1, 0, 1}
        /\ m.change >= 100 => Trend(m) = 1
        /\ m.change <= -100 => Trend(m) = -1
    BY DEF Trend
  <1>5. /\ Regime(m) = "TREND_UP" => m.change >= 100
        /\ Regime(m) = "TREND_DOWN" => m.change <= -100
    BY DEF Regime
  <1>6. MarketRegime(m) = IF Regime(m) = "TREND_UP" THEN 75 * c
                          ELSE IF Regime(m) = "TREND_DOWN" THEN -75 * c ELSE 0
    BY DEF MarketRegime
  <1> HIDE DEF slope, size, c
  <1>7. CASE Trend(m) = 1
    <2>1. PriceMomentum(m) \in Int /\ PriceMomentum(m) >= 0
      BY <1>1, <1>3, <1>7
    <2>2. MarketRegime(m) \in Int /\ MarketRegime(m) >= 0
      BY <1>2, <1>4, <1>5, <1>6, <1>7
    <2> QED
      BY <2>1, <2>2
  <1>8. CASE Trend(m) = -1
    <2>1. PriceMomentum(m) \in Int /\ PriceMomentum(m) <= 0
      BY <1>1, <1>3, <1>8
    <2>2. MarketRegime(m) \in Int /\ MarketRegime(m) <= 0
      BY <1>2, <1>4, <1>5, <1>6, <1>8
    <2> QED
      BY <2>1, <2>2
  <1>9. CASE Trend(m) = 0
    BY <1>1, <1>3, <1>4, <1>5, <1>6, <1>9
  <1> QED
    BY <1>4, <1>7, <1>8, <1>9

\* raw_edge, which is Balance over Weight, is -1, 0 or 1 for every snapshot: the
\* edge says no more than the direction, and NO_EDGE is never what the brain
\* answers to the evidence engine (evidence/engine.py lines 15-58,
\* quant/brain.py lines 23-45).
THEOREM EdgeIsTheDirection ==
  ASSUME NEW m \in [change : Int, range : Nat, stale : BOOLEAN]
  PROVE  Size(Balance(m)) = Weight(m) /\ Decision(m) # "NO_EDGE"
  <1>1. PriceMomentum(m) \in Int /\ MarketRegime(m) \in Int
    BY EvidencesAgree
  <1>2. Size(Balance(m)) = Weight(m)
    BY EvidencesAgree, SizeOfSum DEF Balance, Weight
  <1>3. Balance(m) \in Int
    BY <1>1 DEF Balance
  <1>4. Weight(m) # 0 => Leans(Balance(m), Weight(m)) \/ Leans(-Balance(m), Weight(m))
    BY <1>2, <1>3 DEF Leans, Size, Evidences, Undirected
  <1> QED
    BY <1>2, <1>4 DEF Decision

LEMMA ContextOfAnOpening ==
  ASSUME NEW market \in Snapshots, NEW quant \in Snapshots, Directional(quant)
  PROVE  Context(market, quant) # NoShadow
  <1>1. Context(market, quant).direction \in {"LONG_BIAS", "SHORT_BIAS"}
    BY DEF Directional, Directions, Context
  <1> QED
    BY <1>1 DEF NoShadow

----------------------------------------------------------------------------
(* One position of a symbol. *)

PositionInv == open \in [Symbols -> Nat] /\ OnePositionPerSymbol

LEMMA PositionsKept == PositionInv /\ UNCHANGED open => PositionInv'
  BY DEF PositionInv, OnePositionPerSymbol

\* Only three steps change what is open.
LEMMA WhatOpensAndCloses ==
  ASSUME Next
  PROVE  \/ UNCHANGED open
         \/ \E t \in Tasks, market \in Snapshots, quant \in Snapshots : EntryOpens(t, market, quant)
         \/ \E closed \in SUBSET Symbols : ManagingEnds(closed)
         \/ \E s \in Symbols : CloseByHand(s)
  BY DEF Next, StartScan, StartCycle, StartEntry, ReadinessAllows, CandidateRefused,
         EntryRejected, EntryFails, ScanFails, UniverseAnswers, ScanEnds,
         ReservationExpires, AutoManage, StartManaging, StartShadow, ShadowVisit, Crash,
         cycleVars

\* However late an entry is, and however many are in flight, the account never
\* holds a symbol twice (execution/service.py lines 90-96).
THEOREM AccountNeverDoubles == Spec => []OnePositionPerSymbol
  <1>1. Init => PositionInv
    BY DEF Init, PositionInv, OnePositionPerSymbol
  <1>2. PositionInv /\ [Next]_vars => PositionInv'
    <2> SUFFICES ASSUME PositionInv, [Next]_vars
                 PROVE  PositionInv'
      OBVIOUS
    <2>1. CASE UNCHANGED open
      BY <2>1, PositionsKept
    <2>2. ASSUME NEW t \in Tasks, NEW market \in Snapshots, NEW quant \in Snapshots,
                 EntryOpens(t, market, quant)
          PROVE  PositionInv'
      <3> DEFINE s == Head(task[t].rest)
      <3>1. open[s] = 0 /\ open' = [open EXCEPT ![s] = @ + 1]
        BY <2>2 DEF EntryOpens, SymbolIsFree
      <3> HIDE DEF s
      <3>2. open' = [open EXCEPT ![s] = 1]
        BY <3>1
      <3>3. open' \in [Symbols -> Nat]
        BY <3>2 DEF PositionInv
      <3>4. \A u \in Symbols : open'[u] = IF u = s THEN 1 ELSE open[u]
        BY <3>2 DEF PositionInv
      <3> QED
        BY <3>3, <3>4 DEF PositionInv, OnePositionPerSymbol
    <2>3. ASSUME NEW closed \in SUBSET Symbols, ManagingEnds(closed)
          PROVE  PositionInv'
      BY <2>3 DEF ManagingEnds, PositionInv, OnePositionPerSymbol
    <2>4. ASSUME NEW s \in Symbols, CloseByHand(s)
          PROVE  PositionInv'
      BY <2>4 DEF CloseByHand, OpenSymbols, PositionInv, OnePositionPerSymbol
    <2>5. UNCHANGED vars => UNCHANGED open
      BY DEF vars, cycleVars
    <2> QED
      BY <2>1, <2>2, <2>3, <2>4, <2>5, WhatOpensAndCloses
  <1>3. PositionInv => OnePositionPerSymbol
    BY DEF PositionInv
  <1> QED
    BY <1>1, <1>2, <1>3, PTL DEF Spec

----------------------------------------------------------------------------
(* Every shadow position becomes one observation. *)

\* A position's context is an unspecified value here; what matters is which one.
Observed(s) == [i \in DOMAIN observations[s] |-> observations[s][i].context]

Contexts == {Context(market, quant) : market \in Snapshots, quant \in Snapshots} \cup {NoShadow}

ShadowInv == /\ shadow \in [Symbols -> Contexts]
             /\ shadowed \in [Symbols -> Seq(Contexts)]
             /\ observations \in [Symbols -> Seq([context : Contexts, r : Results])]
             /\ ObservationsAreCausal

LEMMA ShadowKept == ShadowInv /\ UNCHANGED <<shadow, observations, shadowed>> => ShadowInv'
  BY DEF ShadowInv, ObservationsAreCausal, HasShadow

LEMMA WhatTheShadowDoes ==
  ASSUME Next
  PROVE  \/ UNCHANGED <<shadow, observations, shadowed>>
         \/ \E s \in Symbols, market \in Snapshots, quant \in Snapshots :
               VisitOpens(s, market, quant)
         \/ \E s \in Symbols, r \in Results : VisitCloses(s, r)
  BY DEF Next, StartScan, StartCycle, StartEntry, ReadinessAllows, EntryOpens,
         CandidateRefused, EntryRejected, EntryFails, ScanFails, UniverseAnswers, ScanEnds,
         ReservationExpires, AutoManage, StartManaging, ManagingEnds, CloseByHand,
         StartShadow, ShadowCycleBegins, ShadowVisit, VisitChangesNothing, Crash, ShadowDies,
         shadowVars

LEMMA ObservedIsASeq ==
  ASSUME NEW C, NEW R, NEW q \in Seq([context : C, r : R])
  PROVE  /\ [i \in DOMAIN q |-> q[i].context] \in Seq(C)
         /\ Len([i \in DOMAIN q |-> q[i].context]) = Len(q)
  <1>1. /\ Len(q) \in Nat /\ DOMAIN q = 1..Len(q)
        /\ \A i \in 1..Len(q) : q[i] \in [context : C, r : R]
    BY LenProperties
  <1> QED
    BY <1>1

\* A list of observations with one more shows one more context.
LEMMA ObservedGrows ==
  ASSUME NEW C, NEW R, NEW q \in Seq([context : C, r : R]), NEW c \in C, NEW x \in R,
         NEW p, p = Append(q, [context |-> c, r |-> x])
  PROVE  [i \in DOMAIN p |-> p[i].context] = Append([i \in DOMAIN q |-> q[i].context], c)
  <1> DEFINE o == [context |-> c, r |-> x]
             seen == [i \in DOMAIN q |-> q[i].context]
             after == [i \in DOMAIN p |-> p[i].context]
  <1>1. o \in [context : C, r : R] /\ o.context = c
    OBVIOUS
  <1>2. /\ p \in Seq([context : C, r : R])
        /\ Len(p) = Len(q) + 1
        /\ \A i \in 1..Len(q) : p[i] = q[i]
        /\ p[Len(q) + 1] = o
    BY <1>1, AppendProperties
  <1>3. /\ Len(q) \in Nat
        /\ DOMAIN q = 1..Len(q) /\ DOMAIN p = 1..(Len(q) + 1)
        /\ \A i \in 1..Len(q) : q[i] \in [context : C, r : R]
    BY <1>2, LenProperties
  <1> HIDE DEF o
  <1>4. seen \in Seq(C) /\ Len(seen) = Len(q) /\ \A i \in 1..Len(q) : seen[i] = q[i].context
    BY <1>3, ObservedIsASeq
  <1>5. /\ after \in [1..(Len(q) + 1) -> C]
        /\ \A i \in 1..Len(q) : after[i] = seen[i]
        /\ after[Len(q) + 1] = c
    BY <1>1, <1>2, <1>3, <1>4
  <1>6. after \in Seq(C) /\ Len(after) = Len(q) + 1
    BY <1>3, <1>5
  <1> HIDE DEF seen, after
  <1>7. /\ Append(seen, c) \in Seq(C)
        /\ Len(Append(seen, c)) = Len(q) + 1
        /\ \A i \in 1..Len(q) : Append(seen, c)[i] = seen[i]
        /\ Append(seen, c)[Len(q) + 1] = c
    BY <1>4, AppendProperties
  <1>8. \A i \in 1..(Len(q) + 1) : after[i] = Append(seen, c)[i]
    BY <1>3, <1>5, <1>7
  <1>9. after = Append(seen, c)
    BY <1>6, <1>7, <1>8, SeqEqual
  <1> QED
    BY <1>9 DEF seen, after

LEMMA OpeningKeepsShadowInv ==
  ASSUME ShadowInv, NEW s \in Symbols, NEW market \in Snapshots, NEW quant \in Snapshots,
         VisitOpens(s, market, quant)
  PROVE  ShadowInv'
  <1> DEFINE c == Context(market, quant)
  <1>1. /\ shadow[s] = NoShadow /\ c # NoShadow /\ c \in Contexts
        /\ shadow' = [shadow EXCEPT ![s] = c]
        /\ shadowed' = [shadowed EXCEPT ![s] = Append(@, c)]
        /\ observations' = observations
    BY ContextOfAnOpening DEF VisitOpens, HasShadow, Contexts
  <1> HIDE DEF c
  <1>2. /\ shadow' \in [Symbols -> Contexts]
        /\ shadowed' \in [Symbols -> Seq(Contexts)]
        /\ observations' \in [Symbols -> Seq([context : Contexts, r : Results])]
    BY <1>1, AppendProperties DEF ShadowInv
  <1>3. Observed(s) \in Seq(Contexts)
    BY ObservedIsASeq DEF ShadowInv, Observed
  <1>4. shadowed[s] = Observed(s)
    BY <1>1, <1>3, ConcatEmptySeq DEF ShadowInv, ObservationsAreCausal, HasShadow, Observed
  <1>5. shadowed'[s] = Append(Observed(s), c) /\ shadow'[s] = c
    BY <1>1, <1>4 DEF ShadowInv
  <1>6. shadowed'[s] = Observed(s) \o <<c>>
    BY <1>1, <1>3, <1>5, AppendIsConcat
  <1>7. \A u \in Symbols \ {s} : shadowed'[u] = shadowed[u] /\ shadow'[u] = shadow[u]
    BY <1>1 DEF ShadowInv
  <1>8. ObservationsAreCausal'
    BY <1>1, <1>5, <1>6, <1>7 DEF ShadowInv, ObservationsAreCausal, HasShadow, Observed
  <1> QED
    BY <1>2, <1>8 DEF ShadowInv

LEMMA ClosingKeepsShadowInv ==
  ASSUME ShadowInv, NEW s \in Symbols, NEW r \in Results, VisitCloses(s, r)
  PROVE  ShadowInv'
  <1> DEFINE o == [context |-> shadow[s], r |-> r]
  <1>1. /\ shadow[s] # NoShadow /\ shadow[s] \in Contexts
        /\ shadow' = [shadow EXCEPT ![s] = NoShadow]
        /\ observations' = [observations EXCEPT ![s] = Append(@, o)]
        /\ shadowed' = shadowed
    BY DEF VisitCloses, Complete, Observe, HasShadow, ShadowInv
  <1>2. o \in [context : Contexts, r : Results]
    BY <1>1
  <1>3. NoShadow \in Contexts
    BY DEF Contexts
  <1>4. observations[s] \in Seq([context : Contexts, r : Results])
    BY DEF ShadowInv
  <1>5. observations'[s] = Append(observations[s], o)
    BY <1>1 DEF ShadowInv
  <1>6. Observed(s) \in Seq(Contexts) /\ Observed(s)' = Append(Observed(s), shadow[s])
    <2>1. Observed(s) \in Seq(Contexts)
      BY <1>4, ObservedIsASeq DEF Observed
    <2>2. [i \in DOMAIN observations'[s] |-> observations'[s][i].context]
             = Append([i \in DOMAIN observations[s] |-> observations[s][i].context], shadow[s])
      BY <1>1, <1>4, <1>5, ObservedGrows DEF o
    <2> QED
      BY <2>1, <2>2 DEF Observed
  <1> HIDE DEF o
  <1>7. /\ shadow' \in [Symbols -> Contexts]
        /\ shadowed' \in [Symbols -> Seq(Contexts)]
    BY <1>1, <1>3 DEF ShadowInv
  <1>8. observations' \in [Symbols -> Seq([context : Contexts, r : Results])]
    BY <1>1, <1>2, AppendProperties DEF ShadowInv
  <1>9. shadowed[s] = Observed(s) \o <<shadow[s]>>
    BY <1>1 DEF ShadowInv, ObservationsAreCausal, HasShadow, Observed
  <1>10. shadowed'[s] = Observed(s)' /\ shadow'[s] = NoShadow
    BY <1>1, <1>6, <1>9, AppendIsConcat DEF ShadowInv
  <1>11. shadowed'[s] = Observed(s)' \o <<>>
    <2>1. Append(Observed(s), shadow[s]) \in Seq(Contexts)
      BY <1>1, <1>6, AppendProperties
    <2> QED
      BY <1>6, <1>10, <2>1, ConcatEmptySeq
  <1>12. \A u \in Symbols \ {s} : /\ shadowed'[u] = shadowed[u] /\ shadow'[u] = shadow[u]
                                  /\ observations'[u] = observations[u]
    BY <1>1 DEF ShadowInv
  <1>13. ObservationsAreCausal'
    BY <1>10, <1>11, <1>12 DEF ShadowInv, ObservationsAreCausal, HasShadow, Observed
  <1> QED
    BY <1>7, <1>8, <1>13 DEF ShadowInv

LEMMA ShadowInvariant == Spec => []ShadowInv
  <1>1. Init => ShadowInv
    <2> SUFFICES ASSUME Init PROVE ShadowInv
      OBVIOUS
    <2>1. /\ shadow = [s \in Symbols |-> NoShadow]
          /\ observations = [s \in Symbols |-> <<>>]
          /\ shadowed = [s \in Symbols |-> <<>>]
      BY DEF Init, ShadowInit
    <2>2. ShadowInv!1 /\ ShadowInv!2 /\ ShadowInv!3
      BY <2>1, EmptySeq DEF Contexts
    <2>3. \A s \in Symbols : [i \in DOMAIN observations[s] |-> observations[s][i].context] = <<>>
      BY <2>1
    <2>4. <<>> \in Seq(Contexts)
      BY EmptySeq
    <2>5. ObservationsAreCausal
      BY <2>1, <2>3, <2>4, ConcatEmptySeq DEF ObservationsAreCausal, HasShadow
    <2> QED
      BY <2>2, <2>5 DEF ShadowInv
  <1>2. ShadowInv /\ [Next]_vars => ShadowInv'
    <2> SUFFICES ASSUME ShadowInv, [Next]_vars
                 PROVE  ShadowInv'
      OBVIOUS
    <2>1. CASE UNCHANGED <<shadow, observations, shadowed>>
      BY <2>1, ShadowKept
    <2>2. UNCHANGED vars => UNCHANGED <<shadow, observations, shadowed>>
      BY DEF vars, shadowVars
    <2> QED
      BY <2>1, <2>2, WhatTheShadowDoes, OpeningKeepsShadowInv, ClosingKeepsShadowInv
  <1> QED
    BY <1>1, <1>2, PTL DEF Spec

\* Whatever dies and whenever: every shadow position that ended is one
\* observation, and one that has not ended is none (shadow/service.py lines
\* 147-155).
THEOREM EvidenceIsCausal == Spec => []ObservationsAreCausal
  <1>1. ShadowInv => ObservationsAreCausal
    BY DEF ShadowInv
  <1> QED
    BY <1>1, ShadowInvariant, PTL

----------------------------------------------------------------------------
(* Runs that are traded are stored. *)

\* 0 stands for an entry asked for by hand.
StoredIn(rows, n) == n \in 0..Len(rows) /\ (n > 0 => rows[n])

\* A cycle, or an entry in flight, that rests on a stored run.
RestsOn(rows, state) == state.phase \in {"readiness", "entering"} => StoredIn(rows, state.run)

RunInv == /\ runs \in Seq(BOOLEAN)
          /\ DOMAIN task = Tasks
          /\ StoredIn(runs, latest.id)
          /\ \A t \in Tasks : RestsOn(runs, task[t])

RunsGrow == runs' = runs \/ \E stored \in BOOLEAN : runs' = Append(runs, stored)

LEMMA StoredStays ==
  ASSUME runs \in Seq(BOOLEAN), RunsGrow
  PROVE  /\ runs' \in Seq(BOOLEAN)
         /\ \A n : StoredIn(runs, n) => StoredIn(runs', n)
         /\ \A state : RestsOn(runs, state) => RestsOn(runs', state)
  <1>1. /\ runs' \in Seq(BOOLEAN)
        /\ \A n : StoredIn(runs, n) => StoredIn(runs', n)
    <2>1. CASE runs' = runs
      BY <2>1
    <2>2. ASSUME NEW stored \in BOOLEAN, runs' = Append(runs, stored)
          PROVE  /\ runs' \in Seq(BOOLEAN)
                 /\ \A n : StoredIn(runs, n) => StoredIn(runs', n)
      <3>1. /\ runs' \in Seq(BOOLEAN) /\ Len(runs') = Len(runs) + 1
            /\ \A i \in 1..Len(runs) : runs'[i] = runs[i]
        BY <2>2, AppendProperties
      <3>2. Len(runs) \in Nat
        BY LenProperties
      <3> QED
        BY <3>1, <3>2 DEF StoredIn
    <2> QED
      BY <2>1, <2>2 DEF RunsGrow
  <1> QED
    BY <1>1 DEF RestsOn

LEMMA ContinueRests ==
  ASSUME NEW rows, NEW rest, NEW run, NEW made, StoredIn(rows, run)
  PROVE  RestsOn(rows, Continue(rest, run, made))
  BY DEF Continue, RestsOn, Idle, Trying

LEMMA IdleRests ==
  ASSUME NEW rows
  PROVE  /\ RestsOn(rows, Idle)
         /\ RestsOn(rows, [phase |-> "scan"])
         /\ RestsOn(rows, [phase |-> "scanning"])
  BY DEF RestsOn, Idle

\* A step that changes what one task does, and grows the runs at most.
LEMMA OneTaskMoves ==
  ASSUME RunInv, RunsGrow, StoredIn(runs', latest'.id),
         NEW t, NEW state, Become(t, state), RestsOn(runs', state)
  PROVE  RunInv'
  <1>1. /\ runs' \in Seq(BOOLEAN)
        /\ \A x : RestsOn(runs, x) => RestsOn(runs', x)
    BY StoredStays DEF RunInv
  <1>2. DOMAIN task' = Tasks /\ \A u \in Tasks : task'[u] = task[u] \/ task'[u] = state
    BY DEF Become, RunInv
  <1>3. \A u \in Tasks : RestsOn(runs', task'[u])
    BY <1>1, <1>2 DEF RunInv
  <1> QED
    BY <1>1, <1>2, <1>3 DEF RunInv

LEMMA NoTaskMoves ==
  ASSUME RunInv, RunsGrow, StoredIn(runs', latest'.id), task' = task
  PROVE  RunInv'
  BY StoredStays DEF RunInv

\* Neither the runs nor the latest of them change.
Unscanned == UNCHANGED <<runs, latest>>

LEMMA UnscannedKeeps ==
  ASSUME RunInv, Unscanned
  PROVE  RunsGrow /\ runs' = runs /\ StoredIn(runs', latest'.id)
  BY DEF RunInv, Unscanned, RunsGrow

LEMMA ScanStepsKeepRunInv ==
  ASSUME RunInv, NEW t \in Tasks, StartScan(t) \/ StartCycle(t)
  PROVE  RunInv'
  <1>1. Unscanned
    BY DEF StartScan, StartCycle, BeginScan, scannerVars, Unscanned
  <1>2. CASE StartScan(t)
    BY <1>1, <1>2, UnscannedKeeps, IdleRests, OneTaskMoves DEF StartScan
  <1>3. ASSUME Become(t, [phase |-> "scanning"])
        PROVE  RunInv'
    BY <1>1, <1>3, UnscannedKeeps, IdleRests, OneTaskMoves
  <1>4. ASSUME Become(t, Received(latest))
        PROVE  RunInv'
    <2>1. RestsOn(runs', Received(latest))
      BY <1>1, ContinueRests DEF Received, RunInv, Unscanned
    <2> QED
      BY <1>1, <1>4, <2>1, UnscannedKeeps, OneTaskMoves
  <1> QED
    BY <1>2, <1>3, <1>4 DEF StartCycle

LEMMA TrialsKeepRunInv ==
  ASSUME RunInv, NEW t \in Tasks,
         \/ \E s \in Symbols : StartEntry(t, s)
         \/ \E market, quant \in Snapshots :
               ReadinessAllows(t, market, quant) \/ EntryOpens(t, market, quant)
         \/ CandidateRefused(t) \/ EntryRejected(t) \/ EntryFails(t)
  PROVE  RunInv'
  <1>1. Unscanned
    BY DEF StartEntry, ReadinessAllows, EntryOpens, CandidateRefused, EntryRejected,
           EntryFails, scannerVars, Unscanned
  <1>2. RunsGrow /\ runs' = runs /\ StoredIn(runs', latest'.id)
    BY <1>1, UnscannedKeeps
  <1>3. ASSUME NEW s \in Symbols, StartEntry(t, s)
        PROVE  RunInv'
    <2> DEFINE work == [Trying("entering", <<s>>, 0, 0) EXCEPT !.phase = "entering"]
    <2>1. RestsOn(runs', work)
      <3>1. work.run = 0
        BY DEF Trying
      <3>2. Len(runs) \in Nat
        BY LenProperties DEF RunInv
      <3> QED
        BY <1>2, <3>1, <3>2 DEF RestsOn, StoredIn
    <2>2. Become(t, work)
      BY <1>3 DEF StartEntry, Enter
    <2> HIDE DEF work
    <2> QED
      BY <1>2, <2>1, <2>2, OneTaskMoves
  <1>4. ASSUME NEW market \in Snapshots, NEW quant \in Snapshots, ReadinessAllows(t, market, quant)
        PROVE  RunInv'
    <2> DEFINE work == [task[t] EXCEPT !.phase = "entering"]
    <2>1. Become(t, work) /\ task[t].phase = "readiness"
      BY <1>4 DEF ReadinessAllows, Enter, Doing
    <2>2. work.run = task[t].run \/ work = task[t]
      OBVIOUS
    <2>3. StoredIn(runs, task[t].run)
      BY <2>1 DEF RunInv, RestsOn
    <2>4. RestsOn(runs', work)
      BY <1>2, <2>2, <2>3 DEF RestsOn
    <2> HIDE DEF work
    <2> QED
      BY <1>2, <2>1, <2>4, OneTaskMoves
  <1>5. ASSUME NEW made, task[t].phase \in {"readiness", "entering"}, NextCandidate(t, made)
        PROVE  RunInv'
    <2>1. StoredIn(runs', task[t].run)
      BY <1>2, <1>5 DEF RunInv, RestsOn
    <2> QED
      BY <1>2, <1>5, <2>1, ContinueRests, OneTaskMoves DEF NextCandidate
  <1>6. \/ \E s \in Symbols : StartEntry(t, s)
        \/ \E market, quant \in Snapshots : ReadinessAllows(t, market, quant)
        \/ task[t].phase \in {"readiness", "entering"} /\ \E made \in {0, 1} : NextCandidate(t, made)
    BY DEF EntryOpens, CandidateRefused, EntryRejected, EntryFails, Doing
  <1> QED
    BY <1>3, <1>4, <1>5, <1>6

LEMMA ScanEndKeepsRunInv ==
  ASSUME RunInv, NEW ranking, NEW stored \in BOOLEAN, ScanEnds(ranking, stored)
  PROVE  RunInv'
  <1> DEFINE new == [id |-> Len(runs) + 1, candidates |-> ranking]
             next == IF stored /\ Doing(scan.by, "scanning") THEN Received(latest') ELSE Idle
  <1>1. /\ runs' = Append(runs, stored)
        /\ latest' = IF stored THEN new ELSE latest
        /\ Become(scan.by, next)
    BY DEF ScanEnds, AssessmentsEnd, StoreRun
  <1>2. RunsGrow
    BY <1>1 DEF RunsGrow
  <1>3. StoredIn(runs', latest'.id)
    <2>1. CASE stored
      <3>1. Len(runs') = Len(runs) + 1 /\ runs'[Len(runs) + 1] = stored /\ Len(runs) \in Nat
        BY <1>1, AppendProperties, LenProperties DEF RunInv
      <3>2. latest'.id = Len(runs) + 1
        BY <1>1, <2>1
      <3>3. runs'[latest'.id]
        BY <2>1, <3>1, <3>2
      <3>4. latest'.id \in 0..Len(runs')
        BY <3>1, <3>2
      <3> QED
        BY <3>3, <3>4 DEF StoredIn
    <2>2. CASE ~stored
      BY <1>1, <1>2, <2>2, StoredStays DEF RunInv
    <2> QED
      BY <2>1, <2>2
  <1>4. RestsOn(runs', Received(latest'))
    BY <1>3, ContinueRests DEF Received
  <1>5. RestsOn(runs', next)
    BY <1>4, IdleRests
  <1> HIDE DEF new, next
  <1> QED
    BY <1>1, <1>2, <1>3, <1>5, OneTaskMoves

LEMMA CrashKeepsRunInv == RunInv /\ Crash => RunInv'
  <1> SUFFICES ASSUME RunInv, Crash PROVE RunInv'
    OBVIOUS
  <1>1. RunsGrow /\ latest' = NoRun /\ task' = [t \in Tasks |-> Idle]
    BY DEF Crash, ScannerDies, RunsGrow
  <1>2. runs' \in Seq(BOOLEAN) /\ Len(runs') \in Nat
    BY <1>1, StoredStays, LenProperties DEF RunInv
  <1>3. StoredIn(runs', latest'.id)
    BY <1>1, <1>2 DEF NoRun, StoredIn
  <1> QED
    BY <1>1, <1>2, <1>3, IdleRests DEF RunInv

LEMMA OtherStepsKeepRunInv ==
  ASSUME RunInv,
         \/ ScanFails
         \/ \E S \in SUBSET Symbols : UniverseAnswers(S)
         \/ ReservationExpires \/ AutoManage \/ StartShadow
         \/ \E s \in Symbols : CloseByHand(s) \/ ShadowVisit(s)
         \/ UNCHANGED vars
  PROVE  RunInv'
  <1>1. Unscanned
    BY DEF ScanFails, UniverseFails, UniverseAnswers, SelectShallow, ReservationExpires,
           AutoManage, StartManaging, ManagingEnds, StartShadow, CloseByHand, ShadowVisit,
           vars, scannerVars, Unscanned
  <1>2. RunsGrow /\ runs' = runs /\ StoredIn(runs', latest'.id)
    BY <1>1, UnscannedKeeps
  <1>3. task' = task \/ Become(scan.by, Idle)
    BY DEF ScanFails, UniverseAnswers, ReservationExpires, AutoManage, StartManaging,
           ManagingEnds, StartShadow, CloseByHand, ShadowVisit, vars, cycleVars
  <1> QED
    BY <1>2, <1>3, NoTaskMoves, IdleRests, OneTaskMoves

\* Whoever trades on a run trades on one whose rows are all in the database
\* (scanner/service.py lines 62-126).
THEOREM TradedRunsAreStored == Spec => []HandedRunIsStored
  <1>1. Init => RunInv
    <2> SUFFICES ASSUME Init PROVE RunInv
      OBVIOUS
    <2>1. runs = <<>> /\ latest = NoRun /\ task = [t \in Tasks |-> Idle]
      BY DEF Init, ScannerInit
    <2>2. runs \in Seq(BOOLEAN) /\ Len(runs) = 0
      BY <2>1, EmptySeq
    <2>3. StoredIn(runs, latest.id)
      BY <2>1, <2>2 DEF StoredIn, NoRun
    <2> QED
      BY <2>1, <2>2, <2>3, IdleRests DEF RunInv
  <1>2. RunInv /\ [Next]_vars => RunInv'
    <2> SUFFICES ASSUME RunInv, [Next]_vars
                 PROVE  RunInv'
      OBVIOUS
    <2> QED
      BY ScanStepsKeepRunInv, TrialsKeepRunInv, ScanEndKeepsRunInv, CrashKeepsRunInv,
         OtherStepsKeepRunInv DEF Next
  <1>3. RunInv => HandedRunIsStored
    BY DEF RunInv, HandedRunIsStored, Doing, RestsOn, StoredIn
  <1> QED
    BY <1>1, <1>2, <1>3, PTL DEF Spec

----------------------------------------------------------------------------
(* Selections and sums.  Both are about every list, by its least           *)
(* counterexample.                                                         *)

LEMMA LeastOf ==
  ASSUME NEW S \in SUBSET Nat, S # {}
  PROVE  \E m \in S : \A k \in S : m <= k
  <1>1. PICK m \in S : \A k \in S : ~(<<k, m>> \in OpToRel(<, Nat))
    BY NatLessThanWellFounded, WFMin
  <1>2. \A k \in S : ~(k < m)
    BY <1>1 DEF OpToRel
  <1> QED
    BY <1>2

\* The n-th of a set of positions exists.
LEMMA RankExists ==
  ASSUME NEW N \in Nat, NEW at, \A i \in at : i \in 1..N, NEW n \in 1..Cardinality(at)
  PROVE  \E i \in at : Cardinality({j \in at : j <= i}) = n
  <1> DEFINE upto(i) == {j \in at : j <= i}
             reached == {i \in 0..N : Cardinality(upto(i)) >= n}
  <1>1. IsFiniteSet(at) /\ Cardinality(at) \in Nat
    <2>1. at \in SUBSET (1..N) /\ IsFiniteSet(1..N)
      BY FS_Interval
    <2> QED
      BY <2>1, FS_Subset, FS_CardinalityType
  <1>2. \A i \in 0..N : IsFiniteSet(upto(i)) /\ Cardinality(upto(i)) \in Nat
    <2>1. \A i \in 0..N : upto(i) \in SUBSET at
      OBVIOUS
    <2> QED
      BY <1>1, <2>1, FS_Subset, FS_CardinalityType
  <1>3. N \in reached
    <2>1. \A j \in at : j <= N
      OBVIOUS
    <2>2. upto(N) = at
      BY <2>1
    <2> QED
      BY <1>1, <2>2
  <1>4. PICK m \in reached : \A k \in reached : m <= k
    <2>1. reached \in SUBSET Nat
      OBVIOUS
    <2> QED
      BY <1>3, <2>1, LeastOf
  <1>5. m \in 1..N /\ m - 1 \in 0..N
    <2>1. upto(0) = {}
      OBVIOUS
    <2>2. m # 0
      BY <2>1, FS_EmptySet
    <2> QED
      BY <2>2
  <1> DEFINE before == upto(m - 1)
             within == upto(m)
  <1>6. Cardinality(before) < n /\ Cardinality(before) \in Nat /\ IsFiniteSet(before)
    <2>1. m - 1 \notin reached
      BY <1>4, <1>5
    <2> QED
      BY <1>2, <1>5, <2>1
  <1>7. Cardinality(within) >= n /\ Cardinality(within) \in Nat
    BY <1>2, <1>5
  <1>8. /\ m \notin before
        /\ within = IF m \in at THEN before \cup {m} ELSE before
    <2>1. \A j \in at : j <= m <=> j <= m - 1 \/ j = m
      BY <1>5
    <2> QED
      BY <1>5, <2>1
  <1> HIDE DEF before, within
  <1>9. m \in at
    BY <1>6, <1>7, <1>8
  <1>10. Cardinality(within) = Cardinality(before) + 1
    BY <1>6, <1>8, <1>9, FS_AddElement
  <1>11. Cardinality(within) = n
    BY <1>6, <1>7, <1>10
  <1> QED
    BY <1>9, <1>11 DEF within

\* A selection has as many elements as positions, each of them at one of these.
LEMMA SelectedElements ==
  ASSUME NEW S, NEW q \in Seq(S), NEW at \in SUBSET DOMAIN q
  PROVE  /\ Selected(q, at) \in Seq(S)
         /\ Len(Selected(q, at)) = Cardinality(at)
         /\ \A n \in 1..Cardinality(at) : \E i \in at : Selected(q, at)[n] = q[i]
  <1>1. Len(q) \in Nat /\ DOMAIN q = 1..Len(q) /\ \A i \in 1..Len(q) : q[i] \in S
    BY LenProperties
  <1>2. Cardinality(at) \in Nat
    <2>1. at \in SUBSET (1..Len(q)) /\ IsFiniteSet(1..Len(q))
      BY <1>1, FS_Interval
    <2> QED
      BY <2>1, FS_Subset, FS_CardinalityType
  <1> DEFINE nth(n) == CHOOSE i \in at : Cardinality({j \in at : j <= i}) = n
  <1>3. \A n \in 1..Cardinality(at) : nth(n) \in at
    BY <1>1, RankExists
  <1>4. Selected(q, at) = [n \in 1..Cardinality(at) |-> q[nth(n)]]
    BY DEF Selected
  <1> HIDE DEF nth
  <1>5. Selected(q, at) \in [1..Cardinality(at) -> S]
    BY <1>1, <1>3, <1>4
  <1>6. \A n \in 1..Cardinality(at) : Selected(q, at)[n] = q[nth(n)]
    BY <1>4
  <1> QED
    BY <1>2, <1>3, <1>5, <1>6

\* The partial sums of a list exist, are whole, and are what Total takes.
PartialSums(s, f) == /\ f[0] = 0
                     /\ \A n \in 1..Len(s) : f[n] = f[n - 1] + s[n]

LEMMA SumsExist ==
  ASSUME NEW s \in Seq(Int)
  PROVE  \E f \in [0..Len(s) -> Int] : PartialSums(s, f)
  <1> DEFINE sumsTo(n) == \E f \in [0..n -> Int] :
                             f[0] = 0 /\ \A k \in 1..n : f[k] = f[k - 1] + s[k]
             missing == {n \in 0..Len(s) : ~sumsTo(n)}
  <1>1. Len(s) \in Nat /\ \A i \in 1..Len(s) : s[i] \in Int
    BY LenProperties
  <1> HIDE DEF sumsTo
  <1>2. SUFFICES missing = {}
    <2>1. ASSUME missing = {} PROVE sumsTo(Len(s))
      BY <1>1, <2>1
    <2> QED
      BY <2>1 DEF PartialSums, sumsTo
  <1>3. SUFFICES ASSUME missing # {} PROVE FALSE
    OBVIOUS
  <1>4. PICK m \in missing : \A k \in missing : m <= k
    <2>1. missing \in SUBSET Nat
      OBVIOUS
    <2> QED
      BY <1>3, <2>1, LeastOf
  <1>5. m # 0
    <2>1. [k \in 0..0 |-> 0] \in [0..0 -> Int] /\ [k \in 0..0 |-> 0][0] = 0
      OBVIOUS
    <2>2. sumsTo(0)
      <3>1. 1..0 = {}
        OBVIOUS
      <3> QED
        BY <2>1, <3>1 DEF sumsTo
    <2> QED
      BY <1>4, <2>2
  <1>6. m \in 1..Len(s) /\ m - 1 \in 0..Len(s)
    BY <1>4, <1>5
  <1>7. sumsTo(m - 1)
    <2>1. m - 1 \notin missing
      BY <1>4, <1>6
    <2> QED
      BY <1>6, <2>1
  <1>8. PICK f \in [0..(m - 1) -> Int] :
           f[0] = 0 /\ \A k \in 1..(m - 1) : f[k] = f[k - 1] + s[k]
    BY <1>7 DEF sumsTo
  <1> DEFINE g == [k \in 0..m |-> IF k = m THEN f[m - 1] + s[m] ELSE f[k]]
  <1>9. g \in [0..m -> Int]
    BY <1>1, <1>6, <1>8
  <1>10. g[0] = 0 /\ \A k \in 1..m : g[k] = g[k - 1] + s[k]
    BY <1>6, <1>8
  <1>11. sumsTo(m)
    BY <1>9, <1>10 DEF sumsTo
  <1> QED
    BY <1>4, <1>11

LEMMA TotalIsTheLast ==
  ASSUME NEW s \in Seq(Int)
  PROVE  \E f : PartialSums(s, f) /\ Total(s) = f[Len(s)]
  <1> DEFINE sum == CHOOSE f : f = [n \in 0..Len(s) |-> IF n = 0 THEN 0 ELSE f[n - 1] + s[n]]
  <1>1. Len(s) \in Nat
    BY LenProperties
  <1>2. PICK f \in [0..Len(s) -> Int] : PartialSums(s, f)
    BY SumsExist
  <1>3. f = [n \in 0..Len(s) |-> IF n = 0 THEN 0 ELSE f[n - 1] + s[n]]
    <2>1. \A n \in 0..Len(s) : f[n] = IF n = 0 THEN 0 ELSE f[n - 1] + s[n]
      BY <1>1, <1>2 DEF PartialSums
    <2> QED
      BY <2>1
  <1>4. sum = [n \in 0..Len(s) |-> IF n = 0 THEN 0 ELSE sum[n - 1] + s[n]]
    BY <1>3
  <1>5. Total(s) = sum[Len(s)]
    BY DEF Total
  <1> HIDE DEF sum
  <1>6. \A n \in 0..Len(s) : sum[n] = IF n = 0 THEN 0 ELSE sum[n - 1] + s[n]
    BY <1>4
  <1>7. PartialSums(s, sum)
    BY <1>1, <1>6 DEF PartialSums
  <1> QED
    BY <1>5, <1>7

LEMMA TotalProperties ==
  ASSUME NEW s \in Seq(Int)
  PROVE  /\ Total(s) \in Int
         /\ (\A i \in 1..Len(s) : s[i] = 0) => Total(s) = 0
  <1>1. PICK f : PartialSums(s, f) /\ Total(s) = f[Len(s)]
    BY TotalIsTheLast
  <1>2. Len(s) \in Nat /\ \A i \in 1..Len(s) : s[i] \in Int
    BY LenProperties
  <1> DEFINE none == \A i \in 1..Len(s) : s[i] = 0
             wrong == {n \in 0..Len(s) : ~(f[n] \in Int /\ (none => f[n] = 0))}
  <1>3. wrong = {}
    <2> SUFFICES ASSUME wrong # {} PROVE FALSE
      OBVIOUS
    <2>1. PICK m \in wrong : \A k \in wrong : m <= k
      <3>1. wrong \in SUBSET Nat
        OBVIOUS
      <3> QED
        BY <3>1, LeastOf
    <2>2. m \in 1..Len(s) /\ m - 1 \in 0..Len(s)
      BY <1>1, <1>2, <2>1 DEF PartialSums
    <2>3. m - 1 \notin wrong
      BY <2>1, <2>2
    <2>4. f[m - 1] \in Int /\ (none => f[m - 1] = 0)
      BY <2>2, <2>3
    <2>5. f[m] = f[m - 1] + s[m]
      BY <1>1, <2>2 DEF PartialSums
    <2>6. none => s[m] = 0
      BY <2>2
    <2> HIDE DEF none
    <2> QED
      BY <1>2, <2>1, <2>2, <2>4, <2>5, <2>6
  <1>4. Len(s) \notin wrong
    BY <1>3
  <1>5. f[Len(s)] \in Int /\ (none => f[Len(s)] = 0)
    BY <1>2, <1>4
  <1> QED
    BY <1>1, <1>5

----------------------------------------------------------------------------
(* What an approval rests on. *)

LEMMA Clipped ==
  ASSUME NEW s \in Seq(Int)
  PROVE  /\ [i \in DOMAIN s |-> IF s[i] > 0 THEN s[i] ELSE 0] \in Seq(Int)
         /\ [i \in DOMAIN s |-> IF s[i] < 0 THEN -s[i] ELSE 0] \in Seq(Int)
         /\ Len([i \in DOMAIN s |-> IF s[i] > 0 THEN s[i] ELSE 0]) = Len(s)
         /\ Len([i \in DOMAIN s |-> IF s[i] < 0 THEN -s[i] ELSE 0]) = Len(s)
  <1>1. Len(s) \in Nat /\ DOMAIN s = 1..Len(s) /\ \A i \in 1..Len(s) : s[i] \in Int
    BY LenProperties
  <1> QED
    BY <1>1

\* Without a loss, or without a win, there is no sum of them.
LEMMA WinsAndLosses ==
  ASSUME NEW s \in Seq(Int)
  PROVE  /\ Profit(s) \in Int /\ Loss(s) \in Int
         /\ Profit(s) # 0 => \E i \in DOMAIN s : s[i] > 0
         /\ Loss(s) # 0 => \E i \in DOMAIN s : s[i] < 0
  <1> DEFINE wins   == [i \in DOMAIN s |-> IF s[i] > 0 THEN s[i] ELSE 0]
             losses == [i \in DOMAIN s |-> IF s[i] < 0 THEN -s[i] ELSE 0]
  <1>1. DOMAIN s = 1..Len(s)
    BY LenProperties
  <1>2. wins \in Seq(Int) /\ losses \in Seq(Int) /\ Len(wins) = Len(s) /\ Len(losses) = Len(s)
    BY Clipped
  <1>3. Profit(s) = Total(wins) /\ Loss(s) = Total(losses)
    BY DEF Profit, Loss
  <1>4. ASSUME \A i \in DOMAIN s : ~(s[i] > 0) PROVE \A i \in 1..Len(s) : wins[i] = 0
    BY <1>1, <1>4
  <1>5. ASSUME \A i \in DOMAIN s : ~(s[i] < 0) PROVE \A i \in 1..Len(s) : losses[i] = 0
    BY <1>1, <1>5
  <1> HIDE DEF wins, losses
  <1> QED
    BY <1>2, <1>3, <1>4, <1>5, TotalProperties

\* The calibration has seen enough results, a loss and a win among them.
LEMMA CalibrationHasSeen ==
  ASSUME NEW s \in Seq(Int), CalibrationApproves(s)
  PROVE  /\ Len(s) >= MinimumSamples
         /\ \E i \in DOMAIN s : s[i] < 0
         /\ \E i \in DOMAIN s : s[i] > 0
  <1>1. /\ Len(s) >= MinimumSamples /\ Loss(s) > 0
        /\ 100 * Profit(s) >= MinimumProfitFactor * Loss(s)
    BY DEF CalibrationApproves
  <1>2. Profit(s) \in Int /\ Loss(s) \in Int
    BY WinsAndLosses
  <1>3. MinimumProfitFactor \in Nat /\ MinimumProfitFactor > 0
    BY VerdictPolicyAssumption
  <1>4. MinimumProfitFactor * Loss(s) > 0
    BY <1>1, <1>2, <1>3
  <1>5. Profit(s) # 0
    BY <1>1, <1>2, <1>3, <1>4
  <1> QED
    BY <1>1, <1>2, <1>5, WinsAndLosses

\* So has the backtest, though it looks at the newest results only.
LEMMA BacktestHasSeen ==
  ASSUME NEW s \in Seq(Int), BacktestApproves(s)
  PROVE  Len(s) >= MinimumSamples
  <1> DEFINE first == Max({1, Len(s) - MaximumSamples + 1})
  <1>1. Len(Newest(s, MaximumSamples)) >= MinimumSamples
    BY DEF BacktestApproves
  <1>2. Len(s) \in Nat /\ MinimumSamples \in Nat \ {0} /\ MaximumSamples \in Nat
    BY LenProperties, VerdictPolicyAssumption
  <1>3. first \in Int /\ first >= 1
    <2> DEFINE both == {1, Len(s) - MaximumSamples + 1}
    <2>1. both \subseteq Int /\ \E x \in both : \A y \in both : x >= y
      BY <1>2
    <2>2. first = CHOOSE x \in both : \A y \in both : x >= y
      BY DEF Max
    <2>3. first \in both /\ \A y \in both : first >= y
      BY <2>1, <2>2
    <2> QED
      BY <2>1, <2>3
  <1>4. Newest(s, MaximumSamples) = SubSeq(s, first, Len(s))
    BY DEF Newest
  <1> HIDE DEF first
  <1>5. Len(SubSeq(s, first, Len(s))) = IF first <= Len(s) THEN Len(s) - first + 1 ELSE 0
    BY <1>2, <1>3
  <1> QED
    BY <1>1, <1>2, <1>3, <1>4, <1>5

SeenIn(seen, context) == {i \in DOMAIN seen : seen[i].context = context}

\* Every outcome is that of an observation made in the context.
OutcomesSeen(seen, context) ==
    \A n \in DOMAIN Outcomes(seen, context) :
        \E i \in SeenIn(seen, context) : Outcomes(seen, context)[n] = seen[i].r

\* The results of a context are those of the observations made in it.
LEMMA OutcomesOf ==
  ASSUME NEW C, NEW seen \in Seq([context : C, r : Results]), NEW context
  PROVE  /\ Outcomes(seen, context) \in Seq(Int)
         /\ Len(Outcomes(seen, context)) = Cardinality(SeenIn(seen, context))
         /\ OutcomesSeen(seen, context)
  <1> DEFINE results == [i \in DOMAIN seen |-> seen[i].r]
  <1>1. /\ Len(seen) \in Nat /\ DOMAIN seen = 1..Len(seen)
        /\ \A i \in 1..Len(seen) : seen[i] \in [context : C, r : Results]
    BY LenProperties
  <1>2. results \in Seq(Int) /\ DOMAIN results = DOMAIN seen
    <2>1. \A i \in 1..Len(seen) : seen[i].r \in Int
      BY <1>1, ResultsAssumption
    <2>2. results \in [1..Len(seen) -> Int]
      BY <1>1, <2>1
    <2> QED
      BY <1>1, <2>2
  <1>3. \A i \in DOMAIN seen : results[i] = seen[i].r
    OBVIOUS
  <1>4. Outcomes(seen, context) = Selected(results, SeenIn(seen, context))
    BY DEF Outcomes, SeenIn
  <1>5. SeenIn(seen, context) \in SUBSET DOMAIN seen
    BY DEF SeenIn
  <1> HIDE DEF results
  <1>6. /\ Selected(results, SeenIn(seen, context)) \in Seq(Int)
        /\ Len(Selected(results, SeenIn(seen, context))) = Cardinality(SeenIn(seen, context))
        /\ \A n \in 1..Cardinality(SeenIn(seen, context)) : \E i \in SeenIn(seen, context) :
              Selected(results, SeenIn(seen, context))[n] = results[i]
    BY <1>2, <1>5, SelectedElements
  <1> QED
    BY <1>3, <1>4, <1>5, <1>6, LenProperties DEF OutcomesSeen

----------------------------------------------------------------------------
(* Entries rest on evidence of their symbol. *)

Samples(seen, context) == Cardinality(SeenIn(seen, context)) >= MinimumSamples

\* The observations in seen bear entry e out.
BearOut(seen, e) ==
    /\ Samples(seen, e.calibrated)
    /\ Samples(seen, e.backtested)
    /\ \E i \in SeenIn(seen, e.calibrated) : seen[i].r < 0
    /\ \E i \in SeenIn(seen, e.calibrated) : seen[i].r > 0

Observation == [context : Contexts, r : Results]

Entry == [symbol : Symbols, calibrated : Contexts \ {NoShadow},
          backtested : Contexts \ {NoShadow}]

\* A list of observations is finite, and what it has of a context.
LEMMA SeenIsFinite ==
  ASSUME NEW seen \in Seq(Observation), NEW context
  PROVE  /\ SeenIn(seen, context) \subseteq 1..Len(seen)
         /\ IsFiniteSet(SeenIn(seen, context))
         /\ Cardinality(SeenIn(seen, context)) \in Nat
  <1>1. SeenIn(seen, context) \in SUBSET (1..Len(seen)) /\ Len(seen) \in Nat
    BY LenProperties DEF SeenIn
  <1>2. IsFiniteSet(1..Len(seen))
    BY <1>1, FS_Interval
  <1> QED
    BY <1>1, <1>2, FS_Subset, FS_CardinalityType

\* One observation more bears out whatever was borne out.
LEMMA MoreBearsOut ==
  ASSUME NEW seen \in Seq(Observation), NEW o \in Observation, NEW e, BearOut(seen, e)
  PROVE  BearOut(Append(seen, o), e)
  <1> DEFINE more == Append(seen, o)
  <1>1. /\ more \in Seq(Observation) /\ Len(more) = Len(seen) + 1 /\ Len(seen) \in Nat
        /\ \A i \in 1..Len(seen) : more[i] = seen[i]
        /\ DOMAIN seen = 1..Len(seen) /\ DOMAIN more = 1..(Len(seen) + 1)
    BY AppendProperties, LenProperties
  <1> HIDE DEF more
  <1>2. ASSUME NEW context PROVE SeenIn(seen, context) \in SUBSET SeenIn(more, context)
    BY <1>1 DEF SeenIn
  <1>3. ASSUME NEW context, Samples(seen, context) PROVE Samples(more, context)
    <2>1. Cardinality(SeenIn(seen, context)) <= Cardinality(SeenIn(more, context))
      BY <1>1, <1>2, SeenIsFinite, FS_Subset
    <2> QED
      BY <1>1, <1>3, <2>1, SeenIsFinite, VerdictPolicyAssumption DEF Samples
  <1>4. \A i \in SeenIn(seen, e.calibrated) : more[i] = seen[i]
    BY <1>1 DEF SeenIn
  <1>5. BearOut(more, e)
    BY <1>2, <1>3, <1>4 DEF BearOut
  <1> QED
    BY <1>5 DEF more

\* What the calibration approves of are samples, a loss and a win among them.
LEMMA CalibrationIsBorneOut ==
  ASSUME NEW C, NEW seen \in Seq([context : C, r : Results]), NEW context,
         CalibrationApproves(Outcomes(seen, context))
  PROVE  /\ Samples(seen, context)
         /\ \E i \in SeenIn(seen, context) : seen[i].r < 0
         /\ \E i \in SeenIn(seen, context) : seen[i].r > 0
  <1>1. /\ Outcomes(seen, context) \in Seq(Int)
        /\ Len(Outcomes(seen, context)) = Cardinality(SeenIn(seen, context))
    BY OutcomesOf
  <1>2. OutcomesSeen(seen, context)
    BY OutcomesOf
  <1>3. /\ Len(Outcomes(seen, context)) >= MinimumSamples
        /\ \E n \in DOMAIN Outcomes(seen, context) : Outcomes(seen, context)[n] < 0
        /\ \E n \in DOMAIN Outcomes(seen, context) : Outcomes(seen, context)[n] > 0
    BY <1>1, CalibrationHasSeen
  <1> QED
    BY <1>1, <1>2, <1>3 DEF Samples, OutcomesSeen

\* A readiness that allows an entry rests on observations that bear it out.
LEMMA ReadyIsBorneOut ==
  ASSUME ShadowInv, NEW s \in Symbols, NEW market \in Snapshots, NEW quant \in Snapshots,
         Ready(s, market, quant)
  PROVE  LET e == [symbol |-> s, calibrated |-> Context(quant, quant),
                   backtested |-> Context(market, quant)]
         IN e \in Entry /\ BearOut(observations[s], e)
  <1> DEFINE seen == observations[s]
             calibrated == Context(quant, quant)
             backtested == Context(market, quant)
  <1>1. seen \in Seq([context : Contexts, r : Results])
    BY DEF ShadowInv
  <1>2. calibrated \in Contexts \ {NoShadow} /\ backtested \in Contexts \ {NoShadow}
    BY ContextOfAnOpening DEF Ready, Contexts
  <1>3. /\ CalibrationApproves(Outcomes(seen, calibrated))
        /\ BacktestApproves(Outcomes(seen, backtested))
    BY DEF Ready, History
  <1> HIDE DEF seen, calibrated, backtested
  <1>4. Samples(seen, backtested)
    BY <1>1, <1>3, OutcomesOf, BacktestHasSeen DEF Samples
  <1>5. /\ Samples(seen, calibrated)
        /\ \E i \in SeenIn(seen, calibrated) : seen[i].r < 0
        /\ \E i \in SeenIn(seen, calibrated) : seen[i].r > 0
    BY <1>1, <1>3, CalibrationIsBorneOut
  <1> QED
    BY <1>2, <1>4, <1>5 DEF Entry, BearOut, seen, calibrated, backtested

\* A task that has symbols left to try; what a task tries comes from a scan's
\* selection, or is asked for by hand.
ListedIn(state) ==
    state.phase \in {"readiness", "entering"} =>
        /\ state = Trying(state.phase, state.rest, state.run, state.made)
        /\ state.rest \in Seq(Symbols)
        /\ state.rest # <<>>

ListsInv == /\ shallow \subseteq Symbols
            /\ latest.candidates \in Seq(Symbols)
            /\ DOMAIN task = Tasks
            /\ \A t \in Tasks : ListedIn(task[t])

LEMMA ContinueLists ==
  ASSUME NEW rest \in Seq(Symbols), NEW run, NEW made
  PROVE  ListedIn(Continue(rest, run, made))
  <1>1. CASE rest = <<>> \/ made >= MaximumEntries
    BY <1>1 DEF Continue, ListedIn, Idle
  <1>2. CASE ~(rest = <<>> \/ made >= MaximumEntries)
    <2>1. Continue(rest, run, made) = Trying("readiness", rest, run, made)
      BY <1>2 DEF Continue
    <2> QED
      BY <1>2, <2>1 DEF Trying, ListedIn
  <1> QED
    BY <1>1, <1>2

LEMMA ReceivedLists ==
  ASSUME NEW run, run.candidates \in Seq(Symbols)
  PROVE  ListedIn(Received(run))
  <1> DEFINE free == {i \in DOMAIN run.candidates : run.candidates[i] \notin OpenSymbols}
  <1>1. Selected(run.candidates, free) \in Seq(Symbols)
    BY SelectedElements
  <1>2. Received(run) = Continue(Selected(run.candidates, free), run.id, 0)
    BY DEF Received
  <1> HIDE DEF free
  <1> QED
    BY <1>1, <1>2, ContinueLists

LEMMA OtherPhasesList ==
  /\ ListedIn(Idle)
  /\ ListedIn([phase |-> "scan"])
  /\ ListedIn([phase |-> "scanning"])
  BY DEF ListedIn, Idle

\* At most one task changes what it does.
LEMMA OneTaskLists ==
  ASSUME ListsInv, shallow' \subseteq Symbols, latest'.candidates \in Seq(Symbols),
         \/ task' = task
         \/ \E t, state : Become(t, state) /\ ListedIn(state)
  PROVE  ListsInv'
  <1>1. CASE task' = task
    BY <1>1 DEF ListsInv
  <1>2. ASSUME NEW t, NEW state, Become(t, state), ListedIn(state)
        PROVE  ListsInv'
    <2>1. DOMAIN task' = Tasks /\ \A u \in Tasks : task'[u] = task[u] \/ task'[u] = state
      BY <1>2 DEF Become, ListsInv
    <2>2. \A u \in Tasks : ListedIn(task'[u])
      BY <1>2, <2>1 DEF ListsInv
    <2> QED
      BY <2>1, <2>2 DEF ListsInv
  <1> QED
    BY <1>1, <1>2

LEMMA TrialsKeepLists ==
  ASSUME ListsInv, NEW t \in Tasks,
         \/ \E s \in Symbols : StartEntry(t, s)
         \/ \E market, quant \in Snapshots :
               ReadinessAllows(t, market, quant) \/ EntryOpens(t, market, quant)
         \/ CandidateRefused(t) \/ EntryRejected(t) \/ EntryFails(t)
  PROVE  ListsInv'
  <1>1. UNCHANGED <<shallow, latest>>
    BY DEF StartEntry, ReadinessAllows, EntryOpens, CandidateRefused, EntryRejected,
           EntryFails, scannerVars
  <1>2. shallow' \subseteq Symbols /\ latest'.candidates \in Seq(Symbols)
    BY <1>1 DEF ListsInv
  <1>3. ASSUME NEW s \in Symbols, StartEntry(t, s)
        PROVE  ListsInv'
    <2> DEFINE work == [Trying("entering", <<s>>, 0, 0) EXCEPT !.phase = "entering"]
    <2>1. work = Trying("entering", <<s>>, 0, 0)
      BY DEF Trying
    <2>2. <<s>> \in Seq(Symbols) /\ <<s>> # <<>>
      OBVIOUS
    <2>3. ListedIn(work)
      BY <2>1, <2>2 DEF ListedIn, Trying
    <2>4. Become(t, work)
      BY <1>3 DEF StartEntry, Enter
    <2> HIDE DEF work
    <2> QED
      BY <1>2, <2>3, <2>4, OneTaskLists
  <1>4. ASSUME NEW market \in Snapshots, NEW quant \in Snapshots,
               ReadinessAllows(t, market, quant)
        PROVE  ListsInv'
    <2> DEFINE work == [task[t] EXCEPT !.phase = "entering"]
    <2>1. Become(t, work) /\ task[t].phase = "readiness"
      BY <1>4 DEF ReadinessAllows, Enter, Doing
    <2>2. /\ task[t] = Trying(task[t].phase, task[t].rest, task[t].run, task[t].made)
          /\ task[t].rest \in Seq(Symbols) /\ task[t].rest # <<>>
      BY <2>1 DEF ListsInv, ListedIn
    <2>3. work = Trying("entering", task[t].rest, task[t].run, task[t].made)
      BY <2>2 DEF Trying
    <2>4. ListedIn(work)
      BY <2>2, <2>3 DEF ListedIn, Trying
    <2> HIDE DEF work
    <2> QED
      BY <1>2, <2>1, <2>4, OneTaskLists
  <1>5. ASSUME NEW made, task[t].phase \in {"readiness", "entering"}, NextCandidate(t, made)
        PROVE  ListsInv'
    <2>1. task[t].rest \in Seq(Symbols) /\ task[t].rest # <<>>
      BY <1>5 DEF ListsInv, ListedIn
    <2>2. Tail(task[t].rest) \in Seq(Symbols)
      BY <2>1
    <2> QED
      BY <1>2, <1>5, <2>2, ContinueLists, OneTaskLists DEF NextCandidate
  <1>6. \/ \E s \in Symbols : StartEntry(t, s)
        \/ \E market, quant \in Snapshots : ReadinessAllows(t, market, quant)
        \/ task[t].phase \in {"readiness", "entering"} /\ \E made \in {0, 1} : NextCandidate(t, made)
    BY DEF EntryOpens, CandidateRefused, EntryRejected, EntryFails, Doing
  <1> QED
    BY <1>3, <1>4, <1>5, <1>6

LEMMA ScansKeepLists ==
  ASSUME ListsInv,
         \/ \E t \in Tasks : StartScan(t) \/ StartCycle(t)
         \/ ScanFails
         \/ \E S \in SUBSET Symbols : UniverseAnswers(S)
         \/ \E ranking \in Rankings(shallow), stored \in BOOLEAN : ScanEnds(ranking, stored)
  PROVE  ListsInv'
  <1>1. ASSUME NEW t \in Tasks, StartScan(t) \/ StartCycle(t)
        PROVE  ListsInv'
    <2>1. UNCHANGED <<shallow, latest>>
      BY <1>1 DEF StartScan, StartCycle, BeginScan, scannerVars
    <2>2. \E state : Become(t, state) /\ ListedIn(state)
      <3>1. ListedIn(Received(latest))
        BY ReceivedLists DEF ListsInv
      <3> QED
        BY <1>1, <3>1, OtherPhasesList DEF StartScan, StartCycle
    <2> QED
      BY <2>1, <2>2, OneTaskLists DEF ListsInv
  <1>2. ASSUME ScanFails
        PROVE  ListsInv'
    BY <1>2, OtherPhasesList, OneTaskLists DEF ScanFails, UniverseFails, ListsInv
  <1>3. ASSUME NEW S \in SUBSET Symbols, UniverseAnswers(S)
        PROVE  ListsInv'
    <2>1. /\ shallow' = S /\ latest' = latest
          /\ task' = task \/ Become(scan.by, Idle)
      BY <1>3 DEF UniverseAnswers, SelectShallow
    <2> QED
      BY <2>1, OtherPhasesList, OneTaskLists DEF ListsInv
  <1>4. ASSUME NEW ranking \in Rankings(shallow), NEW stored \in BOOLEAN,
               ScanEnds(ranking, stored)
        PROVE  ListsInv'
    <2>1. ranking \in Seq(Symbols)
      <3>1. PICK m \in 0..Cardinality(shallow) : ranking \in [1..m -> shallow]
        BY DEF Rankings, BoundedSeq, SeqOf
      <3>2. m \in Nat
        BY <3>1
      <3>3. ranking \in [1..m -> Symbols]
        BY <3>1 DEF ListsInv
      <3> QED
        BY <3>2, <3>3
    <2>2. /\ shallow' = shallow
          /\ \/ latest' = latest
             \/ latest' = [id |-> Len(runs) + 1, candidates |-> ranking]
          /\ \/ Become(scan.by, Idle)
             \/ Become(scan.by, Received(latest'))
      BY <1>4 DEF ScanEnds, AssessmentsEnd, StoreRun
    <2>3. latest'.candidates \in Seq(Symbols)
      BY <2>1, <2>2 DEF ListsInv
    <2>4. ListedIn(Received(latest'))
      BY <2>3, ReceivedLists
    <2> QED
      BY <2>2, <2>3, <2>4, OtherPhasesList, OneTaskLists DEF ListsInv
  <1> QED
    BY <1>1, <1>2, <1>3, <1>4

LEMMA ListsStep == ListsInv /\ [Next]_vars => ListsInv'
  <1> SUFFICES ASSUME ListsInv, [Next]_vars PROVE ListsInv'
    OBVIOUS
  <1>1. ASSUME Crash PROVE ListsInv'
    <2>1. shallow' = {} /\ latest' = NoRun /\ task' = [t \in Tasks |-> Idle]
      BY <1>1 DEF Crash, ScannerDies
    <2> QED
      BY <2>1, OtherPhasesList, EmptySeq DEF ListsInv, NoRun
  <1>2. ASSUME \/ ReservationExpires \/ AutoManage \/ StartShadow
               \/ \E s \in Symbols : CloseByHand(s) \/ ShadowVisit(s)
               \/ UNCHANGED vars
        PROVE  ListsInv'
    <2>1. UNCHANGED <<shallow, latest, task>>
      BY <1>2 DEF ReservationExpires, AutoManage, StartManaging, ManagingEnds, StartShadow,
                  CloseByHand, ShadowVisit, vars, scannerVars, cycleVars
    <2> QED
      BY <2>1, OneTaskLists DEF ListsInv
  <1> QED
    BY <1>1, <1>2, TrialsKeepLists, ScansKeepLists DEF Next

LEMMA ListsInvariant == Spec => []ListsInv
  <1>1. Init => ListsInv
    BY OtherPhasesList, EmptySeq DEF Init, ScannerInit, NoRun, ListsInv
  <1> QED
    BY <1>1, ListsStep, PTL DEF Spec

\* Every entry rests on observations that were there before it, and still are.
EntriesInv == /\ entered \in Seq(Entry)
              /\ \A i \in DOMAIN entered :
                    BearOut(observations[entered[i].symbol], entered[i])

LEMMA EntriesKept ==
  EntriesInv /\ UNCHANGED <<entered, observations>> => EntriesInv'
  BY DEF EntriesInv, BearOut, Samples, SeenIn

\* Only an entry adds to the entries, only a closing shadow to the observations.
LEMMA WhatEntersAndObserves ==
  ASSUME Next
  PROVE  \/ UNCHANGED <<entered, observations>>
         \/ \E t \in Tasks, market \in Snapshots, quant \in Snapshots : EntryOpens(t, market, quant)
         \/ \E s \in Symbols, r \in Results : VisitCloses(s, r) /\ UNCHANGED entered
  BY DEF Next, StartScan, StartCycle, StartEntry, ReadinessAllows,
         CandidateRefused, EntryRejected, EntryFails, ScanFails, UniverseAnswers, ScanEnds,
         ReservationExpires, AutoManage, StartManaging, ManagingEnds, CloseByHand,
         StartShadow, ShadowCycleBegins, ShadowVisit, VisitChangesNothing, VisitOpens, Crash,
         ShadowDies, shadowVars, cycleVars

LEMMA OpeningKeepsEntriesInv ==
  ASSUME EntriesInv, ShadowInv, ListsInv, NEW t \in Tasks,
         NEW market \in Snapshots, NEW quant \in Snapshots, EntryOpens(t, market, quant)
  PROVE  EntriesInv'
  <1> DEFINE s == Head(task[t].rest)
             e == [symbol |-> s, calibrated |-> Context(quant, quant),
                   backtested |-> Context(market, quant)]
  <1>1. task[t].rest \in Seq(Symbols) /\ task[t].rest # <<>>
    BY DEF EntryOpens, Doing, ListsInv, ListedIn
  <1>2. s \in Symbols
    BY <1>1, HeadTailProperties
  <1>3. Ready(s, market, quant) /\ entered' = Append(entered, e)
    BY DEF EntryOpens
  <1>4. observations' = observations
    BY DEF EntryOpens, shadowVars
  <1>5. e.symbol = s
    OBVIOUS
  <1> HIDE DEF s
  <1>6. e \in Entry /\ BearOut(observations[s], e)
    BY <1>2, <1>3, ReadyIsBorneOut
  <1> HIDE DEF e
  <1>7. /\ entered' \in Seq(Entry)
        /\ Len(entered') = Len(entered) + 1
        /\ \A i \in 1..Len(entered) : entered'[i] = entered[i]
        /\ entered'[Len(entered) + 1] = e
    BY <1>3, <1>6, AppendProperties DEF EntriesInv
  <1>8. /\ DOMAIN entered = 1..Len(entered) /\ Len(entered) \in Nat
        /\ DOMAIN entered' = 1..(Len(entered) + 1)
    BY <1>7, LenProperties DEF EntriesInv
  <1>9. ASSUME NEW i \in DOMAIN entered'
        PROVE  BearOut(observations[entered'[i].symbol], entered'[i])
    <2>1. CASE i \in DOMAIN entered
      BY <1>7, <1>8, <2>1 DEF EntriesInv
    <2>2. CASE i \notin DOMAIN entered
      <3>1. i = Len(entered) + 1
        BY <1>8, <2>2
      <3> QED
        BY <1>5, <1>6, <1>7, <3>1
    <2> QED
      BY <2>1, <2>2
  <1>10. ASSUME NEW i \in DOMAIN entered'
         PROVE  BearOut(observations'[entered'[i].symbol], entered'[i])
    BY <1>4, <1>9
  <1> QED
    BY <1>7, <1>10 DEF EntriesInv, BearOut, Samples, SeenIn

LEMMA ClosingKeepsEntriesInv ==
  ASSUME EntriesInv, ShadowInv, NEW s \in Symbols, NEW r \in Results,
         VisitCloses(s, r), UNCHANGED entered
  PROVE  EntriesInv'
  <1> DEFINE o == [context |-> shadow[s], r |-> r]
  <1>1. o \in Observation
    BY DEF ShadowInv, Observation
  <1>2. observations' = [observations EXCEPT ![s] = Append(@, o)]
    BY DEF VisitCloses, Complete, Observe
  <1> HIDE DEF o
  <1>3. \A u \in Symbols : observations[u] \in Seq(Observation)
    BY DEF ShadowInv, Observation
  <1>4. \A u \in Symbols : observations'[u] = IF u = s THEN Append(observations[s], o)
                                              ELSE observations[u]
    BY <1>2 DEF ShadowInv
  <1>5. ASSUME NEW i \in DOMAIN entered
        PROVE  BearOut(observations'[entered[i].symbol], entered[i])
    <2>1. entered[i] \in Entry
      BY ElementOfSeq, LenProperties DEF EntriesInv
    <2>2. entered[i].symbol \in Symbols
      BY <2>1 DEF Entry
    <2>3. BearOut(observations[entered[i].symbol], entered[i])
      BY DEF EntriesInv
    <2>4. CASE entered[i].symbol = s
      <3>1. observations[s] \in Seq(Observation) /\ BearOut(observations[s], entered[i])
        BY <1>3, <2>3, <2>4
      <3>2. BearOut(Append(observations[s], o), entered[i])
        BY <1>1, <3>1, MoreBearsOut
      <3> QED
        BY <1>4, <2>4, <3>2
    <2>5. CASE entered[i].symbol # s
      BY <1>4, <2>2, <2>3, <2>5
    <2> QED
      BY <2>4, <2>5
  <1> QED
    BY <1>5 DEF EntriesInv, BearOut, Samples, SeenIn

LEMMA EntriesInvariant == Spec => []EntriesInv
  <1>1. Init => EntriesInv
    BY EmptySeq DEF Init, EntriesInv
  <1>2. EntriesInv /\ ShadowInv /\ ListsInv /\ [Next]_vars => EntriesInv'
    <2> SUFFICES ASSUME EntriesInv, ShadowInv, ListsInv, [Next]_vars
                 PROVE  EntriesInv'
      OBVIOUS
    <2>1. CASE UNCHANGED vars
      BY <2>1, EntriesKept DEF vars, shadowVars, cycleVars
    <2>2. CASE Next
      BY <2>2, EntriesKept, WhatEntersAndObserves, OpeningKeepsEntriesInv,
         ClosingKeepsEntriesInv
    <2> QED
      BY <2>1, <2>2
  <1> QED
    BY <1>1, <1>2, ShadowInvariant, ListsInvariant, PTL DEF Spec

OpenedIn(list, context) == {i \in DOMAIN list : list[i] = context}

\* Each observation of a context is of a shadow position opened in it before;
\* one that is still open has been opened as well.
LEMMA ObservedWereOpened ==
  ASSUME NEW C, NEW seen \in Seq([context : C, r : Results]), NEW now \in C,
         NEW context, context # NoShadow, NEW list,
         list = [i \in DOMAIN seen |-> seen[i].context]
                   \o (IF now # NoShadow THEN <<now>> ELSE <<>>)
  PROVE  Cardinality(OpenedIn(list, context)) - (IF now = context THEN 1 ELSE 0)
            >= Cardinality(SeenIn(seen, context))
  <1> DEFINE before == [i \in DOMAIN seen |-> seen[i].context]
             rest == IF now # NoShadow THEN <<now>> ELSE <<>>
             opened == OpenedIn(list, context)
             last == Len(seen) + 1
  <1>1. /\ before \in Seq(C) /\ Len(before) = Len(seen) /\ Len(seen) \in Nat
        /\ DOMAIN seen = 1..Len(seen)
        /\ \A i \in 1..Len(seen) : before[i] = seen[i].context
    BY ObservedIsASeq, LenProperties
  <1>2. rest \in Seq(C) /\ list = before \o rest
    OBVIOUS
  <1>3. rest = <<now>> \/ now = NoShadow
    OBVIOUS
  <1> HIDE DEF before, rest
  <1>4. /\ before \o rest \in Seq(C) /\ Len(before \o rest) = Len(before) + Len(rest)
        /\ \A i \in 1..(Len(before) + Len(rest)) :
              (before \o rest)[i] = IF i <= Len(before) THEN before[i] ELSE rest[i - Len(before)]
    BY <1>1, <1>2, ConcatProperties
  <1>5. /\ list \in Seq(C) /\ Len(list) = Len(seen) + Len(rest)
        /\ \A i \in 1..(Len(seen) + Len(rest)) :
              list[i] = IF i <= Len(seen) THEN before[i] ELSE rest[i - Len(seen)]
    BY <1>1, <1>2, <1>4
  <1>6. DOMAIN list = 1..Len(list) /\ Len(list) \in Nat /\ Len(rest) \in Nat
    BY <1>2, <1>5, LenProperties
  <1>7. opened \in SUBSET (1..Len(list)) /\ IsFiniteSet(1..Len(list))
    <2>1. OpenedIn(list, context) \in SUBSET DOMAIN list
      BY DEF OpenedIn
    <2>2. 1 \in Int /\ Len(list) \in Int
      BY <1>6
    <2>3. IsFiniteSet(1..Len(list))
      BY <2>2, FS_Interval
    <2>4. opened \in SUBSET (1..Len(list))
      BY <1>6, <2>1
    <2> QED
      BY <2>3, <2>4
  <1>8. IsFiniteSet(opened) /\ Cardinality(opened) \in Nat
    BY <1>7, FS_Subset, FS_CardinalityType
  <1>9. SeenIn(seen, context) \in SUBSET (1..Len(seen))
    BY <1>1 DEF SeenIn
  <1>10. SeenIn(seen, context) \in SUBSET opened
    BY <1>1, <1>5, <1>6 DEF SeenIn, OpenedIn
  <1>11. /\ IsFiniteSet(SeenIn(seen, context)) /\ Cardinality(SeenIn(seen, context)) \in Nat
         /\ Cardinality(SeenIn(seen, context)) <= Cardinality(opened)
    BY <1>8, <1>10, FS_Subset, FS_CardinalityType
  <1> HIDE DEF opened
  <1>12. CASE now # context
    BY <1>8, <1>11, <1>12 DEF opened
  <1>13. CASE now = context
    <2>1. rest = <<now>>
      BY <1>3, <1>13
    <2>2. last \in opened
      BY <1>1, <1>5, <1>6, <1>13, <2>1 DEF opened, OpenedIn
    <2>3. last \notin SeenIn(seen, context)
      BY <1>1, <1>9
    <2> HIDE DEF last
    <2>4. (SeenIn(seen, context) \cup {last}) \in SUBSET opened
      BY <1>10, <2>2
    <2>5. Cardinality(SeenIn(seen, context) \cup {last}) = Cardinality(SeenIn(seen, context)) + 1
      BY <1>11, <2>3, FS_AddElement
    <2>6. Cardinality(SeenIn(seen, context) \cup {last}) <= Cardinality(opened)
      BY <1>8, <2>4, FS_Subset
    <2>7. Cardinality(opened) - 1 >= Cardinality(SeenIn(seen, context))
      BY <1>8, <1>11, <2>5, <2>6
    <2> QED
      BY <1>13, <2>7 DEF opened
  <1> QED
    BY <1>12, <1>13

\* What bears an entry out was opened, has ended, and was a loss and a win.
LEMMA BorneOutIsEarned == ShadowInv /\ EntriesInv => EntryIsEarned
  <1> SUFFICES ASSUME ShadowInv, EntriesInv, NEW n \in DOMAIN entered
               PROVE  LET e == entered[n]
                          known == {o \in Range(observations[e.symbol]) :
                                       o.context = e.calibrated}
                      IN /\ \A context \in {e.calibrated, e.backtested} :
                               LET opened == {i \in DOMAIN shadowed[e.symbol] :
                                                 shadowed[e.symbol][i] = context}
                               IN Cardinality(opened)
                                     - (IF shadow[e.symbol] = context THEN 1 ELSE 0)
                                        >= MinimumSamples
                         /\ \E o \in known : o.r < 0
                         /\ \E o \in known : o.r > 0
    BY DEF EntryIsEarned, Range
  <1> DEFINE e == entered[n]
             s == e.symbol
             seen == observations[s]
  <1>1. e \in Entry
    BY ElementOfSeq, LenProperties DEF EntriesInv
  <1>2. s \in Symbols /\ e.calibrated # NoShadow /\ e.backtested # NoShadow
    BY <1>1 DEF Entry
  <1>3. BearOut(seen, e)
    BY DEF EntriesInv
  <1> HIDE DEF e
  <1>4. seen \in Seq([context : Contexts, r : Results]) /\ shadow[s] \in Contexts
    BY <1>2 DEF ShadowInv
  <1>5. shadowed[s] = [i \in DOMAIN seen |-> seen[i].context]
                         \o (IF shadow[s] # NoShadow THEN <<shadow[s]>> ELSE <<>>)
    BY <1>2 DEF ShadowInv, ObservationsAreCausal, HasShadow
  <1> HIDE DEF s, seen
  <1>6. ASSUME NEW context \in {e.calibrated, e.backtested}
        PROVE  Cardinality({i \in DOMAIN shadowed[s] : shadowed[s][i] = context})
                  - (IF shadow[s] = context THEN 1 ELSE 0) >= MinimumSamples
    <2> DEFINE more == Cardinality(OpenedIn(shadowed[s], context))
                          - (IF shadow[s] = context THEN 1 ELSE 0)
    <2>1. context # NoShadow
      BY <1>2
    <2>2. more >= Cardinality(SeenIn(seen, context))
      BY <1>4, <1>5, <2>1, ObservedWereOpened
    <2>3. Cardinality(SeenIn(seen, context)) >= MinimumSamples
      BY <1>3 DEF BearOut, Samples
    <2>4. Cardinality(SeenIn(seen, context)) \in Nat /\ MinimumSamples \in Nat
      BY <1>4, SeenIsFinite, VerdictPolicyAssumption DEF Observation
    <2>5. more \in Int
      <3>1. shadowed[s] \in Seq(Contexts)
        BY <1>2 DEF ShadowInv
      <3>2. DOMAIN shadowed[s] = 1..Len(shadowed[s]) /\ Len(shadowed[s]) \in Nat
        BY <3>1, LenProperties
      <3>3. OpenedIn(shadowed[s], context) \in SUBSET (1..Len(shadowed[s]))
        BY <3>2 DEF OpenedIn
      <3>4. IsFiniteSet(1..Len(shadowed[s]))
        BY <3>2, FS_Interval
      <3>5. Cardinality(OpenedIn(shadowed[s], context)) \in Nat
        BY <3>3, <3>4, FS_Subset, FS_CardinalityType
      <3> QED
        BY <3>5
    <2> HIDE DEF more
    <2>6. more >= MinimumSamples
      BY <2>2, <2>3, <2>4, <2>5
    <2> QED
      BY <2>6 DEF more, OpenedIn
  <1>7. \A i \in SeenIn(seen, e.calibrated) :
           seen[i] \in {o \in Range(seen) : o.context = e.calibrated}
    BY DEF SeenIn, Range
  <1>8. /\ \E o \in {x \in Range(seen) : x.context = e.calibrated} : o.r < 0
        /\ \E o \in {x \in Range(seen) : x.context = e.calibrated} : o.r > 0
    BY <1>3, <1>7 DEF BearOut
  <1> QED
    BY <1>6, <1>8 DEF e, s, seen

\* An entry rests on evidence of its own symbol: before it opened, as many shadow
\* positions as the policy wants had run their course in the context of the
\* backtest, and in that of the calibration, where some lost and some won
\* (kernel.py lines 1420-1471).
THEOREM EntriesAreEarned == Spec => []EntryIsEarned
  <1> QED
    BY ShadowInvariant, EntriesInvariant, BorneOutIsEarned, PTL

=============================================================================
