----------------------------- MODULE PaperCycle -----------------------------
(***************************************************************************)
(* The autonomous PAPER loop: scans, the cycles of nexor_x/autopaper that  *)
(* try the candidates of a scan, entries asked for by hand, the cycle of   *)
(* nexor_x/automanage that closes positions, and the causal shadow, whose  *)
(* observations are the only evidence an entry can rest on.                *)
(*                                                                         *)
(* A task is a run of a scheduled job or a request.  It is suspended while *)
(* a scan, a readiness or an entry waits for the market; the database does *)
(* not suspend, nor does publish() here.  What the market shows is left to *)
(* chance, anew for each question: a readiness asks twice, and the cache   *)
(* may expire or fail in between.  The budget that is left and the verdict *)
(* of the admission (EntryAdmission's subject) may refuse whatever is      *)
(* asked; the reservation is here, as it expires under the entry holding   *)
(* it.                                                                     *)
(***************************************************************************)
EXTENDS ContextVerdict, CausalShadow

CONSTANTS
    Tasks,
    MaxOpenPositions,  \* of PreTradeGate
    MaximumEntries,    \* maximum_entries_per_cycle
    MaxPositions,      \* bound: PAPER positions ever opened
    MayCrash           \* the process may die, at any time and any number of times

ASSUME CycleAssumption == /\ {MaxOpenPositions, MaximumEntries} \subseteq Nat \ {0}
                          /\ MayCrash \in BOOLEAN

VARIABLES
    task,     \* what each task is doing
    holder,   \* who holds the entry reservation
    open,     \* open PAPER positions of a symbol
    entered,  \* history: the PAPER positions ever opened, and what they rest on
    managing  \* the symbols the manager fetches prices for

cycleVars == <<task, holder, open, entered, managing>>

vars == <<scannerVars, shadowVars, cycleVars>>

NotManaging == {"none"}

Idle == [phase |-> "idle"]

\* A task with symbols left to try: those, the run they come from (0 for an
\* entry asked for by hand) and the entries made so far.
Trying(phase, rest, run, made) ==
    [phase |-> phase, rest |-> rest, run |-> run, made |-> made]

Doing(t, phase) == task[t].phase = phase

OpenSymbols == {s \in Symbols : open[s] > 0}

----------------------------------------------------------------------------
Init == /\ ScannerInit
        /\ ShadowInit
        /\ task = [t \in Tasks |-> Idle]
        /\ holder = "nobody"
        /\ open = [s \in Symbols |-> 0]
        /\ entered = <<>>
        /\ managing = NotManaging

Become(t, state) == task' = [task EXCEPT ![t] = state]

\* Go on with the symbols in rest, unless the cycle has made its entries.
Continue(rest, run, made) ==
    IF rest = <<>> \/ made >= MaximumEntries THEN Idle ELSE Trying("readiness", rest, run, made)

\* The elements of q at the positions in at, in their order.
Selected(q, at) ==
    [n \in 1..Cardinality(at) |-> q[CHOOSE i \in at : Cardinality({j \in at : j <= i}) = n]]

\* A cycle gets its run: the portfolio is read once, and candidates it shows
\* as open are skipped.
Received(run) ==
    LET free == {i \in DOMAIN run.candidates : run.candidates[i] \notin OpenSymbols}
    IN Continue(Selected(run.candidates, free), run.id, 0)

----------------------------------------------------------------------------
(* Scans and cycles. *)

\* POST /api/scanner/run and the scanner's job; a busy scanner changes nothing.
StartScan(t) == /\ Doing(t, "idle")
                /\ BeginScan(t)
                /\ Become(t, [phase |-> "scan"])
                /\ UNCHANGED <<shadowVars, holder, open, entered, managing>>

\* auto_paper_run(): scans, or takes the latest run of the busy scanner.
\* (Without one the cycle ends with an error.)
StartCycle(t) ==
    /\ Doing(t, "idle")
    /\ \/ BeginScan(t) /\ Become(t, [phase |-> "scanning"])
       \/ /\ Busy /\ latest # NoRun
          /\ Become(t, Received(latest))
          /\ UNCHANGED scannerVars
    /\ UNCHANGED <<shadowVars, holder, open, entered, managing>>

ScanFails == /\ UniverseFails
             /\ Become(scan.by, Idle)
             /\ UNCHANGED <<shadowVars, holder, open, entered, managing>>

UniverseAnswers(S) ==
    /\ SelectShallow(S)
    /\ IF S = {} THEN Become(scan.by, Idle) ELSE UNCHANGED task
    /\ UNCHANGED <<shadowVars, holder, open, entered, managing>>

ScanEnds(ranking, stored) ==
    /\ AssessmentsEnd(ranking, stored)
    /\ Become(scan.by, IF stored /\ Doing(scan.by, "scanning") THEN Received(latest') ELSE Idle)
    /\ UNCHANGED <<shadowVars, holder, open, entered, managing>>

----------------------------------------------------------------------------
(* Readiness and entry. *)

\* The results of the observations in seen that were made in context.
Outcomes(seen, context) ==
    LET matching == {i \in DOMAIN seen : seen[i].context = context}
    IN Selected([i \in DOMAIN seen |-> seen[i].r], matching)

\* Faulty variant: the observations of all symbols together.
HistoryOfAll(s, context) ==
    Outcomes(FlattenSeq(SetToSeq({observations[u] : u \in Symbols})), context)

\* What laboratory.estimate() and the contextual backtest select.
History(s, context) == Outcomes(observations[s], context)

CapacityAvailable == Cardinality(OpenSymbols) < MaxOpenPositions

\* trading_readiness(s).allowed, when the market has answered its two questions,
\* but for equity, drawdown and open risk, which may always refuse.  The
\* calibration is for the regime of the second answer, the backtest for that of
\* the first.
Ready(s, market, quant) ==
    /\ MarketState[market].fresh
    /\ Directional(quant)
    /\ CapacityAvailable
    /\ CalibrationApproves(History(s, Context(quant, quant)))
    /\ BacktestApproves(History(s, Context(market, quant)))

\* paper_open() up to its suspension: reserve() and the admission have passed.
Enter(t, work) == /\ holder = "nobody"
                  /\ Become(t, [work EXCEPT !.phase = "entering"])
                  /\ holder' = t

\* POST /api/paper/open.  (A refused request changes nothing.)
StartEntry(t, s) ==
    /\ Doing(t, "idle")
    /\ Enter(t, Trying("entering", <<s>>, 0, 0))
    /\ UNCHANGED <<scannerVars, shadowVars, open, entered, managing>>

\* The readiness of the candidate arrives, and the entry begins.
ReadinessAllows(t, market, quant) ==
    /\ Doing(t, "readiness")
    /\ Ready(Head(task[t].rest), market, quant)
    /\ Enter(t, task[t])
    /\ UNCHANGED <<scannerVars, shadowVars, open, entered, managing>>

\* The cycle goes on with the next symbol.
NextCandidate(t, made) ==
    Become(t, Continue(Tail(task[t].rest), task[t].run, task[t].made + made))

\* It refuses, or raises, or reserve() or the admission does.
CandidateRefused(t) ==
    /\ Doing(t, "readiness")
    /\ NextCandidate(t, 0)
    /\ UNCHANGED <<scannerVars, shadowVars, holder, open, entered, managing>>

\* confirm() and release(): only one's own reservation, if it is still there.
Settle(t) == holder' = IF holder = t THEN "nobody" ELSE holder

\* Faulty variant: open_from_readiness() does not look for duplicates.
NoDuplicateCheck(s) == TRUE

SymbolIsFree(s) == open[s] = 0

\* The market has answered: the gate decides again, now, and the position is
\* inserted.
EntryOpens(t, market, quant) ==
    LET s == Head(task[t].rest) IN
    /\ Doing(t, "entering")
    /\ Ready(s, market, quant)
    /\ SymbolIsFree(s)
    /\ Len(entered) < MaxPositions
    /\ open' = [open EXCEPT ![s] = @ + 1]
    /\ entered' = Append(entered, [symbol     |-> s,
                                  calibrated |-> Context(quant, quant),
                                  backtested |-> Context(market, quant)])
    /\ Settle(t)
    /\ NextCandidate(t, 1)
    /\ UNCHANGED <<scannerVars, shadowVars, managing>>

\* The gate refuses this time, the price is stale or the symbol is taken: a fill
\* that is REJECTED, not an exception.  The cycle counts it as an entry made.
EntryRejected(t) ==
    /\ Doing(t, "entering")
    /\ Settle(t)
    /\ NextCandidate(t, 1)
    /\ UNCHANGED <<scannerVars, shadowVars, open, entered, managing>>

EntryFails(t) ==
    /\ Doing(t, "entering")
    /\ Settle(t)
    /\ NextCandidate(t, 0)
    /\ UNCHANGED <<scannerVars, shadowVars, open, entered, managing>>

\* The TTL passes, whatever became of the entry.
ReservationExpires == /\ holder # "nobody"
                      /\ holder' = "nobody"
                      /\ UNCHANGED <<scannerVars, shadowVars, task, open, entered, managing>>

----------------------------------------------------------------------------
(* Closing. *)

\* manage_all_positions() up to its first await, and evaluate_all() with the
\* prices that came: positions opened meanwhile are managed too, if their
\* symbol has a price.
StartManaging == /\ managing = NotManaging
                 /\ OpenSymbols # {}
                 /\ managing' = OpenSymbols
                 /\ UNCHANGED <<scannerVars, shadowVars, task, holder, open, entered>>

Evaluated == managing \cap OpenSymbols

ManagingEnds(closed) ==
    /\ managing # NotManaging
    /\ closed \subseteq Evaluated
    /\ open' = [s \in Symbols |-> IF s \in closed THEN 0 ELSE open[s]]
    /\ managing' = NotManaging
    /\ UNCHANGED <<scannerVars, shadowVars, task, holder, entered>>

\* The cycle of nexor_x/automanage.
AutoManage == StartManaging \/ \E closed \in SUBSET Symbols : ManagingEnds(closed)

\* POST /api/paper/close, and /api/positions/{id}/manage when it closes.
CloseByHand(s) ==
    /\ s \in OpenSymbols
    /\ open' = [open EXCEPT ![s] = @ - 1]
    /\ UNCHANGED <<scannerVars, shadowVars, task, holder, entered, managing>>

----------------------------------------------------------------------------
(* The shadow. *)

StartShadow == /\ ShadowCycleBegins
               /\ UNCHANGED <<scannerVars, cycleVars>>

ShadowVisit(s) == /\ \/ VisitChangesNothing(s)
                     \/ \E market, quant \in Snapshots : VisitOpens(s, market, quant)
                     \/ \E r \in Results : VisitCloses(s, r)
                  /\ UNCHANGED <<scannerVars, cycleVars>>

\* The process dies; the tables and the reservation file remain.
Crash == /\ MayCrash
         /\ ScannerDies
         /\ ShadowDies
         /\ task' = [t \in Tasks |-> Idle]
         /\ holder' = IF holder = "nobody" THEN holder ELSE "dead"
         /\ managing' = NotManaging
         /\ UNCHANGED <<open, entered>>

----------------------------------------------------------------------------
Next ==
    \/ \E t \in Tasks :
          \/ StartScan(t)
          \/ StartCycle(t)
          \/ \E s \in Symbols : StartEntry(t, s)
          \/ \E market, quant \in Snapshots :
                ReadinessAllows(t, market, quant) \/ EntryOpens(t, market, quant)
          \/ CandidateRefused(t) \/ EntryRejected(t) \/ EntryFails(t)
    \/ ScanFails
    \/ \E S \in SUBSET Symbols : UniverseAnswers(S)
    \/ scan.phase = "assessing" /\
          \E ranking \in Rankings(shallow), stored \in BOOLEAN : ScanEnds(ranking, stored)
    \/ ReservationExpires
    \/ AutoManage
    \/ StartShadow
    \/ \E s \in Symbols : CloseByHand(s) \/ ShadowVisit(s)
    \/ Crash

Spec == Init /\ [][Next]_vars

\* The shadow's job keeps running and the network answers in the end; the market
\* of a symbol visited again and again is not stale for ever, so that one of the
\* visits comes after the holding limit and closes the position.
FairSpec ==
    /\ Spec
    /\ WF_vars(StartShadow)
    /\ WF_vars(ScanFails \/ \E S \in SUBSET Symbols : UniverseAnswers(S))
    /\ \A s \in Symbols :
          /\ WF_vars(ShadowVisit(s))
          /\ SF_vars(ShadowVisit(s) /\ HasShadow(s) /\ ~HasShadow(s)')

----------------------------------------------------------------------------
\* Two entries can be in flight for one symbol once a reservation has expired
\* under its holder, and a cycle's picture of the open positions is as old as
\* its run; the account still never has two positions of a symbol
\* (execution/service.py lines 90-96).
OnePositionPerSymbol == \A s \in Symbols : open[s] <= 1

\* docs/AUDIT_UPDATE_34.md, 75.md: an entry rests on evidence of its own symbol,
\* direction and regime.  Before anything is opened, as many shadow positions as
\* the policy wants have been opened in the context of the backtest, and in that
\* of the calibration, and have run their course; the latter have been seen to
\* lose and to win (kernel.py lines 1420-1471).
EntryIsEarned ==
    \A e \in Range(entered) :
        /\ \A context \in {e.calibrated, e.backtested} :
              LET opened == {i \in DOMAIN shadowed[e.symbol] : shadowed[e.symbol][i] = context}
              IN Cardinality(opened) - (IF shadow[e.symbol] = context THEN 1 ELSE 0) >= MinimumSamples
        /\ LET known == {o \in Range(observations[e.symbol]) : o.context = e.calibrated}
           IN (\E o \in known : o.r < 0) /\ (\E o \in known : o.r > 0)

\* Whoever trades on a run trades on one whose rows are all in the database,
\* though it may have been handed over while the next one was failing
\* (scanner/service.py lines 62-126).
HandedRunIsStored ==
    \A t \in Tasks : Doing(t, "readiness") /\ task[t].run > 0 => runs[task[t].run]

----------------------------------------------------------------------------
(***************************************************************************)
(* What the repository's documents say, and the code does not do.          *)
(***************************************************************************)

\* docs/AUDIT_UPDATE_74.md: shadow positions end after at most 48 hours.
ShadowEnds == \A s \in Symbols : HasShadow(s) ~> ~HasShadow(s)
=============================================================================
