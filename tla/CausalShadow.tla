---------------------------- MODULE CausalShadow ----------------------------
(***************************************************************************)
(* nexor_x/shadow/service.py: at most one imaginary position a symbol.     *)
(* Only a completed one becomes an observation, in the transaction that    *)
(* deletes it.  Only the scheduler starts a cycle, so there is one at a    *)
(* time; it visits the symbols of its list, each visit suspended for the   *)
(* market and committed at once.                                           *)
(*                                                                         *)
(* A visit that opens a position asks for the market twice: whether it is  *)
(* fresh and its regime come from the first snapshot, the direction from   *)
(* the second.  The edge itself is part of neither (see Context).          *)
(*                                                                         *)
(* What the price did is left to chance: a position goes on or ends with   *)
(* some result, at the latest when it is visited after the holding limit.  *)
(* Stop, partial and trailing are PaperLedger's rules, not repeated here.  *)
(***************************************************************************)
EXTENDS MarketScanner, MarketAssessment

CONSTANTS
    Results,     \* what a shadow position can end with, in R
    MaxShadows   \* bound: shadow positions ever opened

ASSUME ResultsAssumption == Results \subseteq Int

VARIABLES
    shadow,       \* causal_shadow_positions: the context of a symbol's, or NoShadow
    observations, \* quant_observations by symbol, oldest first: context and result
    shadowed,     \* history: the contexts of the shadow positions ever opened
    visiting      \* the symbols the cycle has still to visit

shadowVars == <<shadow, observations, shadowed, visiting>>

NoShadow == [direction |-> "none", regime |-> "none"]

HasShadow(s) == shadow[s] # NoShadow

\* What a position is opened in, and an observation is matched by.  raw_edge is
\* -1, 0 or 1 (EdgeIsTheDirection), and so in the bin of its own direction only.
Context(market, quant) ==
    [direction |-> Assessed[quant], regime |-> MarketState[market].regime]

----------------------------------------------------------------------------
ShadowInit == /\ shadow = [s \in Symbols |-> NoShadow]
              /\ observations = [s \in Symbols |-> <<>>]
              /\ shadowed = [s \in Symbols |-> <<>>]
              /\ visiting = {}

\* _deep_universe_symbols(): the last selection of the scanner, else one of a
\* universe of its own, else the configured symbols.
ShadowSymbols == IF shallow # {} THEN {shallow} ELSE SUBSET Symbols \ {{}}

ShadowCycleBegins == /\ visiting = {}
                     /\ visiting' \in ShadowSymbols
                     /\ UNCHANGED <<shadow, observations, shadowed>>

Visited(s) == /\ s \in visiting
              /\ visiting' = visiting \ {s}

\* Stale market, no directional edge, an error, or a position that goes on.
VisitChangesNothing(s) == /\ Visited(s)
                          /\ UNCHANGED <<shadow, observations, shadowed>>

ShadowsOpened == FoldFunction(LAMBDA contexts, n : n + Len(contexts), 0, shadowed)

VisitOpens(s, market, quant) ==
    /\ Visited(s)
    /\ ~HasShadow(s)
    /\ MarketState[market].fresh /\ Directional(quant)
    /\ ShadowsOpened < MaxShadows
    /\ shadow' = [shadow EXCEPT ![s] = Context(market, quant)]
    /\ shadowed' = [shadowed EXCEPT ![s] = Append(@, Context(market, quant))]
    /\ UNCHANGED observations

Observe(s, r) ==
    observations' = [observations EXCEPT ![s] = Append(@, [context |-> shadow[s], r |-> r])]

\* Faulty variant: two statements, and the second may not be reached.
CompleteInTwo(s, r) == /\ Observe(s, r)
                       /\ shadow' \in {shadow, [shadow EXCEPT ![s] = NoShadow]}

\* _complete(): one transaction.
Complete(s, r) == /\ Observe(s, r)
                  /\ shadow' = [shadow EXCEPT ![s] = NoShadow]

VisitCloses(s, r) == /\ Visited(s)
                     /\ HasShadow(s)
                     /\ Complete(s, r)
                     /\ UNCHANGED shadowed

ShadowDies == visiting' = {} /\ UNCHANGED <<shadow, observations, shadowed>>

----------------------------------------------------------------------------
\* Every shadow position is observed exactly once, when it ends, in the context
\* it was opened in: none is counted while it is open, counted twice or lost
\* (shadow/service.py lines 147-155), whatever dies in between.
ObservationsAreCausal ==
    \A s \in Symbols :
        shadowed[s] = [i \in DOMAIN observations[s] |-> observations[s][i].context]
                          \o (IF HasShadow(s) THEN <<shadow[s]>> ELSE <<>>)
=============================================================================
