-------------------------- MODULE MCRecoveryGuard ---------------------------
(***************************************************************************)
(* A small instance: an entry and an exit on one symbol.                   *)
(***************************************************************************)
EXTENDS RecoveryGuard, TLC

CONSTANTS enter, exit, c1, c2, r1, btc

MCSymbolOf == [k \in Intents |-> btc]
MCDeltaOf == [k \in Intents |-> IF k = exit THEN -1 ELSE 1]
MCClientOf == [k \in Intents |-> k]

Symmetry == Permutations({c1, c2})
=============================================================================
