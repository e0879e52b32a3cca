---------------------------- MODULE MCPaperCycle ----------------------------
(***************************************************************************)
(* Small instances of PaperCycle: tasks and symbols are interchangeable.   *)
(***************************************************************************)
EXTENDS PaperCycle

CONSTANTS t1, t2, s1, s2

\* A strong rise, a rise that is wide as well, and the rise from an old cache.
Rise == [change |-> 120, range |-> 200, stale |-> FALSE]
WideRise == [change |-> 120, range |-> 400, stale |-> FALSE]
OldRise == [change |-> 120, range |-> 200, stale |-> TRUE]

MCSnapshots == {Rise, WideRise, OldRise}

MCResults == {-1, 2}

Symmetry == Permutations({t1, t2}) \cup Permutations({s1, s2})
=============================================================================
