---------------------------- MODULE MarketScanner ----------------------------
(***************************************************************************)
(* nexor_x/scanner/service.py: one scan at a time, for whoever asks first. *)
(* A scan is suspended twice, while it fetches the universe and while the  *)
(* symbols are assessed.  It stores one row for the run and one for each   *)
(* candidate, every row a commit of its own, and only then becomes the     *)
(* latest run, which is what a caller gets who finds the scanner busy.     *)
(*                                                                         *)
(* The ranking is left to chance: some of the selected symbols fail, the   *)
(* others come in some order.  running, which only status() shows, is left *)
(* out: it stays TRUE when the universe fails, the lock does not.          *)
(***************************************************************************)
EXTENDS Integers, SequencesExt, Functions

CONSTANTS Symbols, MaxRuns      \* bound: runs that reach the database

VARIABLES
    scan,     \* the run under way: its phase and who asked for it
    latest,   \* MarketScannerService._latest
    shallow,  \* _latest_shallow, the symbols of the last universe
    runs      \* scanner_runs: were all the rows of the run stored?

scannerVars == <<scan, latest, shallow, runs>>

NoRun == [id |-> 0, candidates |-> <<>>]

NoScan == [phase |-> "free"]

Busy == scan.phase # "free"

Rankings(S) == {q \in BoundedSeq(S, Cardinality(S)) : IsInjective(q)}

----------------------------------------------------------------------------
ScannerInit == /\ scan = NoScan
               /\ latest = NoRun
               /\ shallow = {}
               /\ runs = <<>>

BeginScan(caller) ==
    /\ ~Busy
    /\ Len(runs) < MaxRuns
    /\ scan' = [phase |-> "universe", by |-> caller]
    /\ UNCHANGED <<latest, shallow, runs>>

\* market_universe() raises.
UniverseFails == /\ scan.phase = "universe"
                 /\ scan' = NoScan
                 /\ UNCHANGED <<latest, shallow, runs>>

\* ShallowUniverseSelector.select() keeps S; nothing selected is an error, and
\* forgets the last selection all the same.
SelectShallow(S) == /\ scan.phase = "universe"
                    /\ shallow' = S
                    /\ scan' = IF S = {} THEN NoScan ELSE [scan EXCEPT !.phase = "assessing"]
                    /\ UNCHANGED <<latest, runs>>

\* Faulty variant: the run is the latest before its rows are stored.
PublishFirst(run, stored) == /\ runs' = Append(runs, stored)
                             /\ latest' = run

\* _persist() and then _latest: an error of the database, at whatever row,
\* leaves the rows before it and the old latest run.
StoreRun(run, stored) == /\ runs' = Append(runs, stored)
                         /\ latest' = IF stored THEN run ELSE latest

AssessmentsEnd(ranking, stored) ==
    /\ scan.phase = "assessing"
    /\ scan' = NoScan
    /\ StoreRun([id |-> Len(runs) + 1, candidates |-> ranking], stored)
    /\ UNCHANGED shallow

\* The process dies, perhaps between two rows.
ScannerDies == /\ scan' = NoScan
               /\ latest' = NoRun
               /\ shallow' = {}
               /\ \/ UNCHANGED runs
                  \/ scan.phase = "assessing" /\ runs' = Append(runs, FALSE)
=============================================================================
