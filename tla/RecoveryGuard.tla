--------------------------- MODULE RecoveryGuard ----------------------------
(***************************************************************************)
(* nexor_x/recovery: the guard in front of the TESTNET orders.             *)
(*                                                                         *)
(* reconcile() reads the local tables, then the exchange's positions, then *)
(* its open orders, each read a suspension apart, compares what it read,   *)
(* and inserts a report.  kernel.testnet_order_create() obeys the newest   *)
(* report.  Several reconciliations may run at once (an API request each). *)
(*                                                                         *)
(* The local positions are those of the PAPER ledger: no other service     *)
(* writes portfolio_positions.                                             *)
(***************************************************************************)
EXTENDS TestnetOrders

CONSTANTS Reconcilers,
          PaperPositions    \* bound: the signed quantities the ledger may hold

ASSUME PaperAssumption == PaperPositions \subseteq Int /\ 0 \in PaperPositions

VARIABLES
    paper,      \* the OPEN rows of portfolio_positions, signed per symbol
    recon,      \* each reconciliation under way, or NotRunning
    report      \* the status of the newest recovery report, or "NONE"

\* History: for each reconciliation, the inconsistencies that have been there in
\* every state since it began.
VARIABLE standing

guardedVars == <<paper, recon, report, standing>>
vars == <<orderVars, guardedVars>>

NotRunning == [phase |-> "notRunning"]

Nothing == [positions |-> {}, waiting |-> {}, orphans |-> {}]

ClientIds == {ClientOf[k] : k \in Intents}

Mismatches == [symbol : Symbols, local : Int, exchange : Int]

\* How far a reconciliation is, and what it has read.
Progress == {NotRunning}
    \cup [phase : {"positions"}, positions : [Symbols -> PaperPositions], pending : SUBSET ClientIds]
    \cup [phase : {"orders"}, found : SUBSET Mismatches, pending : SUBSET ClientIds]
    \cup [phase : {"insert"}, clean : BOOLEAN]

----------------------------------------------------------------------------
Terminal == {"CANCELED", "EXPIRED", "FILLED", "REJECTED"}

\* Faulty variant: a RESERVED row is not waited for.
PendingOnlyIfSent == {ClientOf[k] : k \in {i \in Intents :
    registry[i].status \notin Terminal \cup {"FAILED", "ABSENT", "RESERVED"}}}

\* _local_pending_orders
LocalPending == {ClientOf[k] : k \in {i \in Intents :
    registry[i].status \notin Terminal \cup {"FAILED", "ABSENT"}}}

\* _normalize_exchange_orders
ExchangeOpen == {ClientOf[book[n].intent] :
                    n \in {i \in 1..Len(book) : book[i].status \notin Terminal}}

\* _position_issues.  (One position per symbol on either side: two records of
\* opposite sides, or of different quantities, are one issue here.)
PositionIssues(local, exchange) ==
    {[symbol |-> s, local |-> local[s], exchange |-> exchange[s]] :
        s \in {x \in Symbols : local[x] # exchange[x]}}

\* _order_issues
OrderIssues(local, exchange) ==
    {[client |-> i, at |-> "LOCAL_ONLY"] : i \in local \ exchange}
        \cup {[client |-> i, at |-> "EXCHANGE_ONLY"] : i \in exchange \ local}

\* allows_testnet_orders(): without a report, locked.
Locked == report # "RECOVERED"

----------------------------------------------------------------------------
Init == /\ OrdersInit
        /\ paper = [s \in Symbols |-> 0]
        /\ recon = [r \in Reconcilers |-> NotRunning]
        /\ report = "NONE"
        /\ standing = [r \in Reconcilers |-> Nothing]

GuardedCreate(c, k) == /\ ~Locked
                       /\ Create(c, k)
                       /\ UNCHANGED <<paper, recon, report>>

\* The ledger opens or closes a position.
PaperMoves(s) == /\ \E q \in PaperPositions \ {paper[s]} : paper' = [paper EXCEPT ![s] = q]
                 /\ UNCHANGED <<orderVars, recon, report>>

\* reconcile() until the request for the positions.
StartReconcile(r) ==
    /\ recon[r] = NotRunning
    /\ recon' = [recon EXCEPT ![r] = [phase     |-> "positions",
                                      positions |-> paper,
                                      pending   |-> LocalPending]]
    /\ UNCHANGED <<orderVars, paper, report>>

\* The exchange answers testnet_positions().
ReadPositions(r) ==
    /\ recon[r].phase = "positions"
    /\ recon' = [recon EXCEPT ![r] =
                    [phase   |-> "orders",
                     found   |-> PositionIssues(recon[r].positions, position),
                     pending |-> recon[r].pending]]
    /\ UNCHANGED <<orderVars, paper, report>>

\* The exchange answers testnet_open_orders(); the comparison needs no more.
ReadOpenOrders(r) ==
    /\ recon[r].phase = "orders"
    /\ recon' = [recon EXCEPT ![r] =
                    [phase |-> "insert",
                     clean |-> /\ recon[r].found = {}
                               /\ OrderIssues(recon[r].pending, ExchangeOpen) = {}]]
    /\ UNCHANGED <<orderVars, paper, report>>

\* The answer arrives and the report is inserted.
InsertReport(r) ==
    /\ recon[r].phase = "insert"
    /\ report' = IF recon[r].clean THEN "RECOVERED" ELSE "LOCKED"
    /\ recon' = [recon EXCEPT ![r] = NotRunning]
    /\ UNCHANGED <<orderVars, paper>>

\* A request to the exchange raises: no report.
ReconcileFails(r) ==
    /\ recon[r] # NotRunning
    /\ recon' = [recon EXCEPT ![r] = NotRunning]
    /\ UNCHANGED <<orderVars, paper, report>>

\* A crash loses the reconciliations; the reports stay, and the newest of them
\* keeps deciding after the restart.
CrashAll == /\ Crash
            /\ recon' = [r \in Reconcilers |-> NotRunning]
            /\ UNCHANGED <<paper, report>>

OrdersMove == /\ CallsEnd \/ ExchangeNext
              /\ UNCHANGED <<paper, recon, report>>

\* What is wrong, whoever looks: a position the two sides disagree about, a row
\* that waits for an order the exchange does not have open, an open order that
\* no row waits for.
RowWaits(k) == registry[k].status \in {"RESERVED", "NEW"}

Inconsistencies ==
    [positions |-> {[symbol |-> s, local |-> paper[s], exchange |-> position[s]] :
                        s \in {x \in Symbols : paper[x] # position[x]}},
     waiting   |-> {k \in Intents :
                        /\ RowWaits(k)
                        /\ \A n \in OpenAtExchange : ClientOf[book[n].intent] # ClientOf[k]},
     orphans   |-> {n \in OpenAtExchange : \A k \in Intents :
                        RowWaits(k) => ClientOf[k] # ClientOf[book[n].intent]}]

\* What of the inconsistencies old is still there.
StillThere(old, new) == [positions |-> old.positions \cap new.positions,
                         waiting   |-> old.waiting \cap new.waiting,
                         orphans   |-> old.orphans \cap new.orphans]

\* What still stands of the inconsistencies each reconciliation began with.
TrackStanding ==
    standing' = [r \in Reconcilers |->
        IF recon'[r] = NotRunning     THEN Nothing
        ELSE IF recon[r] = NotRunning THEN Inconsistencies'
        ELSE StillThere(standing[r], Inconsistencies')]

Next == /\ \/ \E c \in Callers, k \in Intents : GuardedCreate(c, k)
           \/ OrdersMove
           \/ \E s \in Symbols : PaperMoves(s)
           \/ \E r \in Reconcilers : \/ StartReconcile(r)
                                     \/ ReadPositions(r)
                                     \/ ReadOpenOrders(r)
                                     \/ InsertReport(r)
                                     \/ ReconcileFails(r)
           \/ CrashAll
        /\ TrackStanding

Spec == Init /\ [][Next]_vars

----------------------------------------------------------------------------
\* Type correctness.
TypeOK == /\ OrdersTypeOK
          /\ paper \in [Symbols -> PaperPositions]
          /\ recon \in [Reconcilers -> Progress]
          /\ report \in {"NONE", "RECOVERED", "LOCKED"}

\* An inconsistency that stands from the beginning of a reconciliation to its
\* report locks the orders, although the tables, the positions and the orders
\* are read at three different times: a stuck row, an order whose answer was
\* lost, a position nobody recorded (recovery/service.py lines 51-96).
StandingIssuesAreReported ==
    [][\A r \in Reconcilers :
          InsertReport(r) /\ standing[r] # Nothing => report' = "LOCKED"]_vars
=============================================================================
