---------------------------- MODULE PaperLedger ----------------------------
(***************************************************************************)
(* The PAPER account and its positions: nexor_x/execution/service.py       *)
(* (open, partial close, close), nexor_x/position/service.py (the manager  *)
(* that moves stops and takes the partial) and the figures of              *)
(* nexor_x/portfolio/service.py that the gate reads.                       *)
(*                                                                         *)
(* The tables portfolio_accounts and portfolio_positions are the state.    *)
(* Each transaction() or execute() of the code is one commit.  A manager   *)
(* evaluation is several commits with no suspension between them, so only  *)
(* a crash of the process can come in between.                             *)
(*                                                                         *)
(* Prices and quantities are integers.  Money is counted in units of the   *)
(* fee rate: a price difference times a quantity is multiplied by FeeUnit  *)
(* (the inverse of fee_rate), and the fee on a notional is the notional.   *)
(***************************************************************************)
EXTENDS Integers, Sequences, FiniteSetsExt

CONSTANTS Symbols,
          Prices,            \* market prices that occur
          Quantity,          \* lots of a new position: the sizing is abstracted
          InitialEquity,
          SlippageDivisor,   \* slippage_rate = 1 / SlippageDivisor
          StopDivisor,       \* stop_loss_pct = 1 / StopDivisor
          FeeUnit,           \* fee_rate      = 1 / FeeUnit
          MaxOpenPositions,
          MaxPositions,      \* bound: positions ever opened
          MaxCrashes         \* bound: crashes of the process

ASSUME PricesAssumption == Prices \subseteq Nat \ {0}
ASSUME SizesAssumption ==
    {Quantity, InitialEquity, SlippageDivisor, StopDivisor, FeeUnit,
     MaxOpenPositions, MaxPositions} \subseteq Nat \ {0}
ASSUME CrashBoundAssumption == MaxCrashes \in Nat

VARIABLES account,     \* the row 'PAPER' of portfolio_accounts
          positions,   \* portfolio_positions, by id
          manager,     \* the evaluation the position manager is in the middle of
          crashes

vars == <<account, positions, manager, crashes>>

Sides == {"LONG", "SHORT"}

Position == [symbol : Symbols, side : Sides, status : {"OPEN", "CLOSED"},
             quantity : Nat, entry : Nat, notional : Nat,
             stop : Nat, initialStop : Nat, highest : Nat, lowest : Nat,
             entryFee : Nat, partialTaken : BOOLEAN,
             realized : Int, partialRealized : Int]

Account == [equity : Int, peak : Int, realized : Int]

Resting == [phase |-> "resting"]

Evaluation == [phase : {"stop", "breakEven", "partial", "flag", "trail"},
               id : Nat, price : Nat]

OpenIds == {i \in DOMAIN positions : positions[i].status = "OPEN"}

\* The gate's capacity_available, on the snapshot's count of open positions.
CapacityAvailable == Cardinality(OpenIds) < MaxOpenPositions

\* No open position on the symbol: the duplicate check before the insertion.
AnySymbol(symbol) == TRUE                                     \* faulty variant
SymbolIsFree(symbol) == \A i \in OpenIds : positions[i].symbol # symbol

----------------------------------------------------------------------------
(***************************************************************************)
(* Arithmetic of one fill.                                                 *)
(***************************************************************************)
Slip(price, up) == IF up THEN price + price \div SlippageDivisor
                         ELSE price - price \div SlippageDivisor

EntryPrice(side, price) == Slip(price, side = "LONG")
ExitPrice(side, price)  == Slip(price, side = "SHORT")

\* The unit of price is fine enough for the buffer beyond break-even, five
\* hundredths of the risk, to be seen: the code's floats always show it.
ASSUME GrainAssumption ==
    \A side \in Sides, price \in Prices : EntryPrice(side, price) \div StopDivisor >= 20

\* a is a better price than b for a position of this side.
Better(side, a, b) == IF side = "LONG" THEN a > b ELSE a < b

\* x moved towards profit by distance.
Towards(side, x, distance) == IF side = "LONG" THEN x + distance ELSE x - distance

Gain(side, from, to) == IF side = "LONG" THEN to - from ELSE from - to

Gross(side, entry, exit, quantity) == FeeUnit * Gain(side, entry, exit) * quantity

Fee(price, quantity) == price * quantity

\* equity=equity+d, realized_pnl=realized_pnl+d, peak_equity=MAX(peak, equity+d)
Credit(a, d) == [equity   |-> a.equity + d,
                 realized |-> a.realized + d,
                 peak     |-> IF a.equity + d > a.peak THEN a.equity + d ELSE a.peak]

\* open: the fee is debited and the peak left alone.
Debit(a, d) == [equity |-> a.equity - d, realized |-> a.realized - d, peak |-> a.peak]

----------------------------------------------------------------------------
(***************************************************************************)
(* The rows the three execution methods write.                             *)
(***************************************************************************)
NewPosition(symbol, side, price) ==
    LET entry == EntryPrice(side, price)
        stop  == Towards(side, entry, -(entry \div StopDivisor))
    IN [symbol |-> symbol, side |-> side, status |-> "OPEN",
        quantity |-> Quantity, entry |-> entry, notional |-> entry * Quantity,
        stop |-> stop, initialStop |-> stop, highest |-> entry, lowest |-> entry,
        entryFee |-> Fee(entry, Quantity), partialTaken |-> FALSE,
        realized |-> 0, partialRealized |-> 0]

\* Faulty variant: the entry fee is not shared out by the lots closed.
AllocateFeePerLot(p, quantity) == p.entryFee * quantity

\* The fee already paid at entry for the lots being closed.
AllocatedEntryFee(p, quantity) == (p.entryFee * quantity) \div p.quantity

\* What a (partial) exit adds to the account: gross minus the exit fee.
ExitDelta(p, quantity, price) ==
    LET exit == ExitPrice(p.side, price)
    IN Gross(p.side, p.entry, exit, quantity) - Fee(exit, quantity)

\* estimated_loss_rate times the notional: what the sizing expects a position to
\* lose at its first stop, with the slippage of the exit and two fees.
EstimatedLoss(p) ==
    FeeUnit * (p.entry \div StopDivisor + p.entry \div SlippageDivisor) * Quantity
        + 2 * Fee(p.entry, Quantity)

\* NetPnLCalculator.calculate(), with fees that are given.
NetPnL(gross, entryFee, exitFee) == gross - entryFee - exitFee

\* normalize_closed_trade(): what the row stores as the result of an exit, net
\* of its share of the entry fee.
Net(p, quantity, price) ==
    LET exit == ExitPrice(p.side, price)
    IN NetPnL(Gross(p.side, p.entry, exit, quantity),
              AllocatedEntryFee(p, quantity), Fee(exit, quantity))

\* Faulty variant: the fee of the closed lots is charged again at the close.
PartlyClosedKeepingFee(p, quantity, price) ==
    [p EXCEPT !.quantity = @ - quantity,
              !.partialRealized = @ + Net(p, quantity, price),
              !.realized = @ + Net(p, quantity, price)]

\* partial_close: SET quantity=?, notional=quantity*entry_price.  SQL evaluates
\* the right-hand sides on the old row: the notional keeps the old quantity.
PartlyClosed(p, quantity, price) ==
    [p EXCEPT !.quantity = @ - quantity,
              !.notional = p.quantity * p.entry,
              !.entryFee = @ - AllocatedEntryFee(p, quantity),
              !.partialRealized = @ + Net(p, quantity, price),
              !.realized = @ + Net(p, quantity, price)]

\* close_position: realized_pnl is set, not added to.
Closed(p, price) ==
    [p EXCEPT !.status = "CLOSED",
              !.realized = Net(p, p.quantity, price)]

----------------------------------------------------------------------------
(***************************************************************************)
(* The manager's policy, in tenths and hundredths of the initial risk R.   *)
(***************************************************************************)
Risk(p) == Gain(p.side, p.initialStop, p.entry)

\* current_r >= tenths / 10
ReachesR(p, price, tenths) == 10 * Gain(p.side, p.entry, price) >= tenths * Risk(p)

StopHit(p, price) == ~Better(p.side, price, p.stop)

\* Faulty variant: the buffer on the losing side of the entry.
BreakEvenStopBelow(p) == Towards(p.side, p.entry, -((5 * Risk(p)) \div 100))

BreakEvenStop(p) == Towards(p.side, p.entry, (5 * Risk(p)) \div 100)

PartialDue(p, price) == ReachesR(p, price, 15) /\ ~p.partialTaken

PartialQuantity(p) == (35 * p.quantity) \div 100

TrailingStop(p) ==
    LET best == IF p.side = "LONG" THEN p.highest ELSE p.lowest
    IN Towards(p.side, best, -((8 * Risk(p)) \div 10))

\* Faulty variant: the candidate is always taken.
TakeCandidate(p, candidate) == [p EXCEPT !.stop = candidate]

\* A stop candidate replaces the stop only if it improves it.
Improve(p, candidate) ==
    IF Better(p.side, candidate, p.stop) THEN [p EXCEPT !.stop = candidate] ELSE p

----------------------------------------------------------------------------
Init == /\ account = [equity |-> InitialEquity, peak |-> InitialEquity, realized |-> 0]
        /\ positions = <<>>
        /\ manager = Resting
        /\ crashes = 0

\* open_from_readiness behind the gate.  Between the snapshot the gate reads and
\* the insertion there is only publish(), taken not to suspend: they are one step.
Open(symbol, side, price) ==
    /\ manager = Resting
    /\ Len(positions) < MaxPositions
    /\ CapacityAvailable
    /\ SymbolIsFree(symbol)
    /\ positions' = Append(positions, NewPosition(symbol, side, price))
    /\ account' = Debit(account, Fee(EntryPrice(side, price), Quantity))
    /\ UNCHANGED <<manager, crashes>>

\* The one transaction of close_position.
CloseAt(i, price) ==
    /\ positions' = [positions EXCEPT ![i] = Closed(@, price)]
    /\ account' = Credit(account, ExitDelta(positions[i], positions[i].quantity, price))

\* POST paper close: any open position, at the price the caller gives.
CloseManually(i, price) ==
    /\ manager = Resting
    /\ i \in OpenIds
    /\ CloseAt(i, price)
    /\ UNCHANGED <<manager, crashes>>

\* evaluate(): the row is read and the extreme prices are written.
StartEvaluation(i, price) ==
    /\ manager = Resting
    /\ i \in OpenIds
    /\ positions' = [positions EXCEPT ![i].highest = IF price > @ THEN price ELSE @,
                                      ![i].lowest  = IF price < @ THEN price ELSE @]
    /\ manager' = [phase |-> "stop", id |-> i, price |-> price]
    /\ UNCHANGED <<account, crashes>>

Evaluating(phase) == manager.phase = phase
ProceedTo(phase) == manager' = [manager EXCEPT !.phase = phase]

\* A stop that was hit closes the position at the stop price, not the market's.
ProtectiveStop ==
    /\ Evaluating("stop")
    /\ IF StopHit(positions[manager.id], manager.price)
       THEN CloseAt(manager.id, positions[manager.id].stop) /\ manager' = Resting
       ELSE ProceedTo("breakEven") /\ UNCHANGED <<positions, account>>
    /\ UNCHANGED crashes

BreakEven ==
    /\ Evaluating("breakEven")
    /\ IF ReachesR(positions[manager.id], manager.price, 8)
       THEN positions' = [positions EXCEPT ![manager.id] = Improve(@, BreakEvenStop(@))]
       ELSE UNCHANGED positions
    /\ ProceedTo("partial")
    /\ UNCHANGED <<account, crashes>>

\* execution.partial_close(...): one transaction.
TakePartial ==
    LET p == positions[manager.id] IN
    /\ Evaluating("partial")
    /\ IF PartialDue(p, manager.price)
       THEN /\ positions' = [positions EXCEPT ![manager.id] =
                                PartlyClosed(@, PartialQuantity(@), manager.price)]
            /\ account' = Credit(account, ExitDelta(p, PartialQuantity(p), manager.price))
            /\ ProceedTo("flag")
       ELSE ProceedTo("trail") /\ UNCHANGED <<positions, account>>
    /\ UNCHANGED crashes

\* Faulty variant: the flag is never written.
FlagForgotten == /\ Evaluating("flag")
                 /\ ProceedTo("trail")
                 /\ UNCHANGED <<positions, account, crashes>>

\* UPDATE ... SET partial_taken=1: a commit of its own.
FlagPartial ==
    /\ Evaluating("flag")
    /\ positions' = [positions EXCEPT ![manager.id].partialTaken = TRUE]
    /\ ProceedTo("trail")
    /\ UNCHANGED <<account, crashes>>

Trail ==
    /\ Evaluating("trail")
    /\ IF ReachesR(positions[manager.id], manager.price, 20)
       THEN positions' = [positions EXCEPT ![manager.id] = Improve(@, TrailingStop(@))]
       ELSE UNCHANGED positions
    /\ manager' = Resting
    /\ UNCHANGED <<account, crashes>>

\* The process dies between two commits; the tables are what was committed.
Crash == /\ manager # Resting
         /\ crashes < MaxCrashes
         /\ crashes' = crashes + 1
         /\ manager' = Resting
         /\ UNCHANGED <<account, positions>>

ManagerStep == ProtectiveStop \/ BreakEven \/ TakePartial \/ FlagPartial \/ Trail

Next == \/ \E symbol \in Symbols, side \in Sides, price \in Prices :
              Open(symbol, side, price)
        \/ \E i \in DOMAIN positions, price \in Prices : CloseManually(i, price)
        \/ \E i \in DOMAIN positions, price \in Prices : StartEvaluation(i, price)
        \/ ManagerStep
        \/ Crash

Spec == Init /\ [][Next]_vars

----------------------------------------------------------------------------
\* Type correctness.
TypeOK == /\ account \in Account
          /\ positions \in Seq(Position)
          /\ manager \in {Resting} \cup Evaluation
          /\ crashes \in Nat

\* A position's contribution to the account's realised result: what its exits
\* earned, less the entry fee of the lots still open.
Contribution(p) ==
    IF p.status = "OPEN" THEN p.partialRealized - p.entryFee
                         ELSE p.realized + p.partialRealized

Total(rows) ==
    FoldSet(LAMBDA i, sum : sum + Contribution(rows[i]), 0, DOMAIN rows)

\* Every unit of money in the account is explained by the positions: no fee is
\* charged twice or forgotten across open, partial close and close, though the
\* account never sees the net figures the positions store; and equity, realised
\* result and peak, each updated on its own, still agree.
MoneyIsConserved ==
    /\ account.realized = Total(positions)
    /\ account.equity = InitialEquity + account.realized
    /\ account.peak >= Max({InitialEquity, account.equity})

\* docs/AUDIT_SPRINT_10.md: a stop is never loosened.
StopNeverLoosens ==
    [][\A i \in OpenIds :
          positions'[i].stop = positions[i].stop
          \/ Better(positions[i].side, positions'[i].stop, positions[i].stop)]_vars

\* What an open position will have made of the account once its stop closes it:
\* partials taken, lots left, slippage and every fee.
StopOut(p) == Contribution(p) + ExitDelta(p, p.quantity, p.stop)

\* The same of all its lots at its first stop, as on the day it was opened.
FirstStopOut(p) ==
    ExitDelta(p, Quantity, p.initialStop) - Fee(p.entry, Quantity)

\* The loss in money when a stop closes the position, whatever the manager did
\* before (moved the stop twice, took a partial, died and took it again): never
\* more than the first stop would have cost, which for a LONG is what the sizing
\* estimated; and the lots left after a flagged partial lose at most the slippage
\* and the fee of an exit at the entry price (position/service.py lines 75-112,
\* execution/service.py lines 78-81 and 196-209).
StopOutIsBounded ==
    \A i \in OpenIds :
        LET p == positions[i] IN
        /\ StopOut(p) >= FirstStopOut(p)
        /\ p.side = "LONG" => StopOut(p) >= -EstimatedLoss(p)
        /\ p.partialTaken =>
              ExitDelta(p, p.quantity, p.stop) >= ExitDelta(p, p.quantity, p.entry)

\* docs/AUDIT_SPRINT_10.md: the partial happens at most once, as long as the
\* process does not die between the exit and the flag that remembers it.
AtMostOnePartial ==
    crashes = 0 =>
        \A i \in OpenIds :
            positions[i].quantity \in {Quantity, Quantity - (35 * Quantity) \div 100}
=============================================================================
