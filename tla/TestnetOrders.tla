--------------------------- MODULE TestnetOrders ----------------------------
(***************************************************************************)
(* nexor_x/orders: TestnetOrderService and its IdempotencyRegistry,        *)
(* between callers that may retry and an exchange that may not answer.     *)
(*                                                                         *)
(* create() runs from its start to the POST without a suspension: look up  *)
(* the intent, reserve a row, send.  What follows is one step when the     *)
(* answer, or an exception, arrives.  A database that fails before ends    *)
(* create() with nothing sent; one that fails after leaves the row as it   *)
(* is.  The exchange is the environment: it may get the request before or  *)
(* after the caller gives up, or never.                                    *)
(***************************************************************************)
EXTENDS Naturals, Integers, Sequences

CONSTANTS Callers,
          Intents,      \* (strategy, signal, request): what the key hashes
          Symbols,
          SymbolOf,     \* of an intent
          DeltaOf,      \* the signed quantity an intent adds to the position
          ClientOf,     \* its client_order_id: given by the caller, or NX-<key>
          MaxCrashes    \* bound

ASSUME IntentsAssumption ==
    /\ SymbolOf \in [Intents -> Symbols]
    /\ DeltaOf \in [Intents -> Int]
    /\ MaxCrashes \in Nat

VARIABLES
    registry,   \* order_idempotency: a row for each intent, ABSENT if none
    call,       \* the intents whose POST each caller awaits: at most one
    wire,       \* requests sent and not yet seen by the exchange
    book,       \* the orders the exchange accepted; the index is orderId
    position,   \* the exchange's position per symbol, signed
    crashes,
    unfinished  \* history: the intents whose finalize() failed

orderVars == <<registry, call, wire, book, position, crashes, unfinished>>

Absent == [status |-> "ABSENT", exchangeId |-> 0]
Reserved == [status |-> "RESERVED", exchangeId |-> 0]
Failed == [status |-> "FAILED", exchangeId |-> 0]

\* The statuses with which the exchange acknowledges an order.
Acknowledgements == {"NEW", "FILLED"}

Awaits(c, k) == k \in call[c]

----------------------------------------------------------------------------
OrdersInit == /\ registry = [k \in Intents |-> Absent]
              /\ call = [c \in Callers |-> {}]
              /\ wire = {}
              /\ book = <<>>
              /\ position = [s \in Symbols |-> 0]
              /\ crashes = 0 /\ unfinished = {}

\* Faulty variant: an order that failed may be tried again.
RetriesFailed(k) == registry[k].status \in {"ABSENT", "FAILED"}

\* registry.get(key) is None.  Any other row, FAILED ones included, makes
\* create() return it as a duplicate: nothing changes.
IsNewIntent(k) == registry[k].status = "ABSENT"

\* create_testnet_order(): the request leaves under the client id of its intent,
\* and is not sent again, whatever becomes of it.
Send(k) == wire' = wire \cup {k}

\* create() up to the suspension in the POST.
Create(c, k) == /\ call[c] = {}
                /\ IsNewIntent(k)
                /\ registry' = [registry EXCEPT ![k] = Reserved]
                /\ Send(k)
                /\ call' = [call EXCEPT ![c] = {k}]
                /\ UNCHANGED <<book, position, crashes, unfinished>>

\* Faulty variant: the row names the next order of the exchange.
AcknowledgedOffByOne(n) == [status |-> book[n].acknowledged, exchangeId |-> n + 1]

\* finalize() with the exchange's answer.
Acknowledged(n) == [status |-> book[n].acknowledged, exchangeId |-> n]

\* The answer arrives: finalize() with its orderId and its status at the time.
AnswerArrives(c) ==
    \E n \in 1..Len(book) :
        /\ Awaits(c, book[n].intent)
        /\ registry' = [registry EXCEPT ![book[n].intent] = Acknowledged(n)]
        /\ call' = [call EXCEPT ![c] = {}]
        /\ UNCHANGED <<wire, book, position, crashes, unfinished>>

\* An exception: a refusal, a timeout, a broken connection, or a finalize() that
\* failed and is followed by another with FAILED.  The request may have been
\* executed, or be executed later.
CallFails(c) ==
    \E k \in Intents :
        /\ Awaits(c, k)
        /\ registry' = [registry EXCEPT ![k] = Failed]
        /\ call' = [call EXCEPT ![c] = {}]
        /\ UNCHANGED <<wire, book, position, crashes, unfinished>>

\* The database refuses finalize(): of the answer, and then of the FAILED that the
\* except clause tries instead, or of that one after an exception.  The caller is
\* told of an error and the row stays RESERVED.
FinalizeFails(c) ==
    \E k \in Intents :
        /\ Awaits(c, k)
        /\ unfinished' = unfinished \cup {k}
        /\ call' = [call EXCEPT ![c] = {}]
        /\ UNCHANGED <<registry, wire, book, position, crashes>>

\* Faulty variant: rows left RESERVED are removed when the process restarts.
CrashDropsReservations ==
    /\ crashes < MaxCrashes
    /\ crashes' = crashes + 1
    /\ registry' = [k \in Intents |-> IF registry[k] = Reserved THEN Absent ELSE registry[k]]
    /\ call' = [c \in Callers |-> {}]
    /\ UNCHANGED <<wire, book, position, unfinished>>

\* The process dies, or its tasks are cancelled at shutdown (a CancelledError is
\* no Exception, so create() does not finalize): the row stays RESERVED.  A crash
\* before the request left is this one followed by RequestLost.
Crash == /\ crashes < MaxCrashes
         /\ crashes' = crashes + 1
         /\ call' = [c \in Callers |-> {}]
         /\ UNCHANGED <<registry, wire, book, position, unfinished>>

----------------------------------------------------------------------------
(***************************************************************************)
(* The exchange and the network.                                           *)
(***************************************************************************)
Fill(k) == [position EXCEPT ![SymbolOf[k]] = @ + DeltaOf[k]]

OpenAtExchange == {n \in 1..Len(book) : book[n].status = "NEW"}

\* A client order id is unique among the open orders.
ExchangeAccepts(k, ack) ==
    /\ k \in wire
    /\ \A n \in OpenAtExchange : ClientOf[book[n].intent] # ClientOf[k]
    /\ wire' = wire \ {k}
    /\ book' = Append(book, [intent |-> k, acknowledged |-> ack, status |-> ack])
    /\ position' = IF ack = "FILLED" THEN Fill(k) ELSE position
    /\ UNCHANGED <<registry, call, crashes, unfinished>>

\* Refused, or lost on the way.
RequestLost(k) == /\ k \in wire
                  /\ wire' = wire \ {k}
                  /\ UNCHANGED <<registry, call, book, position, crashes, unfinished>>

\* A resting order is executed (in one fill).
OrderFills(n) == /\ n \in OpenAtExchange
                 /\ book' = [book EXCEPT ![n].status = "FILLED"]
                 /\ position' = Fill(book[n].intent)
                 /\ UNCHANGED <<registry, call, wire, crashes, unfinished>>

\* testnet_order_cancel(), or the exchange: no row of the registry changes.
OrderCanceled(n) == /\ n \in OpenAtExchange
                    /\ book' = [book EXCEPT ![n].status = "CANCELED"]
                    /\ UNCHANGED <<registry, call, wire, position, crashes, unfinished>>

\* Somebody closes the position at the exchange.
PositionClosed(s) == /\ position[s] # 0
                     /\ position' = [position EXCEPT ![s] = 0]
                     /\ UNCHANGED <<registry, call, wire, book, crashes, unfinished>>

ExchangeNext == \/ \E k \in Intents : \/ \E ack \in Acknowledgements : ExchangeAccepts(k, ack)
                                      \/ RequestLost(k)
                \/ \E n \in 1..Len(book) : OrderFills(n) \/ OrderCanceled(n)
                \/ \E s \in Symbols : PositionClosed(s)

CallsEnd == \E c \in Callers : AnswerArrives(c) \/ CallFails(c) \/ FinalizeFails(c)

OrdersNext == \/ \E c \in Callers, k \in Intents : Create(c, k)
              \/ CallsEnd
              \/ ExchangeNext
              \/ Crash

OrdersSpec == OrdersInit /\ [][OrdersNext]_orderVars

----------------------------------------------------------------------------
\* Type correctness; a stored exchange_order_id is the id of an order.
OrdersTypeOK ==
    /\ registry \in [Intents -> [status : {"ABSENT", "RESERVED", "FAILED"} \cup Acknowledgements,
                                 exchangeId : 0..Len(book)]]
    /\ call \in [Callers -> SUBSET Intents]
    /\ wire \subseteq Intents
    /\ book \in Seq([intent : Intents, acknowledged : Acknowledgements,
                     status : Acknowledgements \cup {"CANCELED"}])
    /\ position \in [Symbols -> Int]
    /\ crashes \in Nat
    /\ unfinished \subseteq Intents

\* What a row may be read as, after any loss, retry or crash: an exchange id is
\* that of an order for this very intent; a row stays RESERVED without a caller
\* only because of a crash or of a finalize() that failed, and then for good; and
\* no intent without a row has a caller, a request on its way or an order at the
\* exchange (orders/service.py lines 68-109).
RowsTellTheTruth ==
    \A k \in Intents :
        /\ registry[k].exchangeId # 0 =>
              /\ book[registry[k].exchangeId].intent = k
              /\ book[registry[k].exchangeId].acknowledged = registry[k].status
        /\ registry[k].status = "RESERVED" =>
              (\E c \in Callers : Awaits(c, k)) \/ crashes > 0 \/ k \in unfinished
        /\ k \in unfinished => registry[k] = Reserved
        /\ registry[k].status = "ABSENT" =>
              /\ \A c \in Callers : ~Awaits(c, k)
              /\ k \notin wire
              /\ \A n \in 1..Len(book) : book[n].intent # k

\* The registry keeps its promise: on record first, at the exchange at most once.
Once == INSTANCE OrderOnce
            WITH recorded <- {k \in Intents : registry[k].status # "ABSENT"},
                 placed   <- [n \in 1..Len(book) |-> book[n].intent]

ImplementsOrderOnce == Once!Spec
=============================================================================
