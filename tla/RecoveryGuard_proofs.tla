------------------------ MODULE RecoveryGuard_proofs ------------------------
(***************************************************************************)
(* The registry of orders keeps its promise for any number of callers and  *)
(* intents: whatever is lost, late, retried or restarted, an intent is on  *)
(* record before it is at the exchange, and there at most once.  Behind    *)
(* the guard the orders keep it too, and a reconciliation reports every    *)
(* inconsistency that stood while it ran, for any number of symbols and    *)
(* reconciliations at once.                                                *)
(***************************************************************************)
EXTENDS RecoveryGuard, TLAPS

Rows == [status : {"ABSENT", "RESERVED", "FAILED"} \cup Acknowledgements, exchangeId : Nat]

Orders == [intent : Intents, acknowledged : Acknowledgements,
           status : Acknowledgements \cup {"CANCELED"}]

\* Types, without the range of the stored ids.
Shape == /\ registry \in [Intents -> Rows]
         /\ call \in [Callers -> SUBSET Intents]
         /\ wire \subseteq Intents
         /\ book \in Seq(Orders)
         /\ position \in [Symbols -> Int]
         /\ crashes \in Nat
         /\ unfinished \subseteq Intents

\* A stored id is that of an order for this intent.
IdsAreOwn == \A k \in Intents :
    registry[k].exchangeId # 0 =>
        /\ registry[k].exchangeId <= Len(book)
        /\ book[registry[k].exchangeId].intent = k
        /\ book[registry[k].exchangeId].acknowledged = registry[k].status

\* A caller awaits one intent, whose row it alone reserved.
CallersAreSingle ==
    /\ \A c \in Callers : \A k, j \in call[c] : k = j
    /\ \A c \in Callers : \A k \in call[c] : registry[k] = Reserved
    /\ \A c, e \in Callers : \A k \in call[c] : k \in call[e] => c = e

ReservedHasCaller == \A k \in Intents :
    registry[k].status = "RESERVED" =>
        (\E c \in Callers : Awaits(c, k)) \/ crashes > 0 \/ k \in unfinished

\* A row that could not be finalized stays as it is: nobody awaits its intent.
UnfinishedStay == \A k \in unfinished :
    registry[k] = Reserved /\ \A c \in Callers : ~Awaits(c, k)

\* Whatever is on its way or accepted is on record.
OnRecord == /\ \A k \in wire : registry[k].status # "ABSENT"
            /\ \A n \in 1..Len(book) : registry[book[n].intent].status # "ABSENT"

\* A request on its way is not at the exchange yet, and no intent is there twice.
AtMostOnce == /\ \A k \in wire : \A n \in 1..Len(book) : book[n].intent # k
              /\ \A n, m \in 1..Len(book) : book[n].intent = book[m].intent => n = m

OrdersInv == /\ Shape
             /\ IdsAreOwn
             /\ CallersAreSingle
             /\ ReservedHasCaller
             /\ UnfinishedStay
             /\ OnRecord
             /\ AtMostOnce

----------------------------------------------------------------------------
LEMMA AppendedBook ==
  ASSUME NEW b \in Seq(Orders), NEW o \in Orders
  PROVE  /\ Append(b, o) \in Seq(Orders)
         /\ Len(Append(b, o)) = Len(b) + 1
         /\ \A n \in 1..Len(b) : Append(b, o)[n] = b[n]
         /\ Append(b, o)[Len(b) + 1] = o
  OBVIOUS

LEMMA ChangedOrder ==
  ASSUME NEW b \in Seq(Orders), NEW n \in 1..Len(b), NEW o \in Orders
  PROVE  /\ [b EXCEPT ![n] = o] \in Seq(Orders)
         /\ Len([b EXCEPT ![n] = o]) = Len(b)
         /\ [b EXCEPT ![n] = o][n] = o
         /\ \A i \in 1..Len(b) : i # n => [b EXCEPT ![n] = o][i] = b[i]
  OBVIOUS

LEMMA OrdersInitially == OrdersInit => OrdersInv
  <1> SUFFICES ASSUME OrdersInit PROVE OrdersInv
    OBVIOUS
  <1>1. Len(book) = 0 /\ book \in Seq(Orders)
    BY DEF OrdersInit
  <1>2. Shape
    BY <1>1 DEF Shape, OrdersInit, Rows, Absent
  <1>3. IdsAreOwn /\ CallersAreSingle /\ ReservedHasCaller
    BY DEF OrdersInit, IdsAreOwn, CallersAreSingle, ReservedHasCaller, Absent
  <1>4. OnRecord /\ AtMostOnce /\ UnfinishedStay
    BY <1>1 DEF OrdersInit, OnRecord, AtMostOnce, UnfinishedStay
  <1> QED
    BY <1>2, <1>3, <1>4 DEF OrdersInv

\* create(): the new row is the caller's, its request the only one.
LEMMA CreatePreserves ==
  ASSUME OrdersInv, NEW c \in Callers, NEW k \in Intents, Create(c, k)
  PROVE  OrdersInv'
  <1>1. /\ registry[k].status = "ABSENT" /\ call[c] = {}
        /\ registry' = [registry EXCEPT ![k] = Reserved]
        /\ wire' = wire \cup {k}
        /\ call' = [call EXCEPT ![c] = {k}]
        /\ book' = book /\ position' = position /\ crashes' = crashes
        /\ unfinished' = unfinished
    BY DEF Create, Send, IsNewIntent
  <1>2. /\ k \notin wire
        /\ \A n \in 1..Len(book) : book[n].intent # k
        /\ \A e \in Callers : k \notin call[e]
    BY <1>1 DEF OrdersInv, OnRecord, CallersAreSingle, Reserved
  <1>3. Shape'
    BY <1>1 DEF OrdersInv, Shape, Rows, Reserved
  <1>4. IdsAreOwn'
    BY <1>1 DEF OrdersInv, IdsAreOwn, Reserved, Shape
  <1>5. CallersAreSingle'
    BY <1>1, <1>2 DEF OrdersInv, CallersAreSingle, Shape
  <1>6. ReservedHasCaller'
    BY <1>1 DEF OrdersInv, ReservedHasCaller, Awaits, Shape
  <1>7. OnRecord'
    BY <1>1 DEF OrdersInv, OnRecord, Shape, Reserved
  <1>8. AtMostOnce'
    BY <1>1, <1>2 DEF OrdersInv, AtMostOnce
  <1>9. UnfinishedStay'
    <2>1. k \notin unfinished
      BY <1>1 DEF OrdersInv, UnfinishedStay, Reserved
    <2> QED
      BY <1>1, <2>1 DEF OrdersInv, UnfinishedStay, Awaits, Shape
  <1> QED
    BY <1>3, <1>4, <1>5, <1>6, <1>7, <1>8, <1>9 DEF OrdersInv

\* The call for k ends: its row takes a final status, true of the book.
LEMMA CallEndPreserves ==
  ASSUME OrdersInv, NEW c \in Callers, NEW k \in Intents, NEW row \in Rows,
         Awaits(c, k),
         row.status \notin {"ABSENT", "RESERVED"},
         row.exchangeId # 0 => /\ row.exchangeId <= Len(book)
                               /\ book[row.exchangeId].intent = k
                               /\ book[row.exchangeId].acknowledged = row.status,
         registry' = [registry EXCEPT ![k] = row],
         call' = [call EXCEPT ![c] = {}],
         UNCHANGED <<wire, book, position, crashes, unfinished>>
  PROVE  OrdersInv'
  <1>1. Shape'
    BY DEF OrdersInv, Shape
  <1>2. IdsAreOwn'
    BY DEF OrdersInv, IdsAreOwn, Shape
  <1>3. /\ \A j \in call[c] : j = k
        /\ \A e \in Callers : k \in call[e] => e = c
        /\ call'[c] = {} /\ \A e \in Callers : e # c => call'[e] = call[e]
    BY DEF OrdersInv, Shape, CallersAreSingle, Awaits
  <1>4. CallersAreSingle'
    BY <1>3 DEF OrdersInv, Shape, CallersAreSingle
  <1>5. ReservedHasCaller'
    BY <1>3 DEF OrdersInv, Shape, ReservedHasCaller, Awaits
  <1>6. OnRecord'
    BY DEF OrdersInv, Shape, OnRecord
  <1>7. AtMostOnce'
    BY DEF OrdersInv, AtMostOnce
  <1>8. UnfinishedStay'
    <2>1. k \notin unfinished
      BY DEF OrdersInv, UnfinishedStay
    <2> QED
      BY <1>3, <2>1 DEF OrdersInv, UnfinishedStay, Awaits, Shape
  <1> QED
    BY <1>1, <1>2, <1>4, <1>5, <1>6, <1>7, <1>8 DEF OrdersInv

\* The call for k ends and its row cannot be finalized.
LEMMA UnfinishedPreserves ==
  ASSUME OrdersInv, NEW c \in Callers, FinalizeFails(c)
  PROVE  OrdersInv'
  <1>1. PICK k \in Intents :
            /\ Awaits(c, k)
            /\ unfinished' = unfinished \cup {k}
            /\ call' = [call EXCEPT ![c] = {}]
            /\ UNCHANGED <<registry, wire, book, position, crashes>>
    BY DEF FinalizeFails
  <1>2. /\ \A j \in call[c] : j = k
        /\ \A e \in Callers : k \in call[e] => e = c
        /\ registry[k] = Reserved
        /\ call'[c] = {} /\ \A e \in Callers : e # c => call'[e] = call[e]
    BY <1>1 DEF OrdersInv, Shape, CallersAreSingle, Awaits
  <1>3. Shape'
    BY <1>1 DEF OrdersInv, Shape
  <1>4. CallersAreSingle'
    BY <1>1, <1>2 DEF OrdersInv, Shape, CallersAreSingle
  <1>5. ReservedHasCaller'
    BY <1>1, <1>2 DEF OrdersInv, Shape, ReservedHasCaller, Awaits
  <1>6. UnfinishedStay'
    BY <1>1, <1>2 DEF OrdersInv, Shape, UnfinishedStay, Awaits
  <1>7. IdsAreOwn' /\ OnRecord' /\ AtMostOnce'
    BY <1>1 DEF OrdersInv, IdsAreOwn, OnRecord, AtMostOnce
  <1> QED
    BY <1>3, <1>4, <1>5, <1>6, <1>7 DEF OrdersInv

LEMMA CallsEndPreserves ==
  ASSUME OrdersInv, CallsEnd
  PROVE  OrdersInv'
  <1>1. PICK c \in Callers : AnswerArrives(c) \/ CallFails(c) \/ FinalizeFails(c)
    BY DEF CallsEnd
  <1>2. CASE AnswerArrives(c)
    <2>1. PICK n \in 1..Len(book) :
              /\ Awaits(c, book[n].intent)
              /\ registry' = [registry EXCEPT ![book[n].intent] = Acknowledged(n)]
              /\ call' = [call EXCEPT ![c] = {}]
              /\ UNCHANGED <<wire, book, position, crashes, unfinished>>
      BY <1>2 DEF AnswerArrives
    <2>2. book[n] \in Orders /\ n \in Nat
      BY DEF OrdersInv, Shape
    <2>3. /\ book[n].intent \in Intents
          /\ book[n].acknowledged \in Acknowledgements
      BY <2>2 DEF Orders
    <2>4. /\ Acknowledged(n) \in Rows
          /\ Acknowledged(n).status = book[n].acknowledged
          /\ Acknowledged(n).exchangeId = n
          /\ Acknowledged(n).status \notin {"ABSENT", "RESERVED"}
      BY <2>2, <2>3 DEF Acknowledged, Rows, Acknowledgements
    <2>5. n # 0 => /\ n <= Len(book)
                   /\ book[n].intent = book[n].intent
                   /\ book[n].acknowledged = Acknowledged(n).status
      BY <2>2, <2>4 DEF OrdersInv, Shape
    <2> HIDE DEF Acknowledged
    <2> QED
      BY <2>1, <2>3, <2>4, <2>5, CallEndPreserves
  <1>3. CASE CallFails(c)
    <2>1. PICK k \in Intents :
              /\ Awaits(c, k)
              /\ registry' = [registry EXCEPT ![k] = Failed]
              /\ call' = [call EXCEPT ![c] = {}]
              /\ UNCHANGED <<wire, book, position, crashes, unfinished>>
      BY <1>3 DEF CallFails
    <2>2. /\ Failed \in Rows
          /\ Failed.exchangeId = 0
          /\ Failed.status \notin {"ABSENT", "RESERVED"}
      BY DEF Failed, Rows
    <2> QED
      BY <2>1, <2>2, CallEndPreserves
  <1> QED
    BY <1>1, <1>2, <1>3, UnfinishedPreserves

\* The position is an integer whatever is filled.
LEMMA FillShape ==
  ASSUME Shape, NEW k \in Intents
  PROVE  Fill(k) \in [Symbols -> Int]
  BY IntentsAssumption DEF Shape, Fill

\* The exchange takes a request off the wire and puts one order into its book.
LEMMA AcceptPreserves ==
  ASSUME OrdersInv, NEW k \in Intents, NEW ack \in Acknowledgements,
         ExchangeAccepts(k, ack)
  PROVE  OrdersInv'
  <1> DEFINE o == [intent |-> k, acknowledged |-> ack, status |-> ack]
  <1>1. /\ k \in wire /\ wire' = wire \ {k}
        /\ book' = Append(book, o)
        /\ registry' = registry /\ call' = call /\ crashes' = crashes
        /\ unfinished' = unfinished
    BY DEF ExchangeAccepts
  <1>2. o \in Orders /\ o.intent = k
    BY DEF Orders
  <1>3. book \in Seq(Orders)
    BY DEF OrdersInv, Shape
  <1> HIDE DEF o
  <1>4. /\ book' \in Seq(Orders)
        /\ Len(book') = Len(book) + 1
        /\ \A n \in 1..Len(book) : book'[n] = book[n]
        /\ book'[Len(book) + 1].intent = k
    BY <1>1, <1>2, <1>3, AppendedBook
  <1>5. position' \in [Symbols -> Int]
    BY FillShape DEF OrdersInv, Shape, ExchangeAccepts
  <1>6. Shape'
    BY <1>1, <1>4, <1>5 DEF OrdersInv, Shape
  <1>7. Len(book) \in Nat
    BY <1>3
  <1>8. IdsAreOwn'
    BY <1>1, <1>4, <1>7 DEF OrdersInv, IdsAreOwn, Shape, Rows
  <1>9. CallersAreSingle' /\ ReservedHasCaller' /\ UnfinishedStay'
    BY <1>1 DEF OrdersInv, CallersAreSingle, ReservedHasCaller, UnfinishedStay, Awaits
  <1>10. \A n \in 1..Len(book') : n \in 1..Len(book) \/ n = Len(book) + 1
    BY <1>4, <1>7
  <1>11. OnRecord'
    BY <1>1, <1>4, <1>10 DEF OrdersInv, OnRecord
  <1>12. AtMostOnce'
    BY <1>1, <1>4, <1>10 DEF OrdersInv, AtMostOnce
  <1> QED
    BY <1>6, <1>8, <1>9, <1>11, <1>12 DEF OrdersInv

\* What happens to an open order changes its status and nothing else.
LEMMA StatusPreserves ==
  ASSUME OrdersInv, NEW n \in 1..Len(book), OrderFills(n) \/ OrderCanceled(n)
  PROVE  OrdersInv'
  <1>1. PICK s \in Acknowledgements \cup {"CANCELED"} : book' = [book EXCEPT ![n].status = s]
    BY DEF OrderFills, OrderCanceled, Acknowledgements
  <1>2. /\ registry' = registry /\ call' = call /\ crashes' = crashes
        /\ wire' = wire /\ unfinished' = unfinished
    BY DEF OrderFills, OrderCanceled
  <1>3. book \in Seq(Orders) /\ book[n] \in Orders
    BY DEF OrdersInv, Shape
  <1>4. /\ book' \in Seq(Orders)
        /\ Len(book') = Len(book)
        /\ \A i \in 1..Len(book) : /\ book'[i].intent = book[i].intent
                                     /\ book'[i].acknowledged = book[i].acknowledged
    <2> DEFINE o == [book[n] EXCEPT !.status = s]
    <2>1. /\ o \in Orders
          /\ o.intent = book[n].intent
          /\ o.acknowledged = book[n].acknowledged
      BY <1>3 DEF Orders
    <2>2. book' = [book EXCEPT ![n] = o]
      BY <1>1
    <2> HIDE DEF o
    <2> QED
      BY <1>3, <2>1, <2>2, ChangedOrder
  <1>5. position' \in [Symbols -> Int]
    <2>1. book[n].intent \in Intents
      BY <1>3 DEF Orders
    <2> QED
      BY <2>1, FillShape DEF OrdersInv, Shape, OrderFills, OrderCanceled
  <1>6. Shape'
    BY <1>2, <1>4, <1>5 DEF OrdersInv, Shape
  <1>7. IdsAreOwn'
    <2>1. \A k \in Intents : registry[k].exchangeId # 0 =>
              registry[k].exchangeId \in 1..Len(book)
      BY <1>3 DEF OrdersInv, IdsAreOwn, Shape, Rows
    <2> QED
      BY <1>2, <1>4, <2>1 DEF OrdersInv, IdsAreOwn
  <1>8. CallersAreSingle' /\ ReservedHasCaller' /\ UnfinishedStay'
    BY <1>2 DEF OrdersInv, CallersAreSingle, ReservedHasCaller, UnfinishedStay, Awaits
  <1>9. OnRecord' /\ AtMostOnce'
    BY <1>2, <1>4 DEF OrdersInv, OnRecord, AtMostOnce
  <1> QED
    BY <1>6, <1>7, <1>8, <1>9 DEF OrdersInv

\* Steps that touch neither the rows nor the book.
LEMMA QuietPreserves ==
  ASSUME OrdersInv, registry' = registry, book' = book,
         wire' \subseteq wire, call' = call, crashes' = crashes, unfinished' = unfinished,
         position' \in [Symbols -> Int]
  PROVE  OrdersInv'
  BY DEF OrdersInv, Shape, IdsAreOwn, CallersAreSingle, ReservedHasCaller, UnfinishedStay, Awaits,
         OnRecord, AtMostOnce

LEMMA CrashPreserves ==
  ASSUME OrdersInv, Crash
  PROVE  OrdersInv'
  <1>1. /\ call' = [c \in Callers |-> {}] /\ crashes' = crashes + 1
        /\ registry' = registry /\ wire' = wire /\ book' = book /\ position' = position
        /\ unfinished' = unfinished
    BY DEF Crash
  <1>2. Shape' /\ crashes' > 0
    BY <1>1 DEF OrdersInv, Shape
  <1>3. CallersAreSingle' /\ ReservedHasCaller' /\ UnfinishedStay'
    BY <1>1, <1>2 DEF OrdersInv, CallersAreSingle, ReservedHasCaller, UnfinishedStay, Awaits
  <1>4. IdsAreOwn' /\ OnRecord' /\ AtMostOnce'
    BY <1>1 DEF OrdersInv, IdsAreOwn, OnRecord, AtMostOnce
  <1> QED
    BY <1>2, <1>3, <1>4 DEF OrdersInv

LEMMA ExchangePreserves ==
  ASSUME OrdersInv, ExchangeNext
  PROVE  OrdersInv'
  <1>1. CASE \E k \in Intents, ack \in Acknowledgements : ExchangeAccepts(k, ack)
    BY <1>1, AcceptPreserves
  <1>2. CASE \E k \in Intents : RequestLost(k)
    BY <1>2, QuietPreserves DEF RequestLost, OrdersInv, Shape
  <1>3. CASE \E n \in 1..Len(book) : OrderFills(n) \/ OrderCanceled(n)
    BY <1>3, StatusPreserves
  <1>4. CASE \E s \in Symbols : PositionClosed(s)
    BY <1>4, QuietPreserves DEF PositionClosed, OrdersInv, Shape
  <1> QED
    BY <1>1, <1>2, <1>3, <1>4 DEF ExchangeNext

\* The invariant of the registry.
THEOREM OrdersInvariant == OrdersSpec => []OrdersInv
  <1>1. OrdersInit => OrdersInv
    BY OrdersInitially
  <1>2. OrdersInv /\ [OrdersNext]_orderVars => OrdersInv'
    <2> SUFFICES ASSUME OrdersInv, [OrdersNext]_orderVars
                 PROVE  OrdersInv'
      OBVIOUS
    <2>1. CASE \E c \in Callers, k \in Intents : Create(c, k)
      BY <2>1, CreatePreserves
    <2>2. CASE CallsEnd
      BY <2>2, CallsEndPreserves
    <2>3. CASE ExchangeNext
      BY <2>3, ExchangePreserves
    <2>4. CASE Crash
      BY <2>4, CrashPreserves
    <2>5. CASE UNCHANGED orderVars
      BY <2>5, QuietPreserves DEF orderVars, OrdersInv, Shape
    <2> QED
      BY <2>1, <2>2, <2>3, <2>4, <2>5 DEF OrdersNext
  <1> QED
    BY <1>1, <1>2, PTL DEF OrdersSpec

\* Type correctness: a stored id is the id of an order.
THEOREM OrdersTypeCorrect == OrdersSpec => []OrdersTypeOK
  <1>1. OrdersInv => OrdersTypeOK
    <2> SUFFICES ASSUME OrdersInv PROVE OrdersTypeOK
      OBVIOUS
    <2>1. Len(book) \in Nat
      BY DEF OrdersInv, Shape
    <2>2. \A k \in Intents : registry[k] \in Rows /\ registry[k].exchangeId \in 0..Len(book)
      BY <2>1 DEF OrdersInv, Shape, IdsAreOwn, Rows
    <2> QED
      BY <2>2 DEF OrdersInv, Shape, OrdersTypeOK, Rows, Orders
  <1> QED
    BY <1>1, OrdersInvariant, PTL

\* What a row says may be relied on, after any loss, retry or crash.
THEOREM RowsAreTrue == OrdersSpec => []RowsTellTheTruth
  <1>1. OrdersInv => RowsTellTheTruth
    BY DEF OrdersInv, RowsTellTheTruth, IdsAreOwn, CallersAreSingle, ReservedHasCaller,
           UnfinishedStay, OnRecord, Awaits, Reserved
  <1> QED
    BY <1>1, OrdersInvariant, PTL

----------------------------------------------------------------------------
(***************************************************************************)
(* The refinement.                                                         *)
(***************************************************************************)
OnRecordSet == {k \in Intents : registry[k].status # "ABSENT"}
PlacedIntents == [n \in 1..Len(book) |-> book[n].intent]

\* One more order is one more intent at the end.
LEMMA PlacedAppends ==
  ASSUME NEW b \in Seq(Orders), NEW o \in Orders, NEW k, o.intent = k
  PROVE  [n \in 1..Len(Append(b, o)) |-> Append(b, o)[n].intent]
            = Append([n \in 1..Len(b) |-> b[n].intent], k)
  <1> DEFINE p == [n \in 1..Len(b) |-> b[n].intent]
             q == [n \in 1..Len(Append(b, o)) |-> Append(b, o)[n].intent]
  <1>1. /\ Len(Append(b, o)) = Len(b) + 1 /\ Len(b) \in Nat
        /\ \A n \in 1..Len(b) : Append(b, o)[n] = b[n]
        /\ Append(b, o)[Len(b) + 1] = o
    BY AppendedBook
  <1>2. p \in Seq(Intents \cup {k}) /\ Len(p) = Len(b)
    <2>1. \A n \in 1..Len(b) : b[n] \in Orders
      OBVIOUS
    <2>2. \A n \in 1..Len(b) : b[n].intent \in Intents
      BY <2>1 DEF Orders
    <2> QED
      BY <1>1, <2>2
  <1>3. /\ \A n \in 1..Len(b) : q[n] = b[n].intent
        /\ q[Len(b) + 1] = k
    BY <1>1
  <1>4. q = [n \in 1..Len(b) + 1 |-> IF n = Len(b) + 1 THEN k ELSE p[n]]
    <2>1. \A n \in 1..Len(b) + 1 : n \in 1..Len(b) \/ n = Len(b) + 1
      BY <1>1
    <2> QED
      BY <1>1, <1>3, <2>1
  <1>5. Append(p, k) = [n \in 1..Len(b) + 1 |-> IF n = Len(b) + 1 THEN k ELSE p[n]]
    BY <1>2
  <1> QED
    BY <1>4, <1>5

\* Every step is one of OrderOnce, or changes nothing it speaks of.
LEMMA StepIsOnce ==
  ASSUME OrdersInv, OrdersInv', [OrdersNext]_orderVars
  PROVE  \/ \E k \in Intents : Once!Record(k) \/ Once!Place(k)
         \/ OnRecordSet' = OnRecordSet /\ PlacedIntents' = PlacedIntents
  <1>1. ASSUME NEW c \in Callers, NEW k \in Intents, Create(c, k)
        PROVE  Once!Record(k)
    <2>1. /\ registry[k].status = "ABSENT"
          /\ registry' = [registry EXCEPT ![k] = Reserved]
          /\ book' = book
      BY <1>1 DEF Create, Send, IsNewIntent
    <2>2. registry \in [Intents -> Rows]
      BY DEF OrdersInv, Shape
    <2>3. OnRecordSet' = OnRecordSet \cup {k} /\ k \notin OnRecordSet
      BY <2>1, <2>2 DEF OnRecordSet, Reserved
    <2>4. PlacedIntents' = PlacedIntents
      BY <2>1 DEF PlacedIntents
    <2> QED
      BY <2>3, <2>4 DEF Once!Record, OnRecordSet, PlacedIntents
  <1>2. ASSUME CallsEnd
        PROVE  OnRecordSet' = OnRecordSet /\ PlacedIntents' = PlacedIntents
    <2>1. PICK k \in Intents, row \in Rows :
              /\ registry[k].status # "ABSENT" /\ row.status # "ABSENT"
              /\ registry' = [registry EXCEPT ![k] = row]
              /\ book' = book
      <3>1. PICK c \in Callers : AnswerArrives(c) \/ CallFails(c) \/ FinalizeFails(c)
        BY <1>2 DEF CallsEnd
      <3>2. \A k \in Intents : Awaits(c, k) => registry[k].status # "ABSENT"
        BY DEF OrdersInv, CallersAreSingle, Awaits, Reserved
      <3>3. CASE AnswerArrives(c)
        <4>1. PICK n \in 1..Len(book) :
                  /\ Awaits(c, book[n].intent)
                  /\ registry' = [registry EXCEPT ![book[n].intent] = Acknowledged(n)]
                  /\ book' = book
          BY <3>3 DEF AnswerArrives
        <4>2. book[n] \in Orders
          BY DEF OrdersInv, Shape
        <4>3. /\ book[n].intent \in Intents
              /\ Acknowledged(n) \in Rows /\ Acknowledged(n).status # "ABSENT"
          BY <4>2 DEF Orders, Rows, Acknowledged, Acknowledgements
        <4> QED
          BY <3>2, <4>1, <4>3
      <3>4. CASE CallFails(c)
        BY <3>2, <3>4 DEF CallFails, Failed, Rows
      <3>5. CASE FinalizeFails(c)
        <4>1. PICK k \in Intents : Awaits(c, k) /\ registry' = registry /\ book' = book
          BY <3>5 DEF FinalizeFails
        <4>2. registry \in [Intents -> Rows]
          BY DEF OrdersInv, Shape
        <4>3. registry' = [registry EXCEPT ![k] = registry[k]]
          BY <4>1, <4>2
        <4> QED
          BY <3>2, <4>1, <4>2, <4>3
      <3> QED
        BY <3>1, <3>3, <3>4, <3>5
    <2>2. registry \in [Intents -> Rows]
      BY DEF OrdersInv, Shape
    <2> QED
      BY <2>1, <2>2 DEF OnRecordSet, PlacedIntents
  <1>3. ASSUME NEW k \in Intents, NEW ack \in Acknowledgements, ExchangeAccepts(k, ack)
        PROVE  Once!Place(k)
    <2> DEFINE o == [intent |-> k, acknowledged |-> ack, status |-> ack]
    <2>1. k \in wire /\ book' = Append(book, o) /\ registry' = registry
      BY <1>3 DEF ExchangeAccepts
    <2>2. book \in Seq(Orders) /\ Len(book) \in Nat
      BY DEF OrdersInv, Shape
    <2>3. o \in Orders /\ o.intent = k
      BY DEF Orders
    <2>4. k \in OnRecordSet
      BY <2>1 DEF OrdersInv, OnRecord, OnRecordSet
    <2>5. Len(PlacedIntents) = Len(book)
      BY <2>2 DEF PlacedIntents
    <2>6. \A n \in 1..Len(PlacedIntents) : PlacedIntents[n] # k
      BY <2>1, <2>5 DEF OrdersInv, AtMostOnce, PlacedIntents
    <2> HIDE DEF o
    <2>7. PlacedIntents' = Append(PlacedIntents, k)
      BY <2>1, <2>2, <2>3, PlacedAppends DEF PlacedIntents
    <2>8. OnRecordSet' = OnRecordSet
      BY <2>1 DEF OnRecordSet
    <2> QED
      BY <2>4, <2>6, <2>7, <2>8 DEF Once!Place, OnRecordSet, PlacedIntents
  <1>4. ASSUME NEW n \in 1..Len(book), OrderFills(n) \/ OrderCanceled(n)
        PROVE  OnRecordSet' = OnRecordSet /\ PlacedIntents' = PlacedIntents
    <2>1. PICK s \in Acknowledgements \cup {"CANCELED"} : book' = [book EXCEPT ![n].status = s]
      BY <1>4 DEF OrderFills, OrderCanceled, Acknowledgements
    <2>2. registry' = registry
      BY <1>4 DEF OrderFills, OrderCanceled
    <2>3. book \in Seq(Orders) /\ book[n] \in Orders
      BY DEF OrdersInv, Shape
    <2>4. Len(book') = Len(book) /\ \A i \in 1..Len(book) : book'[i].intent = book[i].intent
      BY <2>1, <2>3 DEF Orders
    <2> QED
      BY <2>2, <2>4 DEF OnRecordSet, PlacedIntents
  <1>5. ASSUME registry' = registry, book' = book
        PROVE  OnRecordSet' = OnRecordSet /\ PlacedIntents' = PlacedIntents
    BY <1>5 DEF OnRecordSet, PlacedIntents
  <1>6. ASSUME ExchangeNext
        PROVE  \/ \E k \in Intents : Once!Place(k)
               \/ OnRecordSet' = OnRecordSet /\ PlacedIntents' = PlacedIntents
    <2>1. CASE \E k \in Intents, ack \in Acknowledgements : ExchangeAccepts(k, ack)
      BY <2>1, <1>3
    <2>2. CASE \E n \in 1..Len(book) : OrderFills(n) \/ OrderCanceled(n)
      BY <2>2, <1>4
    <2>3. CASE (\E k \in Intents : RequestLost(k)) \/ (\E s \in Symbols : PositionClosed(s))
      BY <2>3, <1>5 DEF RequestLost, PositionClosed
    <2> QED
      BY <1>6, <2>1, <2>2, <2>3 DEF ExchangeNext
  <1> QED
    BY <1>1, <1>2, <1>5, <1>6 DEF OrdersNext, Crash, orderVars

\* The registry implements its promise: on record before the exchange hears of
\* it, at the exchange at most once, whatever is lost, retried or restarted.
THEOREM OrdersAreSentOnce == OrdersSpec => ImplementsOrderOnce
  <1>1. OrdersInit => Once!Init
    BY DEF OrdersInit, Once!Init, Absent
  <1>2. OrdersInv /\ OrdersInv' /\ [OrdersNext]_orderVars =>
           [Once!Next]_<<{k \in Intents : registry[k].status # "ABSENT"},
                         [n \in 1..Len(book) |-> book[n].intent]>>
    <2> SUFFICES ASSUME OrdersInv, OrdersInv', [OrdersNext]_orderVars
                 PROVE  [Once!Next]_<<OnRecordSet, PlacedIntents>>
      BY DEF OnRecordSet, PlacedIntents
    <2> QED
      BY StepIsOnce DEF Once!Next
  <1> QED
    BY <1>1, <1>2, OrdersInvariant, PTL DEF OrdersSpec, ImplementsOrderOnce, Once!Spec
----------------------------------------------------------------------------
(***************************************************************************)
(* Behind the guard.                                                       *)
(***************************************************************************)
\* A step of the guarded system is a step of the orders, or leaves them alone.
LEMMA GuardedStep == Next => [OrdersNext]_orderVars
  BY DEF Next, GuardedCreate, OrdersMove, PaperMoves, StartReconcile, ReadPositions,
         ReadOpenOrders, InsertReport, ReconcileFails, CrashAll, OrdersNext, orderVars

\* The guard adds nothing to what the orders may do.
THEOREM GuardedOrders == Spec => OrdersSpec
  <1>1. Init => OrdersInit
    BY DEF Init
  <1>2. [Next]_vars => [OrdersNext]_orderVars
    BY GuardedStep DEF vars
  <1> QED
    BY <1>1, <1>2, PTL DEF Spec, OrdersSpec

\* Behind the guard too, rows tell the truth ...
THEOREM GuardedRowsAreTrue == Spec => []RowsTellTheTruth
  BY GuardedOrders, RowsAreTrue, PTL

\* ... and an intent is sent at most once.
THEOREM GuardedOrdersAreSentOnce == Spec => ImplementsOrderOnce
  BY GuardedOrders, OrdersAreSentOnce, PTL

----------------------------------------------------------------------------
(***************************************************************************)
(* Type correctness.                                                       *)
(***************************************************************************)
GuardTypeOK == /\ paper \in [Symbols -> PaperPositions]
               /\ recon \in [Reconcilers -> Progress]
               /\ report \in {"NONE", "RECOVERED", "LOCKED"}

LEMMA ProgressShapes ==
  /\ NotRunning \in Progress
  /\ \A f \in [Symbols -> PaperPositions], p \in SUBSET ClientIds :
        [phase |-> "positions", positions |-> f, pending |-> p] \in Progress
  /\ \A f \in SUBSET Mismatches, p \in SUBSET ClientIds :
        [phase |-> "orders", found |-> f, pending |-> p] \in Progress
  /\ \A b \in BOOLEAN : [phase |-> "insert", clean |-> b] \in Progress
  BY DEF Progress

LEMMA ProgressFields ==
  ASSUME NEW x \in Progress
  PROVE  /\ x.phase \in {"notRunning", "positions", "orders", "insert"}
         /\ x = NotRunning <=> x.phase = "notRunning"
         /\ x.phase = "positions" => /\ x.positions \in [Symbols -> PaperPositions]
                                     /\ x.pending \in SUBSET ClientIds
         /\ x.phase = "orders" => /\ x.found \in SUBSET Mismatches
                                  /\ x.pending \in SUBSET ClientIds
         /\ x.phase = "insert" => x.clean \in BOOLEAN
  BY DEF Progress, NotRunning

LEMMA PositionIssuesShape ==
  ASSUME NEW f \in [Symbols -> PaperPositions], NEW g \in [Symbols -> Int]
  PROVE  PositionIssues(f, g) \in SUBSET Mismatches
  <1>1. \A s \in Symbols : f[s] \in Int /\ g[s] \in Int
    BY PaperAssumption
  <1>2. \A s \in Symbols : [symbol |-> s, local |-> f[s], exchange |-> g[s]] \in Mismatches
    BY <1>1 DEF Mismatches
  <1> QED
    BY <1>2 DEF PositionIssues

LEMMA GuardTypeStep ==
  ASSUME GuardTypeOK, position \in [Symbols -> Int], Next
  PROVE  GuardTypeOK'
  <1>1. ASSUME NEW r \in Reconcilers, StartReconcile(r)
        PROVE  GuardTypeOK'
    <2>1. LocalPending \in SUBSET ClientIds
      BY DEF LocalPending, ClientIds
    <2> QED
      BY <1>1, <2>1, ProgressShapes DEF StartReconcile, GuardTypeOK
  <1>2. ASSUME NEW r \in Reconcilers, ReadPositions(r)
        PROVE  GuardTypeOK'
    <2>1. recon[r] \in Progress
      BY DEF GuardTypeOK
    <2>2. recon[r].positions \in [Symbols -> PaperPositions] /\ recon[r].pending \in SUBSET ClientIds
      BY <1>2, <2>1, ProgressFields DEF ReadPositions
    <2>3. PositionIssues(recon[r].positions, position) \in SUBSET Mismatches
      BY <2>2, PositionIssuesShape
    <2> QED
      BY <1>2, <2>2, <2>3, ProgressShapes DEF ReadPositions, GuardTypeOK
  <1>3. ASSUME NEW r \in Reconcilers, ReadOpenOrders(r)
        PROVE  GuardTypeOK'
    <2> DEFINE b == recon[r].found = {} /\ OrderIssues(recon[r].pending, ExchangeOpen) = {}
    <2>1. b \in BOOLEAN
      OBVIOUS
    <2>2. /\ recon' = [recon EXCEPT ![r] = [phase |-> "insert", clean |-> b]]
          /\ UNCHANGED <<paper, report>>
      BY <1>3 DEF ReadOpenOrders
    <2> HIDE DEF b
    <2> QED
      BY <2>1, <2>2, ProgressShapes DEF GuardTypeOK
  <1>4. ASSUME NEW r \in Reconcilers, InsertReport(r) \/ ReconcileFails(r)
        PROVE  GuardTypeOK'
    BY <1>4, ProgressShapes DEF InsertReport, ReconcileFails, GuardTypeOK
  <1>5. ASSUME \/ \E c \in Callers, k \in Intents : GuardedCreate(c, k)
               \/ OrdersMove
               \/ \E s \in Symbols : PaperMoves(s)
               \/ CrashAll
        PROVE  GuardTypeOK'
    BY <1>5, ProgressShapes
       DEF GuardedCreate, OrdersMove, PaperMoves, CrashAll, GuardTypeOK
  <1> QED
    BY <1>1, <1>2, <1>3, <1>4, <1>5 DEF Next

LEMMA GuardTypeInitially == Init => GuardTypeOK
  BY ProgressShapes, PaperAssumption DEF Init, GuardTypeOK

LEMMA GuardedOrdersInv == Spec => []OrdersInv
  BY GuardedOrders, OrdersInvariant, PTL

LEMMA GuardTypeInvariant == Spec => []GuardTypeOK
  <1>1. OrdersInv /\ GuardTypeOK /\ [Next]_vars => GuardTypeOK'
    <2> SUFFICES ASSUME OrdersInv, GuardTypeOK, [Next]_vars PROVE GuardTypeOK'
      OBVIOUS
    <2>1. CASE Next
      BY <2>1, GuardTypeStep DEF OrdersInv, Shape
    <2>2. CASE UNCHANGED vars
      BY <2>2 DEF vars, guardedVars, GuardTypeOK
    <2> QED
      BY <2>1, <2>2
  <1> QED
    BY <1>1, GuardTypeInitially, GuardedOrdersInv, PTL DEF Spec

\* Type correctness of the guarded system.
THEOREM GuardTypeCorrect == Spec => []TypeOK
  <1>1. OrdersTypeOK /\ GuardTypeOK => TypeOK
    BY DEF TypeOK, GuardTypeOK
  <1>2. Spec => []OrdersTypeOK
    BY GuardedOrders, OrdersTypeCorrect, PTL
  <1> QED
    BY <1>1, <1>2, GuardTypeInvariant, PTL

----------------------------------------------------------------------------
(***************************************************************************)
(* What a reconciliation knows of the inconsistencies that still stand.    *)
(***************************************************************************)
Findings == [positions : SUBSET Mismatches, waiting : SUBSET Intents, orphans : SUBSET Nat]

\* A position that still differs was read with its local quantity.
PositionsWereRead(x, st) == \A p \in st.positions : x.positions[p.symbol] = p.local

\* A row that still waits is among the pending ones; a standing orphan is not.
PendingWasRead(x, st, b) ==
    /\ \A k \in st.waiting : ClientOf[k] \in x.pending
    /\ \A n \in st.orphans : n \in 1..Len(b) /\ ClientOf[b[n].intent] \notin x.pending

Knows(x, st, b) ==
    /\ x.phase = "positions" => PositionsWereRead(x, st) /\ PendingWasRead(x, st, b)
    /\ x.phase = "orders" => /\ st.positions # {} => x.found # {}
                             /\ PendingWasRead(x, st, b)
    /\ x.phase = "insert" => (x.clean => st = Nothing)

Reconciled == /\ standing \in [Reconcilers -> Findings]
              /\ \A r \in Reconcilers : Knows(recon[r], standing[r], book)

\* What is wrong now, in the words of the reads.
WellFound ==
    /\ Inconsistencies \in Findings
    /\ \A p \in Inconsistencies.positions :
          /\ p.symbol \in Symbols /\ p.local = paper[p.symbol]
          /\ p.exchange = position[p.symbol] /\ p.local # p.exchange
    /\ \A k \in Inconsistencies.waiting :
          ClientOf[k] \in LocalPending /\ ClientOf[k] \notin ExchangeOpen
    /\ \A n \in Inconsistencies.orphans :
          /\ n \in 1..Len(book)
          /\ ClientOf[book[n].intent] \in ExchangeOpen
          /\ ClientOf[book[n].intent] \notin LocalPending

LEMMA InconsistenciesShape == OrdersInv /\ GuardTypeOK => WellFound
  <1> SUFFICES ASSUME OrdersInv, GuardTypeOK PROVE WellFound
    OBVIOUS
  <1>1. /\ paper \in [Symbols -> PaperPositions] /\ position \in [Symbols -> Int]
        /\ registry \in [Intents -> Rows] /\ book \in Seq(Orders)
    BY DEF OrdersInv, Shape, GuardTypeOK
  <1>2. Len(book) \in Nat /\ \A n \in 1..Len(book) : book[n] \in Orders
    BY <1>1
  <1>3. OpenAtExchange = {n \in 1..Len(book) : book[n].status \notin Terminal}
    <2>1. \A n \in 1..Len(book) : book[n].status \in {"NEW", "FILLED", "CANCELED"}
      BY <1>2 DEF Orders, Acknowledgements
    <2> QED
      BY <2>1 DEF OpenAtExchange, Terminal
  <1>4. ExchangeOpen = {ClientOf[book[n].intent] : n \in OpenAtExchange}
    BY <1>3 DEF ExchangeOpen
  <1>5. LocalPending = {ClientOf[k] : k \in {i \in Intents : RowWaits(i)}}
    <2>1. \A k \in Intents : registry[k].status \in {"ABSENT", "RESERVED", "FAILED", "NEW", "FILLED"}
      BY <1>1 DEF Rows, Acknowledgements
    <2> QED
      BY <2>1 DEF LocalPending, RowWaits, Terminal
  <1>6. OpenAtExchange \subseteq 1..Len(book)
    BY DEF OpenAtExchange
  <1>7. Inconsistencies.positions \in SUBSET Mismatches
    BY <1>1, PositionIssuesShape DEF Inconsistencies, PositionIssues
  <1>8. /\ Inconsistencies.waiting \in SUBSET Intents
        /\ Inconsistencies.orphans \in SUBSET Nat
    <2>1. Inconsistencies.waiting \subseteq Intents
      BY DEF Inconsistencies
    <2>2. Inconsistencies.orphans \subseteq OpenAtExchange
      BY DEF Inconsistencies
    <2>3. 1..Len(book) \subseteq Nat
      BY <1>2
    <2> QED
      BY <2>1, <2>2, <2>3, <1>6
  <1>9. Inconsistencies \in Findings
    BY <1>7, <1>8 DEF Inconsistencies, Findings
  <1>10. \A p \in Inconsistencies.positions :
            /\ p.symbol \in Symbols /\ p.local = paper[p.symbol]
            /\ p.exchange = position[p.symbol] /\ p.local # p.exchange
    BY DEF Inconsistencies
  <1>11. \A k \in Inconsistencies.waiting :
            ClientOf[k] \in LocalPending /\ ClientOf[k] \notin ExchangeOpen
    BY <1>4, <1>5 DEF Inconsistencies
  <1>12. \A n \in Inconsistencies.orphans :
            /\ n \in 1..Len(book)
            /\ ClientOf[book[n].intent] \in ExchangeOpen
            /\ ClientOf[book[n].intent] \notin LocalPending
    BY <1>4, <1>5, <1>6 DEF Inconsistencies
  <1> QED
    BY <1>9, <1>10, <1>11, <1>12 DEF WellFound

\* What still stands stood before, and is wrong now.
LEMMA StillThereShape ==
  ASSUME NEW old \in Findings, NEW new \in Findings
  PROVE  /\ StillThere(old, new) \in Findings
         /\ StillThere(old, new).positions = old.positions \cap new.positions
         /\ StillThere(old, new).waiting = old.waiting \cap new.waiting
         /\ StillThere(old, new).orphans = old.orphans \cap new.orphans
  BY DEF StillThere, Findings

LEMMA NothingShape ==
  /\ Nothing \in Findings
  /\ Nothing.positions = {} /\ Nothing.waiting = {} /\ Nothing.orphans = {}
  /\ \A st \in Findings : st.positions = {} /\ st.waiting = {} /\ st.orphans = {} => st = Nothing
  BY DEF Nothing, Findings

\* The orders in the book keep their places and their intents.
LEMMA BookGrows ==
  ASSUME OrdersInv, Next
  PROVE  \A n \in 1..Len(book) : n \in 1..Len(book') /\ book'[n].intent = book[n].intent
  <1>1. book \in Seq(Orders) /\ Len(book) \in Nat
    BY DEF OrdersInv, Shape
  <1>2. CASE book' = book
    BY <1>2
  <1>3. CASE \E k \in Intents, ack \in Acknowledgements : ExchangeAccepts(k, ack)
    <2>1. PICK o \in Orders : book' = Append(book, o)
      <3>1. PICK k \in Intents, ack \in Acknowledgements : ExchangeAccepts(k, ack)
        BY <1>3
      <3>2. [intent |-> k, acknowledged |-> ack, status |-> ack] \in Orders
        BY DEF Orders
      <3> QED
        BY <3>1, <3>2 DEF ExchangeAccepts
    <2> QED
      BY <1>1, <2>1, AppendedBook
  <1>4. CASE \E n \in 1..Len(book) : OrderFills(n) \/ OrderCanceled(n)
    <2>1. PICK n \in 1..Len(book), s \in {"FILLED", "CANCELED"} :
              book' = [book EXCEPT ![n].status = s]
      BY <1>4 DEF OrderFills, OrderCanceled
    <2>2. book[n] \in Orders
      BY <1>1
    <2> QED
      BY <1>1, <2>1, <2>2 DEF Orders
  <1>5. \/ book' = book
        \/ \E k \in Intents, ack \in Acknowledgements : ExchangeAccepts(k, ack)
        \/ \E n \in 1..Len(book) : OrderFills(n) \/ OrderCanceled(n)
    BY DEF Next, GuardedCreate, Create, Send, OrdersMove, CallsEnd, AnswerArrives, CallFails,
           FinalizeFails,
           ExchangeNext, RequestLost, PositionClosed, PaperMoves, StartReconcile,
           ReadPositions, ReadOpenOrders, InsertReport, ReconcileFails, CrashAll, Crash,
           orderVars
  <1> QED
    BY <1>2, <1>3, <1>4, <1>5

\* What a step does to a reconciliation.
LEMMA ReconMoves ==
  ASSUME GuardTypeOK, Next, NEW r \in Reconcilers
  PROVE  \/ recon'[r] = recon[r]
         \/ recon'[r] = NotRunning
         \/ StartReconcile(r)
         \/ ReadPositions(r)
         \/ ReadOpenOrders(r)
  <1>1. DOMAIN recon = Reconcilers
    BY DEF GuardTypeOK
  <1>2. \/ recon' = recon
        \/ \E q \in Reconcilers : \/ StartReconcile(q) \/ ReadPositions(q) \/ ReadOpenOrders(q)
                                  \/ InsertReport(q) \/ ReconcileFails(q)
        \/ CrashAll
    BY DEF Next, GuardedCreate, OrdersMove, PaperMoves
  <1>3. CASE \E q \in Reconcilers : \/ StartReconcile(q) \/ ReadPositions(q)
                                   \/ ReadOpenOrders(q)
                                   \/ InsertReport(q) \/ ReconcileFails(q)
    BY <1>1, <1>3 DEF StartReconcile, ReadPositions, ReadOpenOrders, InsertReport, ReconcileFails
  <1>4. CASE CrashAll
    BY <1>4 DEF CrashAll
  <1> QED
    BY <1>2, <1>3, <1>4

LEMMA InconsistenciesShapeNext == OrdersInv' /\ GuardTypeOK' => WellFound'
  BY InconsistenciesShape, PTL

LEMMA ReconciledStep ==
  ASSUME OrdersInv, OrdersInv', GuardTypeOK, GuardTypeOK', Reconciled, Next
  PROVE  Reconciled'
  <1>1. WellFound'
    BY InconsistenciesShapeNext
  <1>2. Inconsistencies' \in Findings
    BY <1>1 DEF WellFound
  <1>3. standing \in [Reconcilers -> Findings]
    BY DEF Reconciled
  <1>4. /\ standing' \in [Reconcilers -> Findings]
        /\ \A r \in Reconcilers :
              /\ recon'[r] = NotRunning => standing'[r] = Nothing
              /\ recon'[r] # NotRunning /\ recon[r] = NotRunning =>
                     standing'[r] = Inconsistencies'
              /\ recon'[r] # NotRunning /\ recon[r] # NotRunning =>
                     standing'[r] = StillThere(standing[r], Inconsistencies')
    <2>1. TrackStanding
      BY DEF Next
    <2> HIDE DEF Inconsistencies
    <2>2. \A r \in Reconcilers : StillThere(standing[r], Inconsistencies') \in Findings
      BY <1>2, <1>3, StillThereShape
    <2> QED
      BY <1>2, <2>1, <2>2, NothingShape DEF TrackStanding
  <1>5. ASSUME NEW r \in Reconcilers
        PROVE  Knows(recon'[r], standing'[r], book')
    <2>1. recon[r] \in Progress /\ recon'[r] \in Progress
      BY DEF GuardTypeOK
    <2>2. Knows(recon[r], standing[r], book)
      BY DEF Reconciled
    <2>3. CASE recon'[r] = NotRunning
      BY <2>3 DEF Knows, NotRunning
    <2>4. CASE recon'[r] # NotRunning /\ recon[r] = NotRunning
      <3>1. StartReconcile(r)
        BY <2>4, ReconMoves DEF ReadPositions, ReadOpenOrders, NotRunning
      <3>2. /\ recon'[r] = [phase |-> "positions", positions |-> paper, pending |-> LocalPending]
            /\ paper' = paper /\ registry' = registry
        BY <3>1 DEF StartReconcile, orderVars, GuardTypeOK
      <3>3. LocalPending' = LocalPending
        BY <3>2 DEF LocalPending
      <3>4. standing'[r] = Inconsistencies'
        BY <1>4, <2>4
      <3>5. PositionsWereRead(recon'[r], standing'[r])
        BY <1>1, <3>2, <3>4 DEF WellFound, PositionsWereRead
      <3>6. PendingWasRead(recon'[r], standing'[r], book')
        BY <1>1, <3>2, <3>3, <3>4 DEF WellFound, PendingWasRead
      <3> QED
        BY <3>2, <3>5, <3>6 DEF Knows
    <2>5. CASE recon'[r] # NotRunning /\ recon[r] # NotRunning
      <3>1. /\ standing'[r] \in Findings
            /\ standing'[r].positions = standing[r].positions \cap (Inconsistencies').positions
            /\ standing'[r].waiting = standing[r].waiting \cap (Inconsistencies').waiting
            /\ standing'[r].orphans = standing[r].orphans \cap (Inconsistencies').orphans
        <4> HIDE DEF Inconsistencies
        <4> QED
          BY <1>2, <1>3, <1>4, <2>5, StillThereShape
      <3>2. PendingWasRead(recon[r], standing[r], book) =>
                PendingWasRead(recon[r], standing'[r], book')
        BY <3>1, BookGrows DEF PendingWasRead
      <3>3. CASE recon'[r] = recon[r]
        <4>1. PositionsWereRead(recon[r], standing[r]) =>
                  PositionsWereRead(recon[r], standing'[r])
          BY <3>1 DEF PositionsWereRead
        <4>2. standing[r].positions = {} => standing'[r].positions = {}
          BY <3>1
        <4>3. standing[r] = Nothing => standing'[r] = Nothing
          BY <3>1, NothingShape
        <4> QED
          BY <2>2, <3>2, <3>3, <4>1, <4>2, <4>3 DEF Knows
      <3>4. CASE ReadPositions(r)
        <4>1. /\ recon[r].phase = "positions"
              /\ recon'[r] = [phase   |-> "orders",
                              found   |-> PositionIssues(recon[r].positions, position),
                              pending |-> recon[r].pending]
              /\ position' = position
          BY <3>4 DEF ReadPositions, orderVars, GuardTypeOK
        <4>2. ASSUME NEW p \in standing'[r].positions
              PROVE  PositionIssues(recon[r].positions, position) # {}
          <5>1. recon[r].positions[p.symbol] = p.local
            BY <2>2, <3>1, <4>1 DEF Knows, PositionsWereRead
          <5>2. /\ p.symbol \in Symbols /\ p.exchange = position[p.symbol]
                /\ p.local # p.exchange
            BY <1>1, <3>1, <4>1 DEF WellFound
          <5> QED
            BY <5>1, <5>2 DEF PositionIssues
        <4>3. PendingWasRead(recon'[r], standing'[r], book')
          BY <2>2, <3>2, <4>1 DEF Knows, PendingWasRead
        <4> QED
          BY <4>1, <4>2, <4>3 DEF Knows
      <3>5. CASE ReadOpenOrders(r)
        <4> DEFINE b == recon[r].found = {} /\ OrderIssues(recon[r].pending, ExchangeOpen) = {}
        <4>1. /\ recon[r].phase = "orders"
              /\ recon'[r] = [phase |-> "insert", clean |-> b]
              /\ registry' = registry /\ book' = book
          BY <3>5 DEF ReadOpenOrders, orderVars, GuardTypeOK
        <4>2. ASSUME b PROVE standing'[r] = Nothing
          <5>1. /\ standing[r].positions = {}
                /\ PendingWasRead(recon[r], standing'[r], book')
            BY <2>2, <3>2, <4>1, <4>2 DEF Knows
          <5>2. recon[r].pending = ExchangeOpen
            BY <4>2 DEF OrderIssues
          <5>3. ExchangeOpen' = ExchangeOpen
            BY <4>1 DEF ExchangeOpen
          <5>4. standing'[r].waiting = {}
            BY <1>1, <3>1, <5>1, <5>2, <5>3 DEF WellFound, PendingWasRead
          <5>5. standing'[r].orphans = {}
            BY <1>1, <3>1, <5>1, <5>2, <5>3 DEF WellFound, PendingWasRead
          <5> QED
            BY <3>1, <5>1, <5>4, <5>5, NothingShape
        <4> HIDE DEF b
        <4> QED
          BY <4>1, <4>2 DEF Knows
      <3> QED
        BY <2>5, <3>3, <3>4, <3>5, ReconMoves DEF StartReconcile
    <2> QED
      BY <2>3, <2>4, <2>5
  <1> QED
    BY <1>4, <1>5 DEF Reconciled

LEMMA ReconciledInvariant == Spec => []Reconciled
  <1>1. Init => Reconciled
    BY NothingShape DEF Init, Reconciled, Knows, NotRunning
  <1>2. /\ OrdersInv /\ OrdersInv' /\ GuardTypeOK /\ GuardTypeOK' /\ Reconciled
        /\ [Next]_vars
        => Reconciled'
    <2> SUFFICES ASSUME OrdersInv, OrdersInv', GuardTypeOK, GuardTypeOK', Reconciled, [Next]_vars
                 PROVE  Reconciled'
      OBVIOUS
    <2>1. CASE Next
      BY <2>1, ReconciledStep
    <2>2. CASE UNCHANGED vars
      BY <2>2 DEF vars, guardedVars, orderVars, Reconciled
    <2> QED
      BY <2>1, <2>2
  <1> QED
    BY <1>1, <1>2, GuardedOrdersInv, GuardTypeInvariant, PTL DEF Spec

\* A reconciliation never clears the orders while something stands that was
\* already wrong when it began, whatever else moves between its three reads.
THEOREM StandingIssuesReported == Spec => StandingIssuesAreReported
  <1>1. Reconciled /\ [Next]_vars =>
          [\A r \in Reconcilers :
              InsertReport(r) /\ standing[r] # Nothing => report' = "LOCKED"]_vars
    BY DEF Reconciled, Knows, InsertReport
  <1> QED
    BY <1>1, ReconciledInvariant, PTL DEF Spec, StandingIssuesAreReported
=============================================================================
