-------------------------- MODULE Infrastructure_proofs --------------------------
(***************************************************************************)
(* The two parts of the server everything else stands on.                  *)
(*                                                                         *)
(* stop() loses no event, for any number of jobs and requests and any size *)
(* of the queue, whatever is published while it runs; and how old a price  *)
(* may be, for every policy, any number of tasks and symbols, and whatever *)
(* the order in which requests end.                                        *)
(***************************************************************************)
EXTENDS KernelLifecycle, MarketDataCache, TLAPS

Working == worker \in {"waiting", "handling"}

Over == phase \in {"joined", "down"}

\* The queue holds the last events accepted, without a gap.
QueueIsTail == /\ queue \in Seq(Nat)
               /\ accepted \in Nat /\ Len(queue) <= accepted
               /\ \A i \in 1..Len(queue) : queue[i] = accepted - Len(queue) + i

\* What has left the queue is recorded, but for an event whose handler has not run.
RecordIsCurrent ==
    /\ recorded \in Nat
    /\ worker = "handling" => current = accepted - Len(queue)
    /\ recorded = accepted - Len(queue) - IF "persist" \in open THEN 1 ELSE 0

WorkIsCounted == /\ worker \in {"waiting", "handling", "done", "cancelled"}
                 /\ open # {} => worker = "handling"
                 /\ unfinished \in Nat
                 /\ ~Over => unfinished = Len(queue) + IF worker = "handling" THEN 1 ELSE 0

\* Where stop() is, and what it has already achieved there.
StopIsAt == /\ phase \in Phases
            /\ database <=> phase # "down"
            /\ stopping <=> phase \in {"joining", "joined", "down"}
            /\ ~stopping => Working /\ ~joined
            /\ phase = "joining" => worker # "cancelled"
            /\ joined => worker = "done"
            /\ Over => ~Working
            /\ mark \in Nat /\ mark <= accepted
            /\ joined \/ Over => recorded >= mark

StopInv == QueueIsTail /\ RecordIsCurrent /\ WorkIsCounted /\ StopIsAt

----------------------------------------------------------------------------
LEMMA FirstEvent == <<1>> \in Seq(Nat) /\ Len(<<1>>) = 1 /\ <<1>>[1] = 1
  OBVIOUS

LEMMA InitStops == Init => StopInv
  <1> SUFFICES ASSUME Init PROVE StopInv
    OBVIOUS
  <1>1. Len(queue) = 1 /\ queue \in Seq(Nat) /\ queue[1] = 1
    BY FirstEvent DEF Init, BusInit
  <1>2. QueueIsTail
    BY <1>1 DEF Init, BusInit, QueueIsTail
  <1>3. /\ recorded = 0 /\ accepted = 1 /\ unfinished = 1
        /\ worker = "waiting" /\ open = {} /\ "persist" \notin open
    BY DEF Init, BusInit
  <1>4. RecordIsCurrent
    <2>1. recorded \in Nat /\ worker # "handling" /\ "persist" \notin open
      BY <1>3
    <2>2. accepted - Len(queue) - 0 = recorded
      BY <1>1, <1>3
    <2> QED BY <2>1, <2>2 DEF RecordIsCurrent
  <1>5. WorkIsCounted
    BY <1>1, <1>3 DEF WorkIsCounted
  <1>6. StopIsAt
    BY DEF Init, BusInit, StopIsAt, Working, Over, Phases
  <1> QED BY <1>2, <1>4, <1>5, <1>6 DEF StopInv

LEMMA PutKeepsTail ==
  ASSUME QueueIsTail, Put
  PROVE  QueueIsTail' /\ Len(queue') = Len(queue) + 1 /\ accepted' = accepted + 1
  <1>1. Len(queue') = Len(queue) + 1 /\ queue' \in Seq(Nat)
    BY DEF QueueIsTail, Put
  <1>2. ASSUME NEW i \in 1..Len(queue')
        PROVE  queue'[i] = accepted' - Len(queue') + i
    <2>1. CASE i = Len(queue) + 1
      BY <2>1, <1>1 DEF QueueIsTail, Put
    <2>2. CASE i # Len(queue) + 1
      BY <2>2, <1>1 DEF QueueIsTail, Put
    <2> QED BY <2>1, <2>2
  <1> QED
    BY <1>1, <1>2 DEF QueueIsTail, Put

\* An event more in the queue changes nothing else that matters here.
LEMMA PutKeeps ==
  ASSUME StopInv, Put,
         UNCHANGED <<worker, current, open, stopping, recorded, database, lifeVars>>
  PROVE  StopInv'
  <1>1. QueueIsTail' /\ Len(queue') = Len(queue) + 1 /\ accepted' = accepted + 1
    BY PutKeepsTail DEF StopInv
  <1>2. accepted \in Nat /\ Len(queue) \in Nat
    BY DEF StopInv, QueueIsTail
  <1>3. accepted' - Len(queue') = accepted - Len(queue)
    BY <1>1, <1>2
  <1>4. RecordIsCurrent'
    BY <1>3 DEF StopInv, RecordIsCurrent
  <1>5. WorkIsCounted'
    BY <1>1, <1>2 DEF StopInv, WorkIsCounted, Put, lifeVars, Over
  <1>6. StopIsAt'
    BY <1>1, <1>2 DEF StopInv, StopIsAt, lifeVars, Over, Working
  <1> QED BY <1>1, <1>4, <1>5, <1>6 DEF StopInv

\* Steps of publishers that leave the queue alone.
LEMMA NothingPutKeeps ==
  ASSUME StopInv, UNCHANGED <<queue, accepted, unfinished, worker, current, open, stopping,
                              recorded, database, phase, joined, mark>>
  PROVE  StopInv'
  BY DEF StopInv, QueueIsTail, RecordIsCurrent, WorkIsCounted, StopIsAt, Working, Over

LEMMA PublishKeeps ==
  ASSUME StopInv, NEW p, Publish(p) \/ Admit(p), UNCHANGED lifeVars
  PROVE  StopInv'
  <1>1. CASE Put
    BY <1>1, PutKeeps DEF Publish, Admit
  <1>2. CASE ~Put
    BY <1>2, NothingPutKeeps DEF Publish, Admit, lifeVars
  <1> QED BY <1>1, <1>2

LEMMA TakeKeeps ==
  ASSUME StopInv, Take, UNCHANGED lifeVars
  PROVE  StopInv'
  <1>1. /\ queue # <<>> /\ queue \in Seq(Nat) /\ accepted \in Nat /\ Len(queue) <= accepted
        /\ worker = "waiting" /\ open = {}
    BY DEF StopInv, Take, QueueIsTail, WorkIsCounted
  <1>2. Len(queue) \in Nat \ {0} /\ Len(queue') = Len(queue) - 1 /\ queue' \in Seq(Nat)
    BY <1>1 DEF Take
  <1>3. \A i \in 1..Len(queue') : queue'[i] = queue[i + 1]
    BY <1>1, <1>2 DEF Take
  <1>4. QueueIsTail'
    BY <1>1, <1>2, <1>3 DEF StopInv, Take, QueueIsTail
  <1>5. current' = accepted' - Len(queue')
    BY <1>1, <1>2 DEF StopInv, Take, QueueIsTail
  <1>6. "persist" \in open' /\ "persist" \notin open
    BY <1>1 DEF Take, Handlers
  <1>7. recorded' = accepted' - Len(queue') - 1
    BY <1>1, <1>2, <1>6 DEF StopInv, Take, RecordIsCurrent
  <1>8. RecordIsCurrent'
    BY <1>5, <1>6, <1>7 DEF StopInv, Take, RecordIsCurrent
  <1>9. WorkIsCounted'
    <2>1. ~Over' => unfinished' = Len(queue') + 1
      BY <1>1, <1>2 DEF StopInv, Take, WorkIsCounted, lifeVars, Over
    <2>2. worker' = "handling" /\ unfinished' \in Nat
      BY DEF StopInv, Take, WorkIsCounted
    <2> QED BY <2>1, <2>2 DEF WorkIsCounted
  <1>10. StopIsAt'
    BY <1>1 DEF StopInv, Take, StopIsAt, lifeVars, Over, Working
  <1> QED BY <1>4, <1>8, <1>9, <1>10 DEF StopInv

LEMMA PersistRecords ==
  ASSUME StopInv, Persist
  PROVE  recorded' = recorded + 1 /\ recorded' = accepted - Len(queue)
  <1>1. worker = "handling" /\ database
    BY DEF StopInv, Persist, WorkIsCounted, StopIsAt, Over, Working
  <1>2. accepted \in Nat /\ Len(queue) \in Nat
    BY DEF StopInv, QueueIsTail
  <1> QED
    BY <1>1, <1>2 DEF StopInv, Persist, RecordIsCurrent

LEMMA PersistKeeps ==
  ASSUME StopInv, Persist, UNCHANGED lifeVars
  PROVE  StopInv'
  <1>1. recorded' = recorded + 1 /\ recorded' = accepted - Len(queue)
    BY PersistRecords
  <1>2. worker = "handling" /\ "persist" \notin open' /\ recorded \in Nat
    BY DEF StopInv, Persist, WorkIsCounted, RecordIsCurrent
  <1>3. QueueIsTail'
    BY DEF StopInv, Persist, QueueIsTail
  <1>4. RecordIsCurrent'
    BY <1>1, <1>2 DEF StopInv, Persist, RecordIsCurrent
  <1>5. WorkIsCounted'
    BY <1>2 DEF StopInv, Persist, WorkIsCounted, lifeVars, Over
  <1>6. StopIsAt'
    BY <1>1, <1>2 DEF StopInv, Persist, StopIsAt, lifeVars, Over, Working
  <1> QED BY <1>3, <1>4, <1>5, <1>6 DEF StopInv

LEMMA NotifyKeeps ==
  ASSUME StopInv, NotifyEnds, UNCHANGED lifeVars
  PROVE  StopInv'
  <1>1. worker = "handling" /\ ("persist" \in open' <=> "persist" \in open)
    BY DEF StopInv, NotifyEnds, WorkIsCounted
  <1> QED
    BY <1>1 DEF StopInv, NotifyEnds, QueueIsTail, RecordIsCurrent, WorkIsCounted, StopIsAt,
                lifeVars, Over, Working

LEMMA FinishKeeps ==
  ASSUME StopInv, WorkerFinishes
  PROVE  StopInv'
  <1>1. worker = "handling" /\ open = {} /\ ~Over /\ ~joined
    BY DEF StopInv, WorkerFinishes, Finish, StopIsAt, Working
  <1>2. accepted \in Nat /\ Len(queue) \in Nat /\ queue \in Seq(Nat) /\ mark \in Nat /\ mark <= accepted
    BY DEF StopInv, QueueIsTail, StopIsAt
  <1>3. unfinished = Len(queue) + 1 /\ unfinished' = Len(queue)
    BY <1>1, <1>2 DEF StopInv, WorkIsCounted, WorkerFinishes, Finish
  <1>4. recorded = accepted - Len(queue)
    BY <1>1, <1>2 DEF StopInv, RecordIsCurrent
  <1>5. QueueIsTail' /\ RecordIsCurrent'
    BY <1>1, <1>4 DEF StopInv, WorkerFinishes, Finish, QueueIsTail, RecordIsCurrent
  <1>6. WorkIsCounted'
    BY <1>1, <1>2, <1>3 DEF StopInv, WorkerFinishes, Finish, WorkIsCounted, Over
  <1>7. joined' => phase = "joining" /\ queue = <<>> /\ recorded >= mark
    <2>1. joined' => phase = "joining" /\ unfinished' = 0
      BY <1>1 DEF WorkerFinishes
    <2>2. unfinished' = 0 => Len(queue) = 0
      BY <1>3
    <2>3. Len(queue) = 0 => queue = <<>> /\ recorded >= mark
      BY <1>2, <1>4
    <2> QED BY <2>1, <2>2, <2>3
  <1>8. joined' => worker' = "done"
    BY <1>7 DEF StopInv, StopIsAt, WorkerFinishes, Finish
  <1>9. StopIsAt'
    BY <1>1, <1>7, <1>8 DEF StopInv, StopIsAt, WorkerFinishes, Finish, Over, Working
  <1> QED BY <1>5, <1>6, <1>9 DEF StopInv

LEMMA JobEndKeeps ==
  ASSUME StopInv, NEW j \in Jobs, JobEnds(j)
  PROVE  StopInv'
  BY NothingPutKeeps DEF JobEnds

LEMMA PhaseKeeps ==
  ASSUME StopInv, CancelJobs \/ ServicesStop
  PROVE  StopInv'
  BY DEF StopInv, CancelJobs, ServicesStop, busVars, QueueIsTail, RecordIsCurrent,
         WorkIsCounted, StopIsAt, Over, Working, Phases

LEMMA BeginKeeps ==
  ASSUME StopInv, StopBegins
  PROVE  StopInv'
  <1>1. CASE Put
    <2>1. QueueIsTail' /\ Len(queue') = Len(queue) + 1 /\ accepted' = accepted + 1
      BY <1>1, PutKeepsTail DEF StopInv
    <2>2. accepted \in Nat /\ Len(queue) \in Nat
      BY DEF StopInv, QueueIsTail
    <2>3. accepted' - Len(queue') = accepted - Len(queue)
      BY <2>1, <2>2
    <2>4. RecordIsCurrent'
      BY <2>3 DEF StopInv, RecordIsCurrent, StopBegins, Publish
    <2>5. WorkIsCounted'
      BY <1>1, <2>1, <2>2 DEF StopInv, WorkIsCounted, Put, StopBegins, Publish, Over
    <2>6. StopIsAt'
      BY <2>1, <2>2 DEF StopInv, StopIsAt, StopBegins, Publish, Over, Working, Phases
    <2> QED BY <2>1, <2>4, <2>5, <2>6 DEF StopInv
  <1>2. CASE ~Put
    BY <1>2 DEF StopInv, StopBegins, Publish, QueueIsTail, RecordIsCurrent,
                WorkIsCounted, StopIsAt, Over, Working, Phases
  <1> QED BY <1>1, <1>2

LEMMA BusStopsKeeps ==
  ASSUME StopInv, BusStops
  PROVE  StopInv'
  <1>1. /\ phase = "closing" /\ ~stopping /\ ~joined /\ Working /\ ~Over
        /\ accepted \in Nat /\ Len(queue) \in Nat /\ recorded \in Nat
        /\ unfinished = Len(queue) + IF worker = "handling" THEN 1 ELSE 0
    BY DEF StopInv, BusStops, StopIsAt, QueueIsTail, RecordIsCurrent, WorkIsCounted, Over
  <1>2. QueueIsTail' /\ mark' = accepted
    BY DEF StopInv, BusStops, QueueIsTail
  <1>3. CASE unfinished = 0
    <2>1. Len(queue) = 0 /\ worker = "waiting" /\ open = {}
      BY <1>1, <1>3 DEF StopInv, WorkIsCounted, Working
    <2>2. recorded = accepted
      BY <1>1, <2>1 DEF StopInv, RecordIsCurrent
    <2>3. RecordIsCurrent'
      BY <1>3, <2>1 DEF StopInv, BusStops, RecordIsCurrent
    <2>4. WorkIsCounted'
      BY <1>3 DEF StopInv, BusStops, WorkIsCounted, Over
    <2>5. StopIsAt'
      BY <1>1, <1>3, <2>2 DEF StopInv, BusStops, StopIsAt, Over, Working, Phases
    <2> QED BY <1>2, <2>3, <2>4, <2>5 DEF StopInv
  <1>4. CASE unfinished # 0
    <2>1. RecordIsCurrent'
      BY <1>4 DEF StopInv, BusStops, RecordIsCurrent
    <2>2. WorkIsCounted'
      BY <1>1, <1>4 DEF StopInv, BusStops, WorkIsCounted, Over
    <2>3. StopIsAt'
      BY <1>1, <1>4 DEF StopInv, BusStops, StopIsAt, Over, Working, Phases
    <2> QED BY <1>2, <2>1, <2>2, <2>3 DEF StopInv
  <1> QED BY <1>3, <1>4

LEMMA BusStoppedKeeps ==
  ASSUME StopInv, BusStopped
  PROVE  StopInv'
  <1>1. worker = "done" /\ worker' = "done" /\ open = {} /\ open' = {} /\ recorded >= mark
    BY DEF StopInv, BusStopped, StopIsAt, WorkIsCounted
  <1> QED
    BY <1>1 DEF StopInv, BusStopped, QueueIsTail, RecordIsCurrent, WorkIsCounted, StopIsAt,
                Over, Working, Phases

LEMMA DatabaseKeeps ==
  ASSUME StopInv, DatabaseStops
  PROVE  StopInv'
  BY DEF StopInv, DatabaseStops, QueueIsTail, RecordIsCurrent, WorkIsCounted, StopIsAt,
         Over, Working, Phases

LEMMA NextStops == StopInv /\ [Next]_vars => StopInv'
  <1> SUFFICES ASSUME StopInv, [Next]_vars PROVE StopInv'
    OBVIOUS
  <1>1. ASSUME NEW p, JobPublishes(p) \/ ClientPublishes(p) \/ Admitted(p) PROVE StopInv'
    BY <1>1, PublishKeeps DEF JobPublishes, ClientPublishes, Admitted
  <1>2. ASSUME NEW j \in Jobs, JobEnds(j) PROVE StopInv'
    BY <1>2, JobEndKeeps
  <1>3. CASE WorkerRuns
    BY <1>3, TakeKeeps, PersistKeeps, NotifyKeeps DEF WorkerRuns
  <1>4. CASE WorkerFinishes
    BY <1>4, FinishKeeps
  <1>5. CASE StopBegins
    BY <1>5, BeginKeeps
  <1>6. CASE Stopping
    BY <1>6, PhaseKeeps, BusStopsKeeps, BusStoppedKeeps, DatabaseKeeps DEF Stopping
  <1>7. CASE UNCHANGED vars
    BY <1>7, NothingPutKeeps DEF vars
  <1> QED
    BY <1>1, <1>2, <1>3, <1>4, <1>5, <1>6, <1>7 DEF Next

THEOREM StopInvariant == Spec => []StopInv
  BY InitStops, NextStops, PTL DEF Spec

----------------------------------------------------------------------------
\* Every event accepted before the bus is told to stop has been through
\* _persist_event when the database closes (Kernel.stop(), EventBus.stop()).
THEOREM StopDrains == Spec => []DrainedStop
  <1>1. StopInv => DrainedStop
    BY DEF StopInv, StopIsAt, DrainedStop, Over
  <1> QED
    BY <1>1, StopInvariant, PTL

\* No event is skipped and none overtakes another on its way to the record.
THEOREM RecordingIsOrdered == Spec => RecordedInOrder
  <1>1. ASSUME StopInv, [Next]_vars
        PROVE  [recorded' # recorded => recorded' = recorded + 1]_vars
    <2>1. CASE Persist
      BY <1>1, <2>1, PersistRecords
    <2>2. CASE ~Persist
      <3>1. UNCHANGED recorded
        BY <1>1, <2>2 DEF Next, vars, lifeVars, busVars, JobPublishes, ClientPublishes, Admitted,
           Publish, Admit, JobEnds, WorkerRuns, WorkerFinishes, Take, NotifyEnds, Finish,
           StopBegins, Stopping, CancelJobs, ServicesStop, BusStops, BusStopped, DatabaseStops
      <3> QED BY <3>1
    <2> QED BY <2>1, <2>2
  <1> QED
    BY <1>1, StopInvariant, PTL DEF Spec, RecordedInOrder

----------------------------------------------------------------------------
(* The prices.                                                             *)

\* A stamp is not of the future.
Past == {None} \cup 0..now

MarketShape == /\ now \in Nat
               /\ cache \in [Symbols -> Past]
               /\ universe \in Past /\ lastFailure \in Past
               /\ asking \in [Tasks -> Asking]
               /\ answer \in [age : Int, stale : BOOLEAN]

\* No request is older than the timeouts allow.
RequestsAreRecent == \A t \in Tasks : InFlight(t) =>
    asking[t].at \in 0..now /\ now - asking[t].at <= RequestTime

MarketInv == MarketShape /\ RequestsAreRecent /\ FreshAnswersAreRecent

----------------------------------------------------------------------------
LEMMA AskingFields ==
  ASSUME NEW x \in Asking
  PROVE  /\ x.step \in {"idle", "waiting", "ticker", "universe"}
         /\ x.step = "idle" <=> x = Idle
         /\ x.step \in {"waiting", "ticker"} => x.symbol \in Symbols
         /\ x.step \in {"ticker", "universe"} => x.at \in Nat
  BY DEF Asking, Idle

LEMMA AskingShapes ==
  /\ Idle \in Asking
  /\ \A s \in Symbols : [step |-> "waiting", symbol |-> s] \in Asking
  /\ \A s \in Symbols, a \in Nat : [step |-> "ticker", symbol |-> s, at |-> a] \in Asking
  /\ \A a \in Nat : [step |-> "universe", at |-> a] \in Asking
  BY DEF Asking

\* What the answers say of their age.
AnswerIsSound == /\ answer' \in [age : Int, stale : BOOLEAN]
                 /\ FreshAnswersAreRecent'

LEMMA KeptAnswer == MarketInv /\ UNCHANGED answer => AnswerIsSound
  BY DEF MarketInv, MarketShape, FreshAnswersAreRecent, AnswerIsSound

\* An answer that is recent, or marked stale.
LEMMA GivenAnswer ==
  ASSUME MarketInv, NEW a \in 0..now, NEW b \in BOOLEAN, Answer(a, b),
         b \/ now - a <= StaleAfter + RequestTime
  PROVE  AnswerIsSound
  <1>1. now - a \in Int
    BY DEF MarketInv, MarketShape
  <1>2. answer' = [age |-> now - a, stale |-> b]
    BY DEF Answer
  <1>3. answer'.age = now - a /\ answer'.stale = b
    BY <1>2
  <1> QED
    BY <1>1, <1>2, <1>3 DEF AnswerIsSound, FreshAnswersAreRecent

LEMMA CachedAnswer ==
  ASSUME MarketInv, NEW s \in Symbols, NEW t \in 0..now, now - t <= RequestTime,
         CachedOrRaise(s, t)
  PROVE  AnswerIsSound
  <1>1. CASE ~IsStamp(cache[s])
    BY <1>1, KeptAnswer DEF CachedOrRaise
  <1>2. CASE IsStamp(cache[s])
    <2> DEFINE b == t - cache[s] > StaleAfter
    <2>1. cache[s] \in 0..now
      BY <1>2 DEF MarketInv, MarketShape, Past, IsStamp
    <2>2. Answer(cache[s], b)
      BY <1>2 DEF CachedOrRaise
    <2>3. b \/ now - cache[s] <= StaleAfter + RequestTime
      BY <2>1, MarketAssumption DEF MarketInv, MarketShape
    <2>4. b \in BOOLEAN
      OBVIOUS
    <2> HIDE DEF b
    <2> QED
      BY <2>1, <2>2, <2>3, <2>4, GivenAnswer
  <1> QED
    BY <1>1, <1>2

LEMMA FreshAnswer ==
  ASSUME MarketInv, NEW a \in Past, IsFresh(a), Answer(a, FALSE)
  PROVE  AnswerIsSound
  <1>1. a \in 0..now
    BY DEF IsFresh, IsStamp, Past
  <1>2. now - a <= StaleAfter + RequestTime
    BY <1>1, MarketAssumption DEF IsFresh, MarketInv, MarketShape
  <1> QED
    BY <1>1, <1>2, GivenAnswer

LEMMA AnswerFromCacheIsSound ==
  ASSUME MarketInv, NEW s \in Symbols, AnswerFromCache(s)
  PROVE  AnswerIsSound
  <1>1. now \in 0..now /\ now - now <= RequestTime /\ cache[s] \in Past
    BY MarketAssumption DEF MarketInv, MarketShape
  <1>2. CASE IsFresh(cache[s])
    BY <1>1, <1>2, FreshAnswer DEF AnswerFromCache
  <1>3. CASE ~IsFresh(cache[s])
    BY <1>1, <1>3, CachedAnswer DEF AnswerFromCache
  <1> QED
    BY <1>2, <1>3

LEMMA ReplyIsSound ==
  ASSUME MarketInv, NEW t \in Tasks, Reply(t)
  PROVE  AnswerIsSound
  <1>1. /\ asking[t] \in Asking
        /\ InFlight(t) => asking[t].at \in 0..now /\ now - asking[t].at <= RequestTime
    BY DEF MarketInv, MarketShape, RequestsAreRecent
  <1>2. CASE TickerArrives(t) \/ UniverseArrives(t)
    <2>1. InFlight(t) /\ Answer(asking[t].at, FALSE)
      BY <1>2 DEF TickerArrives, UniverseArrives, InFlight
    <2>2. now - asking[t].at <= StaleAfter + RequestTime
      BY <1>1, <2>1, MarketAssumption DEF MarketInv, MarketShape
    <2> QED
      BY <1>1, <2>1, <2>2, GivenAnswer
  <1>3. CASE TickerFails(t)
    <2>1. /\ InFlight(t) /\ asking[t].symbol \in Symbols
          /\ CachedOrRaise(asking[t].symbol, asking[t].at)
      BY <1>1, <1>3, AskingFields DEF TickerFails, InFlight
    <2> QED
      BY <1>1, <2>1, CachedAnswer
  <1>4. CASE UniverseFails(t)
    <2>1. CASE IsStamp(universe)
      <3>1. universe \in 0..now /\ Answer(universe, TRUE)
        BY <1>4, <2>1 DEF UniverseFails, MarketInv, MarketShape, Past, IsStamp
      <3> QED
        BY <3>1, GivenAnswer
    <2>2. CASE ~IsStamp(universe)
      BY <1>4, <2>2, KeptAnswer DEF UniverseFails
    <2> QED
      BY <2>1, <2>2
  <1> QED
    BY <1>2, <1>3, <1>4 DEF Reply

----------------------------------------------------------------------------
LEMMA MarketInitially == MarketInit => MarketInv
  <1> SUFFICES ASSUME MarketInit PROVE MarketInv
    OBVIOUS
  <1>1. now = 0 /\ 0 \in Past
    BY DEF MarketInit, ClockInit, Past
  <1>2. MarketShape
    BY <1>1, AskingShapes DEF MarketInit, MarketShape, Past
  <1>3. RequestsAreRecent
    BY DEF MarketInit, RequestsAreRecent, InFlight, Idle
  <1>4. FreshAnswersAreRecent
    BY MarketAssumption DEF MarketInit, FreshAnswersAreRecent
  <1> QED
    BY <1>2, <1>3, <1>4 DEF MarketInv

\* The requests a step leaves in flight, or begins.
LEMMA RequestsStep ==
  ASSUME MarketInv, MarketNext
  PROVE  asking' \in [Tasks -> Asking] /\ RequestsAreRecent'
  <1>1. now \in Nat /\ asking \in [Tasks -> Asking]
    BY DEF MarketInv, MarketShape
  <1>2. CASE TimePasses
    <2>1. now' = now + 1 /\ asking' = asking
      BY <1>2 DEF TimePasses, Advance
    <2>2. \A t \in Tasks : InFlight(t) => now - asking[t].at < RequestTime
      BY <1>2 DEF TimePasses
    <2>3. \A t \in Tasks : InFlight(t) => asking[t].at \in 0..now
      BY DEF MarketInv, RequestsAreRecent
    <2> QED
      BY <1>1, <2>1, <2>2, <2>3, MarketAssumption DEF RequestsAreRecent, InFlight
  <1>3. CASE now' = now /\ \/ asking' = asking
                           \/ \E t \in Tasks : asking' = [asking EXCEPT ![t] = Idle]
    BY <1>1, <1>3, AskingShapes DEF MarketInv, RequestsAreRecent, InFlight, Idle
  <1>4. ASSUME now' = now, NEW t \in Tasks, NEW s \in Symbols,
               asking' = [asking EXCEPT ![t] = [step |-> "waiting", symbol |-> s]]
        PROVE  asking' \in [Tasks -> Asking] /\ RequestsAreRecent'
    BY <1>1, <1>4, AskingShapes DEF MarketInv, RequestsAreRecent, InFlight
  <1>5. ASSUME now' = now, NEW t \in Tasks, NEW s \in Symbols,
               asking' = [asking EXCEPT ![t] = [step |-> "ticker", symbol |-> s, at |-> now]]
        PROVE  asking' \in [Tasks -> Asking] /\ RequestsAreRecent'
    BY <1>1, <1>5, AskingShapes, MarketAssumption DEF MarketInv, RequestsAreRecent, InFlight
  <1>6. ASSUME now' = now, NEW t \in Tasks,
               asking' = [asking EXCEPT ![t] = [step |-> "universe", at |-> now]]
        PROVE  asking' \in [Tasks -> Asking] /\ RequestsAreRecent'
    BY <1>1, <1>6, AskingShapes, MarketAssumption DEF MarketInv, RequestsAreRecent, InFlight
  <1>7. ASSUME NEW t \in Tasks, NEW s \in Symbols, RequestTicker(t, s)
        PROVE  asking' \in [Tasks -> Asking] /\ RequestsAreRecent'
    BY <1>3, <1>4, <1>5, <1>7 DEF RequestTicker, AskExchange
  <1>8. ASSUME NEW t \in Tasks, Resume(t)
        PROVE  asking' \in [Tasks -> Asking] /\ RequestsAreRecent'
    <2>1. asking[t].symbol \in Symbols
      BY <1>1, <1>8, AskingFields DEF Resume
    <2> QED
      BY <1>3, <1>5, <1>8, <2>1 DEF Resume, AskExchange, FinishRequest
  <1>9. ASSUME NEW t \in Tasks, RequestUniverse(t)
        PROVE  asking' \in [Tasks -> Asking] /\ RequestsAreRecent'
    BY <1>3, <1>6, <1>9 DEF RequestUniverse
  <1>10. ASSUME NEW t \in Tasks, Reply(t) \/ Cancel(t)
         PROVE  asking' \in [Tasks -> Asking] /\ RequestsAreRecent'
    BY <1>3, <1>10 DEF Reply, TickerArrives, TickerFails, UniverseArrives, UniverseFails,
                       Cancel, FinishRequest
  <1>11. CASE Stop
    BY <1>3, <1>11 DEF Stop
  <1> QED
    BY <1>2, <1>7, <1>8, <1>9, <1>10, <1>11 DEF MarketNext

\* A snapshot is kept, or replaced by that of a request that was in flight.
KeptOrRecent(s) == \/ cache'[s] = cache[s]
                   \/ cache'[s] \in 0..now /\ now - cache'[s] <= RequestTime

\* No step writes a stamp of the future, and none of a request that is too old.
LEMMA StampsStep ==
  ASSUME MarketInv, MarketNext
  PROVE  /\ now' \in Nat /\ now <= now'
         /\ cache' \in [Symbols -> Past]
         /\ \A s \in Symbols : KeptOrRecent(s)
         /\ universe' \in Past /\ lastFailure' \in Past
  <1>1. /\ now \in Nat /\ cache \in [Symbols -> Past]
        /\ universe \in Past /\ lastFailure \in Past
        /\ now \in Past /\ None \in Past
    BY DEF MarketInv, MarketShape, Past
  <1>2. ASSUME NEW t \in Tasks, Reply(t)
        PROVE  /\ now' = now
               /\ cache' \in [Symbols -> Past]
               /\ \A s \in Symbols : KeptOrRecent(s)
               /\ universe' \in Past /\ lastFailure' \in Past
    <2>1. /\ asking[t] \in Asking
          /\ InFlight(t) => asking[t].at \in 0..now /\ now - asking[t].at <= RequestTime
      BY DEF MarketInv, MarketShape, RequestsAreRecent
    <2>2. CASE TickerArrives(t)
      <3>1. InFlight(t) /\ asking[t].symbol \in Symbols
        BY <2>1, <2>2, AskingFields DEF TickerArrives, InFlight
      <3> QED
        BY <1>1, <2>1, <2>2, <3>1 DEF TickerArrives, Past, KeptOrRecent
    <2>3. CASE UniverseArrives(t)
      BY <1>1, <2>1, <2>3 DEF UniverseArrives, InFlight, Past, KeptOrRecent
    <2>4. CASE TickerFails(t) \/ UniverseFails(t)
      BY <1>1, <2>4 DEF TickerFails, UniverseFails, KeptOrRecent
    <2> QED
      BY <1>2, <2>2, <2>3, <2>4 DEF Reply
  <1>4. now' \in Nat /\ now <= now'
    <2>1. now' = now \/ now' = now + 1
      BY DEF MarketNext, RequestTicker, RequestUniverse, Resume, Reply, TickerArrives, TickerFails,
             UniverseArrives, UniverseFails, Cancel, Stop, TimePasses, Advance
    <2> QED
      BY <1>1, <2>1
  <1>3. CASE ~\E t \in Tasks : Reply(t)
    <2>1. cache' = cache /\ universe' = universe /\ lastFailure' = lastFailure
      BY <1>3 DEF MarketNext, RequestTicker, RequestUniverse, Resume, Cancel, Stop, TimePasses
    <2> QED
      BY <1>1, <1>4, <2>1 DEF KeptOrRecent
  <1> QED
    BY <1>2, <1>3, <1>4

LEMMA AnswersStep ==
  ASSUME MarketInv, MarketNext
  PROVE  AnswerIsSound
  <1>1. CASE UNCHANGED answer
    BY <1>1, KeptAnswer
  <1>2. ASSUME NEW s \in Symbols, AnswerFromCache(s) PROVE AnswerIsSound
    BY <1>2, AnswerFromCacheIsSound
  <1>3. ASSUME NEW t \in Tasks, NEW s \in Symbols, RequestTicker(t, s) PROVE AnswerIsSound
    BY <1>1, <1>2, <1>3 DEF RequestTicker
  <1>4. ASSUME NEW t \in Tasks, Resume(t) PROVE AnswerIsSound
    <2>1. asking[t].symbol \in Symbols
      BY <1>4, AskingFields DEF Resume, MarketInv, MarketShape
    <2> QED
      BY <1>1, <1>2, <1>4, <2>1 DEF Resume
  <1>5. ASSUME NEW t \in Tasks, RequestUniverse(t) PROVE AnswerIsSound
    <2>1. universe \in Past
      BY DEF MarketInv, MarketShape
    <2> QED
      BY <1>1, <1>5, <2>1, FreshAnswer DEF RequestUniverse
  <1>6. ASSUME NEW t \in Tasks, Reply(t) PROVE AnswerIsSound
    BY <1>6, ReplyIsSound
  <1>7. CASE (\E t \in Tasks : Cancel(t)) \/ Stop \/ TimePasses
    BY <1>1, <1>7 DEF Cancel, Stop, TimePasses
  <1> QED
    BY <1>3, <1>4, <1>5, <1>6, <1>7 DEF MarketNext

LEMMA MarketStep == MarketInv /\ [MarketNext]_marketVars => MarketInv'
  <1> SUFFICES ASSUME MarketInv, [MarketNext]_marketVars PROVE MarketInv'
    OBVIOUS
  <1>1. CASE MarketNext
    <2>1. \A a \in Past : now' \in Nat /\ now <= now' => a \in Past'
      BY DEF Past, MarketInv, MarketShape
    <2>2. MarketShape'
      <3>1. /\ now' \in Nat /\ now <= now'
            /\ cache' \in [Symbols -> Past]
            /\ universe' \in Past /\ lastFailure' \in Past
        BY <1>1, StampsStep
      <3>2. asking' \in [Tasks -> Asking] /\ answer' \in [age : Int, stale : BOOLEAN]
        BY <1>1, RequestsStep, AnswersStep DEF AnswerIsSound
      <3> QED
        BY <2>1, <3>1, <3>2 DEF MarketShape
    <2> QED
      BY <1>1, <2>2, RequestsStep, AnswersStep DEF MarketInv, AnswerIsSound
  <1>2. CASE UNCHANGED marketVars
    BY <1>2 DEF marketVars, MarketInv, MarketShape, RequestsAreRecent, FreshAnswersAreRecent,
                Past, InFlight
  <1> QED
    BY <1>1, <1>2

LEMMA MarketInvariant == MarketSpec => []MarketInv
  BY MarketInitially, MarketStep, PTL DEF MarketSpec

\* A price not marked stale is as recent as the policy and one request allow.
THEOREM FreshAnswersHold == MarketSpec => []FreshAnswersAreRecent
  <1>1. MarketInv => FreshAnswersAreRecent
    BY DEF MarketInv
  <1> QED
    BY <1>1, MarketInvariant, PTL

\* No late request puts the cache back by more than the time a request takes.
THEOREM CacheOnlyHardlyRegresses == MarketSpec => CacheHardlyRegresses
  <1>1. MarketInv /\ [MarketNext]_marketVars =>
            [\A s \in Symbols : cache'[s] >= cache[s] - RequestTime]_marketVars
    <2> SUFFICES ASSUME MarketInv, MarketNext, NEW s \in Symbols
                 PROVE  cache'[s] >= cache[s] - RequestTime
      OBVIOUS
    <2>1. cache[s] \in {None} \cup 0..now /\ now \in Nat
      BY DEF MarketInv, MarketShape, Past
    <2>2. KeptOrRecent(s)
      BY StampsStep
    <2> QED
      BY <2>1, <2>2, MarketAssumption DEF None, KeptOrRecent
  <1> QED
    BY <1>1, MarketInvariant, PTL DEF MarketSpec, CacheHardlyRegresses

\* A failure, or one answer, spares everybody's next request.
THEOREM NoRequestIsNeedless == MarketSpec => NoNeedlessRequest
  <1>1. MarketInv /\ [MarketNext]_marketVars =>
            [\A t \in Tasks :
                asking'[t].step = "ticker" /\ asking[t].step # "ticker" =>
                    /\ MustAsk(asking'[t].symbol)
                    /\ holder = {}]_marketVars
    <2> SUFFICES ASSUME MarketInv, MarketNext, NEW t \in Tasks,
                        asking'[t].step = "ticker", asking[t].step # "ticker"
                 PROVE  MustAsk(asking'[t].symbol) /\ holder = {}
      OBVIOUS
    <2>1. asking \in [Tasks -> Asking]
      BY DEF MarketInv, MarketShape
    <2>2. ASSUME NEW u \in Tasks, NEW s \in Symbols, RequestTicker(u, s)
          PROVE  MustAsk(asking'[t].symbol) /\ holder = {}
      BY <2>1, <2>2 DEF RequestTicker, AskExchange
    <2>3. ASSUME NEW u \in Tasks, Resume(u)
          PROVE  MustAsk(asking'[t].symbol) /\ holder = {}
      BY <2>1, <2>3 DEF Resume, AskExchange, FinishRequest, Idle
    <2>4. ASSUME NEW u \in Tasks, RequestUniverse(u)
          PROVE  FALSE
      <3>1. \/ asking' = asking
            \/ asking' = [asking EXCEPT ![u] = [step |-> "universe", at |-> now]]
        BY <2>4 DEF RequestUniverse
      <3> QED
        BY <2>1, <3>1
    <2>5. ASSUME NEW u \in Tasks, Reply(u) \/ Cancel(u)
          PROVE  FALSE
      <3>1. asking' = [asking EXCEPT ![u] = Idle]
        BY <2>5 DEF Reply, TickerArrives, TickerFails, UniverseArrives, UniverseFails,
                    Cancel, FinishRequest
      <3> QED
        BY <2>1, <3>1 DEF Idle
    <2>6. ASSUME Stop \/ TimePasses PROVE FALSE
      BY <2>6 DEF Stop, TimePasses
    <2> QED
      BY <2>2, <2>3, <2>4, <2>5, <2>6 DEF MarketNext
  <1> QED
    BY <1>1, MarketInvariant, PTL DEF MarketSpec, NoNeedlessRequest
=============================================================================
