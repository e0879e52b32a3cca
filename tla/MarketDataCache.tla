-------------------------- MODULE MarketDataCache ---------------------------
(***************************************************************************)
(* nexor_x/infrastructure/binance.py: BinanceMarketDataService.            *)
(*                                                                         *)
(* Scanner, shadow, gate, position manager and the API ask one service for *)
(* prices.  market_snapshot() answers from the cache, from the cache       *)
(* during a cooldown, or asks the exchange, one request at a time under a  *)
(* lock and after looking at the cache again; market_universe() asks for   *)
(* every symbol at once and takes no lock.  A snapshot is the time at      *)
(* which its request began: the code stamps it before the request.         *)
(***************************************************************************)
EXTENDS Clock, Sequences, FiniteSets

CONSTANTS Tasks, Symbols,
          CacheTTL,           \* cache_ttl_seconds
          StaleAfter,         \* stale_after_seconds
          FailureCooldown,    \* failure_cooldown_seconds
          RequestTime         \* what the client's timeouts allow a request

ASSUME MarketAssumption == /\ CacheTTL \in Nat /\ StaleAfter \in Nat
                           /\ FailureCooldown \in Nat /\ RequestTime \in Nat
                           /\ CacheTTL <= StaleAfter

VARIABLES
    cache,          \* _cache: the stamp of each symbol's snapshot
    universe,       \* _universe_fetched_at
    lastFailure,    \* _last_failure_at
    client,         \* _client is not None
    asking,         \* what each task is suspended in
    holder,         \* the task that holds _lock, as a set
    waiters,        \* the lock's queue
    answer          \* the last answer: its age when given, its stale flag

marketVars == <<now, cache, universe, lastFailure, client, asking, holder, waiters, answer>>

Idle == [step |-> "idle"]

Asking == {Idle} \cup [step : {"waiting"}, symbol : Symbols]
                 \cup [step : {"ticker"}, symbol : Symbols, at : Nat]
                 \cup [step : {"universe"}, at : Nat]

InFlight(t) == asking[t].step \in {"ticker", "universe"}

----------------------------------------------------------------------------
IsFresh(at) == IsStamp(at) /\ now - at <= CacheTTL

InCooldown == IsStamp(lastFailure) /\ now - lastFailure < FailureCooldown

Answer(at, stale) == answer' = [age |-> now - at, stale |-> stale]

\* Faulty variant: the snapshot is returned as it was stored.
CachedAsStored(s, t) ==
    IF IsStamp(cache[s]) THEN Answer(cache[s], FALSE) ELSE UNCHANGED answer

\* _cached_or_raise: its now, t, was read before the request.
CachedOrRaise(s, t) ==
    IF IsStamp(cache[s]) THEN Answer(cache[s], t - cache[s] > StaleAfter)
                         ELSE UNCHANGED answer

\* The two returns in front of the lock, and again behind it.
MustAsk(s) == ~IsFresh(cache[s]) /\ ~InCooldown

AnswerFromCache(s) ==
    IF IsFresh(cache[s]) THEN Answer(cache[s], FALSE) ELSE CachedOrRaise(s, now)

AskExchange(t, s) == /\ asking' = [asking EXCEPT ![t] = [step |-> "ticker", symbol |-> s, at |-> now]]
                     /\ holder' = {t}

FinishRequest(t) == /\ asking' = [asking EXCEPT ![t] = Idle]
                    /\ holder' = holder \ {t}

----------------------------------------------------------------------------
MarketInit == /\ ClockInit
              /\ cache = [s \in Symbols |-> None]
              /\ universe = None
              /\ lastFailure \in {None, 0}      \* what _probe() found
              /\ client = TRUE
              /\ asking = [t \in Tasks |-> Idle]
              /\ holder = {}
              /\ waiters = <<>>
              /\ answer = [age |-> 0, stale |-> FALSE]

\* market_snapshot() up to its first suspension.
RequestTicker(t, s) ==
    /\ asking[t] = Idle
    /\ \/ /\ ~MustAsk(s)
          /\ AnswerFromCache(s)
          /\ UNCHANGED <<asking, holder, waiters>>
       \/ /\ MustAsk(s)
          /\ holder = {} /\ waiters = <<>>
          /\ client
          /\ AskExchange(t, s)
          /\ UNCHANGED <<waiters, answer>>
       \/ /\ MustAsk(s)
          /\ holder # {} \/ waiters # <<>>
          /\ asking' = [asking EXCEPT ![t] = [step |-> "waiting", symbol |-> s]]
          /\ waiters' = Append(waiters, t)
          /\ UNCHANGED <<holder, answer>>
    /\ UNCHANGED <<now, cache, universe, lastFailure, client>>

\* Faulty variant: behind the lock nothing is looked at again.
ResumeAtOnce(t) ==
    /\ asking[t].step = "waiting"
    /\ waiters # <<>> /\ Head(waiters) = t /\ holder = {}
    /\ waiters' = Tail(waiters)
    /\ AskExchange(t, asking[t].symbol)
    /\ UNCHANGED <<now, cache, universe, lastFailure, client, answer>>

\* The lock, which is first come first served, passes to a waiter.
Resume(t) ==
    /\ asking[t].step = "waiting"
    /\ waiters # <<>> /\ Head(waiters) = t /\ holder = {}
    /\ waiters' = Tail(waiters)
    /\ LET s == asking[t].symbol IN
       \/ ~MustAsk(s) /\ AnswerFromCache(s) /\ FinishRequest(t)
       \/ MustAsk(s) /\ client /\ AskExchange(t, s) /\ UNCHANGED answer
       \/ MustAsk(s) /\ ~client /\ FinishRequest(t) /\ UNCHANGED answer
    /\ UNCHANGED <<now, cache, universe, lastFailure, client>>

TickerArrives(t) ==
    /\ asking[t].step = "ticker"
    /\ cache' = [cache EXCEPT ![asking[t].symbol] = asking[t].at]
    /\ lastFailure' = None
    /\ Answer(asking[t].at, FALSE)
    /\ FinishRequest(t)
    /\ UNCHANGED <<now, universe, client, waiters>>

\* Faulty variant: the lock is not released when the request fails.
TickerFailsHolding(t) ==
    /\ asking[t].step = "ticker"
    /\ lastFailure' = now
    /\ CachedOrRaise(asking[t].symbol, asking[t].at)
    /\ asking' = [asking EXCEPT ![t] = Idle]
    /\ UNCHANGED <<now, cache, universe, client, holder, waiters>>

\* Any exception of the request, its status or its parsing.
TickerFails(t) ==
    /\ asking[t].step = "ticker"
    /\ lastFailure' = now
    /\ CachedOrRaise(asking[t].symbol, asking[t].at)
    /\ FinishRequest(t)
    /\ UNCHANGED <<now, cache, universe, client, waiters>>

\* market_universe(): neither the lock nor the cooldown.
RequestUniverse(t) ==
    /\ asking[t] = Idle
    /\ \/ /\ IsFresh(universe)
          /\ Answer(universe, FALSE)
          /\ UNCHANGED asking
       \/ /\ ~IsFresh(universe)
          /\ client
          /\ asking' = [asking EXCEPT ![t] = [step |-> "universe", at |-> now]]
          /\ UNCHANGED answer
    /\ UNCHANGED <<now, cache, universe, lastFailure, client, holder, waiters>>

\* Every eligible symbol of the answer is cached; without one it has failed.
UniverseArrives(t) ==
    /\ asking[t].step = "universe"
    /\ \E eligible \in SUBSET Symbols \ {{}} :
          cache' = [s \in Symbols |-> IF s \in eligible THEN asking[t].at ELSE cache[s]]
    /\ universe' = asking[t].at
    /\ lastFailure' = None
    /\ Answer(asking[t].at, FALSE)
    /\ FinishRequest(t)
    /\ UNCHANGED <<now, client, waiters>>

\* Faulty variant: after a failure the last universe is put back in the cache.
UniverseFailsRestoring(t) ==
    /\ asking[t].step = "universe"
    /\ lastFailure' = now
    /\ cache' = IF IsStamp(universe) THEN [s \in Symbols |-> universe] ELSE cache
    /\ FinishRequest(t)
    /\ UNCHANGED <<now, universe, client, waiters, answer>>

UniverseFails(t) ==
    /\ asking[t].step = "universe"
    /\ lastFailure' = now
    /\ IF IsStamp(universe) THEN Answer(universe, TRUE) ELSE UNCHANGED answer
    /\ FinishRequest(t)
    /\ UNCHANGED <<now, cache, universe, client, waiters>>

\* Faulty variant: a cancelled waiter keeps its place.
CancelKeepingPlace(t) ==
    /\ asking[t] # Idle
    /\ FinishRequest(t)
    /\ UNCHANGED <<now, cache, universe, lastFailure, client, waiters, answer>>

\* The task is cancelled: a job when the scheduler stops, a request of a client
\* that went away.  A CancelledError is no Exception: no failure is marked.
Cancel(t) ==
    /\ asking[t] # Idle
    /\ FinishRequest(t)
    /\ waiters' = SelectSeq(waiters, LAMBDA u : u # t)
    /\ UNCHANGED <<now, cache, universe, lastFailure, client, answer>>

\* stop(): the requests in flight may fail, or have arrived already.
Stop == /\ client
        /\ client' = FALSE
        /\ UNCHANGED <<now, cache, universe, lastFailure, asking, holder, waiters, answer>>

\* A request takes at most RequestTime (8 s to read, 5 s to connect).
TimePasses == /\ Advance
              /\ \A t \in Tasks : InFlight(t) => now - asking[t].at < RequestTime
              /\ UNCHANGED <<cache, universe, lastFailure, client, asking, holder, waiters, answer>>

Reply(t) == TickerArrives(t) \/ TickerFails(t) \/ UniverseArrives(t) \/ UniverseFails(t)

MarketNext == \/ \E t \in Tasks : \/ \E s \in Symbols : RequestTicker(t, s)
                                  \/ RequestUniverse(t)
                                  \/ Resume(t)
                                  \/ Reply(t)
                                  \/ Cancel(t)
              \/ Stop
              \/ TimePasses

MarketSpec == MarketInit /\ [][MarketNext]_marketVars

\* A request ends, by its timeouts if nothing else; a task that holds the lock
\* is scheduled.  Nobody is assumed to ask, to stop or to be cancelled.
FairMarketSpec == MarketSpec /\ \A t \in Tasks : WF_marketVars(Reply(t)) /\ WF_marketVars(Resume(t))

----------------------------------------------------------------------------
\* Type correctness; the lock and its queue are those of the suspended tasks.
MarketTypeOK ==
    /\ ClockTypeOK
    /\ cache \in [Symbols -> Stamps]
    /\ universe \in Stamps /\ lastFailure \in Stamps
    /\ client \in BOOLEAN
    /\ asking \in [Tasks -> Asking]
    /\ holder = {t \in Tasks : asking[t].step = "ticker"}
    /\ waiters \in Seq(Tasks)
    /\ \A t \in Tasks : asking[t].step = "waiting" <=> \E i \in 1..Len(waiters) : waiters[i] = t
    /\ answer \in [age : Int, stale : BOOLEAN]

\* A price that is not marked stale is no older than StaleAfter and the time one
\* request takes: the flag is computed with the clock read before the request
\* that failed (binance.py lines 94, 116, 174).
FreshAnswersAreRecent == ~answer.stale => answer.age <= StaleAfter + RequestTime

\* A failure silences the waiters too, and what one request brought answers them:
\* no ticker request begins beside another, during the cooldown, or for a symbol
\* whose snapshot is fresh (docs/AUDIT_SPRINT_4.md lines 12-13).
NoNeedlessRequest ==
    [][\A t \in Tasks :
          asking'[t].step = "ticker" /\ asking[t].step # "ticker" =>
              /\ MustAsk(asking'[t].symbol)
              /\ holder = {}]_marketVars

\* Two requests for a symbol may end in either order, but a late one puts the
\* cache back by no more than the time a request takes.
CacheHardlyRegresses ==
    [][\A s \in Symbols : cache'[s] >= cache[s] - RequestTime]_marketVars

\* Whoever waits, for the lock or for the exchange, is answered or told so.
EveryoneIsAnswered == \A t \in Tasks : asking[t] # Idle ~> asking[t] = Idle
=============================================================================
