------------------------------ MODULE EventBus ------------------------------
(***************************************************************************)
(* nexor_x/core/event_bus.py: one bounded queue, one worker.  An event is  *)
(* the number of its admission to the queue.  For every event the worker   *)
(* waits until all its handlers have returned: _persist_event, which       *)
(* subscribes to "*", and for some topics the Telegram notifier.           *)
(***************************************************************************)
EXTENDS Integers, Sequences, FiniteSets

CONSTANTS Publishers,
          QueueSize,        \* queue_size
          MaxEvents         \* bound: events published altogether

ASSUME BusAssumption == QueueSize \in Nat \ {0} /\ MaxEvents \in Nat

VARIABLES
    queue,        \* _queue
    blocked,      \* the publishers suspended in put(), in their order
    unfinished,   \* the queue's count of events without task_done()
    worker,       \* what _run() does
    current,      \* the event it handles, or handled last
    open,         \* the handlers of current that have not returned
    stopping,     \* _stopping
    accepted,     \* history: how many events were put in the queue
    recorded,     \* history: the last event _persist_event got through
    database      \* the connection of the database is open

busVars == <<queue, blocked, unfinished, worker, current, open, stopping,
             accepted, recorded, database>>

Handlers == {"persist", "notify"}

IsFull == Len(queue) >= QueueSize

IsBlocked(p) == \E i \in 1..Len(blocked) : blocked[i] = p

----------------------------------------------------------------------------
Put == /\ queue' = Append(queue, accepted + 1)
       /\ accepted' = accepted + 1
       /\ unfinished' = unfinished + 1

\* Faulty variant: a full queue drops its oldest event.
PublishDroppingOldest(p) ==
    /\ ~IsBlocked(p)
    /\ accepted + Len(blocked) < MaxEvents
    /\ queue' = Append(IF IsFull THEN Tail(queue) ELSE queue, accepted + 1)
    /\ accepted' = accepted + 1
    /\ unfinished' = IF IsFull THEN unfinished ELSE unfinished + 1
    /\ UNCHANGED <<blocked, worker, current, open, stopping, recorded, database>>

\* publish(), up to its suspension when the queue is full.
Publish(p) ==
    /\ ~IsBlocked(p)
    /\ accepted + Len(blocked) < MaxEvents
    /\ \/ ~IsFull /\ Put /\ UNCHANGED blocked
       \/ IsFull /\ blocked' = Append(blocked, p) /\ UNCHANGED <<queue, accepted, unfinished>>
    /\ UNCHANGED <<worker, current, open, stopping, recorded, database>>

\* A place is free for the publisher that has waited longest.
Admit(p) ==
    /\ blocked # <<>> /\ Head(blocked) = p
    /\ ~IsFull
    /\ Put
    /\ blocked' = Tail(blocked)
    /\ UNCHANGED <<worker, current, open, stopping, recorded, database>>

\* The worker has an event and starts its handlers.
Take ==
    /\ worker = "waiting"
    /\ queue # <<>>
    /\ current' = Head(queue)
    /\ queue' = Tail(queue)
    /\ open' \in {{"persist"}, Handlers}
    /\ worker' = "handling"
    /\ UNCHANGED <<blocked, unfinished, stopping, accepted, recorded, database>>

\* _persist_event runs without a suspension.  Without the database it raises,
\* which gather() only collects.
Persist ==
    /\ "persist" \in open
    /\ open' = open \ {"persist"}
    /\ recorded' = IF database THEN current ELSE recorded
    /\ UNCHANGED <<queue, blocked, unfinished, worker, current, stopping, accepted, database>>

\* The notifier returns or raises: a timeout, an HTTP error, a closed client.
NotifyEnds ==
    /\ "notify" \in open
    /\ open' = open \ {"notify"}
    /\ UNCHANGED <<queue, blocked, unfinished, worker, current, stopping, accepted, recorded, database>>

\* Faulty variant: told to stop, the worker leaves what is still queued.
FinishLeavingQueue ==
    /\ worker = "handling" /\ open = {}
    /\ unfinished' = unfinished - 1
    /\ worker' = IF stopping THEN "done" ELSE "waiting"
    /\ UNCHANGED <<queue, blocked, current, open, stopping, accepted, recorded, database>>

\* Faulty variant: a handler that raises skips task_done().
FinishSkippingCount ==
    /\ worker = "handling" /\ open = {}
    /\ unfinished' \in {unfinished, unfinished - 1}
    /\ worker' = IF stopping /\ queue = <<>> THEN "done" ELSE "waiting"
    /\ UNCHANGED <<queue, blocked, current, open, stopping, accepted, recorded, database>>

\* All handlers have returned: task_done(), and the condition of the loop.
Finish ==
    /\ worker = "handling" /\ open = {}
    /\ unfinished' = unfinished - 1
    /\ worker' = IF stopping /\ queue = <<>> THEN "done" ELSE "waiting"
    /\ UNCHANGED <<queue, blocked, current, open, stopping, accepted, recorded, database>>

----------------------------------------------------------------------------
\* Kernel.start() ends with the first event, "system.started".
BusInit == /\ queue = <<1>> /\ blocked = <<>> /\ unfinished = 1
           /\ worker = "waiting" /\ current = 0 /\ open = {}
           /\ stopping = FALSE
           /\ accepted = 1 /\ recorded = 0
           /\ database = TRUE

BusTypeOK ==
    /\ queue \in Seq(Nat) /\ Len(queue) <= QueueSize
    /\ blocked \in Seq(Publishers)
    /\ worker \in {"waiting", "handling", "done", "cancelled"}
    /\ unfinished \in Nat
    /\ worker # "cancelled" =>
          unfinished = Len(queue) + IF worker = "handling" THEN 1 ELSE 0
    /\ current \in Nat /\ open \in SUBSET Handlers
    /\ stopping \in BOOLEAN /\ database \in BOOLEAN
    /\ accepted \in Nat /\ recorded \in Nat
=============================================================================
