--------------------------- MODULE KernelLifecycle ---------------------------
(***************************************************************************)
(* The end of the process: Kernel.stop() (kernel.py) between scheduled     *)
(* jobs, API requests and the event bus, one action per suspension.        *)
(* The initial state is the end of start(), which after its last           *)
(* suspension (the probe of Ollama) creates the jobs and finishes at once. *)
(***************************************************************************)
EXTENDS EventBus

CONSTANTS Jobs, Clients, Kernel

ASSUME LifecycleAssumption ==
    /\ Publishers = Jobs \cup Clients \cup {Kernel}
    /\ Jobs \cap Clients = {} /\ Kernel \notin Jobs \cup Clients

VARIABLES
    phase,        \* where stop() is
    alive,        \* the jobs whose tasks have not ended
    joined,       \* join() has been woken
    mark          \* history: the events accepted when event_bus.stop() began

vars == <<queue, blocked, unfinished, worker, current, open, stopping, accepted,
          recorded, database, phase, alive, joined, mark>>

lifeVars == <<phase, alive, joined, mark>>

Phases == {"running", "announcing", "cancelling", "closing", "joining", "joined", "down"}

\* A task to which cancel() has been delivered takes no further step of its own.
IsCancelled(p) == p \in Jobs /\ phase \notin {"running", "announcing"}

----------------------------------------------------------------------------
Init == /\ BusInit
        /\ phase = "running" /\ alive = Jobs /\ joined = FALSE /\ mark = 0

JobPublishes(j) == j \in alive /\ ~IsCancelled(j) /\ Publish(j) /\ UNCHANGED lifeVars

\* An API request: the server may leave some running when stop() begins.
ClientPublishes(c) == Publish(c) /\ UNCHANGED lifeVars

Admitted(p) == ~IsCancelled(p) /\ Admit(p) /\ UNCHANGED lifeVars

\* stop(): "system.stopping", which may have to wait for a place.
StopBegins == /\ phase = "running"
              /\ Publish(Kernel)
              /\ phase' = "announcing"
              /\ UNCHANGED <<alive, joined, mark>>

\* watchdog.stop(), and scheduler.stop() up to its first await.
CancelJobs == /\ phase = "announcing" /\ ~IsBlocked(Kernel)
              /\ phase' = "cancelling"
              /\ UNCHANGED <<busVars, alive, joined, mark>>

JobEnds(j) == /\ j \in alive /\ IsCancelled(j)
              /\ alive' = alive \ {j}
              /\ blocked' = SelectSeq(blocked, LAMBDA p : p # j)
              /\ UNCHANGED <<queue, unfinished, worker, current, open, stopping, accepted,
                             recorded, database, phase, joined, mark>>

\* Every job awaited; Ollama, Telegram and market data close their clients.
ServicesStop == /\ phase = "cancelling" /\ alive = {}
                /\ phase' = "closing"
                /\ UNCHANGED <<busVars, alive, joined, mark>>

\* Faulty variant: wait until the queue is empty instead of join().
BusStopsOnEmptyQueue ==
    /\ phase = "closing"
    /\ stopping' = TRUE /\ mark' = accepted
    /\ IF queue = <<>>
       THEN phase' = "joined" /\ worker' = "cancelled" /\ open' = {}
       ELSE phase' = "joining" /\ UNCHANGED <<worker, open>>
    /\ UNCHANGED <<queue, blocked, unfinished, current, accepted, recorded, database, alive, joined>>

\* event_bus.stop(): with nothing unfinished join() returns at once and the
\* worker, which waits for an event, is cancelled.
BusStops ==
    /\ phase = "closing"
    /\ stopping' = TRUE /\ mark' = accepted
    /\ IF unfinished = 0
       THEN phase' = "joined" /\ worker' = "cancelled" /\ open' = {}
       ELSE phase' = "joining" /\ UNCHANGED <<worker, open>>
    /\ UNCHANGED <<queue, blocked, unfinished, current, accepted, recorded, database, alive, joined>>

\* The task_done() that brings the count to zero wakes join(), for good.
WorkerFinishes == /\ Finish
                  /\ joined' = (joined \/ (phase = "joining" /\ unfinished' = 0))
                  /\ UNCHANGED <<phase, alive, mark>>

\* join() returns and the worker is cancelled, unless it has ended.
BusStopped ==
    /\ phase = "joining" /\ joined
    /\ phase' = "joined"
    /\ worker' = IF worker = "done" THEN "done" ELSE "cancelled"
    /\ open' = {}
    /\ UNCHANGED <<queue, blocked, unfinished, current, stopping, accepted, recorded,
                   database, alive, joined, mark>>

DatabaseStops == /\ phase = "joined"
                 /\ database' = FALSE
                 /\ phase' = "down"
                 /\ UNCHANGED <<queue, blocked, unfinished, worker, current, open, stopping,
                                accepted, recorded, alive, joined, mark>>

WorkerRuns == (Take \/ Persist \/ NotifyEnds) /\ UNCHANGED lifeVars

Stopping == CancelJobs \/ ServicesStop \/ BusStops \/ BusStopped \/ DatabaseStops

Next == \/ \E j \in Jobs : JobPublishes(j) \/ JobEnds(j)
        \/ \E c \in Clients : ClientPublishes(c)
        \/ \E p \in Publishers : Admitted(p)
        \/ WorkerRuns \/ WorkerFinishes
        \/ StopBegins \/ Stopping

Spec == Init /\ [][Next]_vars

\* The loop runs every task that can run; handlers and cancelled jobs end.
FairSpec == /\ Spec
            /\ WF_vars(Take /\ UNCHANGED lifeVars)
            /\ WF_vars(Persist /\ UNCHANGED lifeVars)
            /\ WF_vars(NotifyEnds /\ UNCHANGED lifeVars)
            /\ WF_vars(WorkerFinishes)
            /\ WF_vars(Stopping)
            /\ \A p \in Publishers : WF_vars(Admitted(p))
            /\ \A j \in Jobs : WF_vars(JobEnds(j))

----------------------------------------------------------------------------
\* Type correctness; the queue counts exactly what it holds and what is handled.
TypeOK == /\ BusTypeOK
          /\ phase \in Phases /\ alive \in SUBSET Jobs
          /\ joined \in BOOLEAN /\ mark \in Nat

\* stop() loses no event: when the database closes, whatever had been accepted
\* when the bus was told to stop has been through _persist_event (kernel.py
\* lines 426-439, event_bus.py lines 32-39).
DrainedStop == ~database => recorded >= mark

\* Events are recorded one by one in the order in which they were accepted.
RecordedInOrder == [][recorded' # recorded => recorded' = recorded + 1]_vars

\* stop() ends: nothing it waits for waits for it.
StopEnds == phase = "announcing" ~> phase = "down"
=============================================================================
