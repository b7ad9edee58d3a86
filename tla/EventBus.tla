------------------------------ MODULE EventBus ------------------------------
(***************************************************************************)
(* The EventBus with its pool of workers, and two things it feeds: a       *)
(* BatchEventHandler with its flush thread and an EventAggregator          *)
(* (src/stream/event_driven.cpp).  Handlers' own code is external.         *)
(*                                                                         *)
(* A worker that found nothing to do still holds queue_mutex_ ("checked")  *)
(* before it sleeps; publish_async needs that mutex, stop does not.        *)
(***************************************************************************)
EXTENDS Integers, Sequences, FiniteSets, FiniteSetsExt, SequencesExt

CONSTANTS Workers,        \* worker threads
          MaxEvents,      \* bound on events
          WindowSize,     \* window_size of the aggregation rule
          MaxTime         \* bound on the clock

VARIABLES running,        \* is_running_
          stopping,       \* stop() waits for the workers it joins
          pc,             \* worker -> "gone", "idle", "checked", "asleep", "busy"
          holding,        \* worker -> the event it processes, or 0
          queue,          \* event_queue_
          issued,         \* events published so far
          handled,        \* history: events handed to the batch handler, in order
          pending,        \* batch_ of the BatchEventHandler
          flushed,        \* history: events given to the batch function, in order
          handlerGone     \* the BatchEventHandler is destroyed

busVars == <<running, stopping, pc, holding, queue, issued>>
batchVars == <<handled, pending, flushed, handlerGone>>

VARIABLES clock,          \* time, by the tick
          window,         \* the window of one rule and key: [start, events]
          aggregated,     \* history: events handed to the aggregator function
          expired,        \* history: events removed by cleanup_expired_windows
          lastCall,       \* history: time of the last get_aggregated_events
          longestGap,     \* history: longest time without such a call
          added           \* events added so far

aggregatorVars == <<clock, window, aggregated, expired, lastCall, longestGap, added>>
eventVars == <<running, stopping, pc, holding, queue, issued, handled, pending, flushed, handlerGone,
               clock, window, aggregated, expired, lastCall, longestGap, added>>

-----------------------------------------------------------------------------
(* The bus *)

\* find_handlers and process_event call the batch handler's handle.
Handle(e) ==
  /\ handled' = Append(handled, e)
  /\ pending' = IF handlerGone THEN pending ELSE Append(pending, e)
  /\ UNCHANGED <<flushed, handlerGone>>

StartBus ==
  /\ ~running /\ ~stopping
  /\ running' = TRUE
  /\ pc' = [w \in Workers |-> "idle"]
  /\ UNCHANGED <<stopping, holding, queue, issued, batchVars, aggregatorVars>>

\* publish: the handlers run in the caller's thread, before anything queued.
PublishSync ==
  /\ issued < MaxEvents
  /\ issued' = issued + 1
  /\ Handle(issued + 1)
  /\ UNCHANGED <<running, stopping, pc, holding, queue, aggregatorVars>>

Wake(w) == [pc EXCEPT ![w] = "idle"]

\* publish_async that wakes nobody.
PublishAsyncSilently ==
  /\ issued < MaxEvents
  /\ \A w \in Workers : pc[w] # "checked"
  /\ issued' = issued + 1
  /\ queue' = Append(queue, issued + 1)
  /\ UNCHANGED <<running, stopping, pc, holding, batchVars, aggregatorVars>>

\* publish_async: the event is queued under queue_mutex_, then one worker that
\* sleeps is woken.
PublishAsync ==
  /\ issued < MaxEvents
  /\ \A w \in Workers : pc[w] # "checked"
  /\ issued' = issued + 1
  /\ queue' = Append(queue, issued + 1)
  /\ IF \E w \in Workers : pc[w] = "asleep"
       THEN \E w \in Workers : pc[w] = "asleep" /\ pc' = Wake(w)
       ELSE UNCHANGED pc
  /\ UNCHANGED <<running, stopping, holding, batchVars, aggregatorVars>>

\* stop: the flag is cleared and the sleepers woken without queue_mutex_.
StopBus ==
  /\ running
  /\ running' = FALSE /\ stopping' = TRUE
  /\ pc' = [w \in Workers |-> IF pc[w] = "asleep" THEN "idle" ELSE pc[w]]
  /\ UNCHANGED <<holding, queue, issued, batchVars, aggregatorVars>>

\* The workers are joined.
StopReturns ==
  /\ stopping /\ \A w \in Workers : pc[w] = "gone"
  /\ stopping' = FALSE
  /\ UNCHANGED <<running, pc, holding, queue, issued, batchVars, aggregatorVars>>

\* The event is read from the queue and left in it.
CheckPeeks(w) ==
  /\ pc[w] = "idle"
  /\ \A v \in Workers : pc[v] # "checked"
  /\ IF ~running
       THEN pc' = [pc EXCEPT ![w] = "gone"] /\ UNCHANGED holding
       ELSE IF queue = <<>>
       THEN pc' = [pc EXCEPT ![w] = "checked"] /\ UNCHANGED holding
       ELSE /\ pc' = [pc EXCEPT ![w] = "busy"]
            /\ holding' = [holding EXCEPT ![w] = Head(queue)]
  /\ UNCHANGED <<running, stopping, queue, issued, batchVars, aggregatorVars>>

\* worker_loop evaluates the wait's predicate under queue_mutex_.
Check(w) ==
  /\ pc[w] = "idle"
  /\ \A v \in Workers : pc[v] # "checked"
  /\ IF ~running
       THEN pc' = [pc EXCEPT ![w] = "gone"] /\ UNCHANGED <<holding, queue>>
       ELSE IF queue = <<>>
       THEN pc' = [pc EXCEPT ![w] = "checked"] /\ UNCHANGED <<holding, queue>>
       ELSE /\ pc' = [pc EXCEPT ![w] = "busy"]
            /\ holding' = [holding EXCEPT ![w] = Head(queue)]
            /\ queue' = Tail(queue)
  /\ UNCHANGED <<running, stopping, issued, batchVars, aggregatorVars>>

Sleep(w) ==
  /\ pc[w] = "checked"
  /\ pc' = [pc EXCEPT ![w] = "asleep"]
  /\ UNCHANGED <<running, stopping, holding, queue, issued, batchVars, aggregatorVars>>

ProcessEvent(w) ==
  /\ pc[w] = "busy"
  /\ Handle(holding[w])
  /\ holding' = [holding EXCEPT ![w] = 0]
  /\ pc' = [pc EXCEPT ![w] = "idle"]
  /\ UNCHANGED <<running, stopping, queue, issued, aggregatorVars>>

-----------------------------------------------------------------------------
(* BatchEventHandler *)

\* flush, and a round of flush_loop: process_batch empties the batch and calls
\* the batch function.
ProcessBatch ==
  /\ ~handlerGone /\ pending # <<>>
  /\ flushed' = flushed \o pending
  /\ pending' = <<>>
  /\ UNCHANGED <<busVars, handled, handlerGone, aggregatorVars>>

\* The destructor ends flush_loop without a last process_batch.
DestroyHandler ==
  /\ ~handlerGone /\ handlerGone' = TRUE
  /\ UNCHANGED <<busVars, handled, pending, flushed, aggregatorVars>>

-----------------------------------------------------------------------------
(* EventAggregator, one rule and one key *)

EmptyWindow == [start |-> 0, events |-> <<>>]

\* cleanup_expired_windows: twice the window size after its start a window is
\* removed with its events.
Expires(win) == win.events # <<>> /\ clock - win.start >= 2 * WindowSize

\* add_event puts the event into the window, which may be expired already, and
\* cleans up.
AddEvent ==
  LET win == [start |-> IF window.events = <<>> THEN clock ELSE window.start,
              events |-> Append(window.events, added + 1)]
  IN /\ added < MaxEvents
     /\ added' = added + 1
     /\ window' = IF Expires(win) THEN EmptyWindow ELSE win
     /\ expired' = IF Expires(win) THEN expired \o win.events ELSE expired
     /\ UNCHANGED <<busVars, batchVars, clock, aggregated, lastCall, longestGap>>

\* get_aggregated_events takes the window if it has its size.
GetAggregatedEvents ==
  /\ lastCall' = clock
  /\ IF window.events # <<>> /\ clock - window.start >= WindowSize
       THEN aggregated' = aggregated \o window.events /\ window' = EmptyWindow
       ELSE UNCHANGED <<aggregated, window>>
  /\ UNCHANGED <<busVars, batchVars, clock, expired, longestGap, added>>

Clock ==
  /\ clock < MaxTime /\ clock' = clock + 1
  /\ longestGap' = Max({longestGap, clock' - lastCall})
  /\ UNCHANGED <<busVars, batchVars, window, aggregated, expired, lastCall, added>>

-----------------------------------------------------------------------------
BusInit ==
  /\ running = FALSE /\ stopping = FALSE /\ pc = [w \in Workers |-> "gone"]
  /\ holding = [w \in Workers |-> 0] /\ queue = <<>> /\ issued = 0
  /\ handled = <<>> /\ pending = <<>> /\ flushed = <<>> /\ handlerGone = FALSE
  /\ clock = 0 /\ window = EmptyWindow /\ aggregated = <<>> /\ expired = <<>>
  /\ lastCall = 0 /\ longestGap = 0 /\ added = 0

BusWorker(w) == Check(w) \/ Sleep(w) \/ ProcessEvent(w)

BusStep ==
  \/ StartBus \/ StopBus \/ StopReturns \/ PublishSync \/ PublishAsync
  \/ \E w \in Workers : BusWorker(w)
  \/ ProcessBatch \/ DestroyHandler

AggregatorStep == AddEvent \/ GetAggregatedEvents \/ Clock

\* Threads that can run do; the flush thread wakes by its timeout.
BusFairness == (\A w \in Workers : WF_eventVars(BusWorker(w))) /\ WF_eventVars(ProcessBatch)

BusSpec == BusInit /\ [][BusStep \/ AggregatorStep]_eventVars /\ BusFairness

-----------------------------------------------------------------------------
\* An event is handled at most once, whichever of the workers takes it and
\* however often the bus is stopped and started; while queued or with a worker
\* it has not been handled.
HandledOnce ==
  /\ IsInjective(handled)
  /\ Range(handled) \cap (Range(queue) \union {holding[w] : w \in Workers}) = {}
  /\ \A v, w \in Workers : v # w /\ holding[v] # 0 => holding[v] # holding[w]

\* An event queued with publish_async is handled unless the bus is stopped: one
\* wake-up for each event is enough, also when it meets a worker that is busy.
QueuedIsHandled ==
  []<>(~running \/ (queue = <<>> /\ \A w \in Workers : holding[w] = 0))

\* The batch function sees every event once and in the order it was handled in,
\* however flush calls and the flush thread alternate.
BatchKeepsOrder == IsPrefix(flushed, handled)

\* What the handler takes reaches the batch function, unless it is destroyed
\* first: the destructor drops the batch.
PendingIsFlushed ==
  []<>(pending = <<>> \/ handlerGone)

\* An event leaves the aggregator once, and a caller that collects at least once
\* in every WindowSize loses none to the clean-up.
CollectorMissesNothing ==
  /\ IsInjective(aggregated \o expired)
  /\ longestGap <= WindowSize => expired = <<>>
=============================================================================
