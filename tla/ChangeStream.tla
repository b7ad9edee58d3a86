---------------------------- MODULE ChangeStream ----------------------------
(***************************************************************************)
(* A ChangeStream with a RealtimeSyncProcessor as its processor            *)
(* (src/stream/change_stream.cpp, realtime_sync.cpp): publishers fill a    *)
(* bounded queue, a worker takes batches from it and hands every event to  *)
(* the processor, which sends it to each target in a thread of its own,    *)
(* with retries, and joins them.  The targets are external.                *)
(* Events are numbered in the order of their publication.                  *)
(***************************************************************************)
EXTENDS Integers, Sequences, FiniteSets, FiniteSetsExt, SequencesExt

CONSTANTS MaxEvents,       \* bound on publications
          BufferSize,      \* config_.buffer_size
          BatchSize,       \* 100 in process_events
          Wanted,          \* events that pass should_process_event
          Targets,         \* targets_
          MaxRetry         \* config_.max_retry_count

VARIABLES streamState,     \* state_
          shouldStop,      \* should_stop_
          worker,          \* "none", "loop" or "batch"
          eventQueue,      \* event_queue_
          batch,           \* the worker's batch, events still to process
          syncing,         \* target -> attempts left of its thread, 0 when there is none
          healthy,         \* external: targets that are connected
          syncPaused,      \* stats_.status of the processor
          received,        \* target -> events it took, in order
          published,       \* events accepted so far
          overflowed,      \* history: events dropped from a full queue
          passedOver,      \* history: events the worker took and gave to no target
          terminated       \* the process called std::terminate

streamVars == <<streamState, shouldStop, worker, eventQueue, batch, syncing, healthy, syncPaused,
                received, published, overflowed, passedOver, terminated>>

NoThreads == [t \in Targets |-> 0]
Joined == syncing = NoThreads

\* start(): only RUNNING is an early return; a paused stream still has its
\* worker, and replacing the joinable thread object terminates the process.
StartStream ==
  /\ ~terminated /\ streamState # "RUNNING"
  /\ IF worker # "none"
       THEN terminated' = TRUE /\ UNCHANGED <<shouldStop, worker, streamState>>
       ELSE /\ shouldStop' = FALSE /\ worker' = "loop" /\ streamState' = "RUNNING"
            /\ UNCHANGED terminated
  /\ UNCHANGED <<eventQueue, batch, syncing, healthy, syncPaused, received, published, overflowed,
                 passedOver>>

\* stop() tells the worker, joins it and then marks the stream stopped.
RequestStop ==
  /\ ~terminated /\ streamState # "STOPPED" /\ ~shouldStop
  /\ shouldStop' = TRUE
  /\ UNCHANGED <<streamState, worker, eventQueue, batch, syncing, healthy, syncPaused, received,
                 published, overflowed, passedOver, terminated>>

FinishStop ==
  /\ ~terminated /\ shouldStop /\ streamState # "STOPPED" /\ worker = "none"
  /\ streamState' = "STOPPED"
  /\ UNCHANGED <<shouldStop, worker, eventQueue, batch, syncing, healthy, syncPaused, received,
                 published, overflowed, passedOver, terminated>>

PauseStream ==
  /\ ~terminated /\ streamState = "RUNNING" /\ streamState' = "PAUSED"
  /\ UNCHANGED <<shouldStop, worker, eventQueue, batch, syncing, healthy, syncPaused, received,
                 published, overflowed, passedOver, terminated>>

ResumeStream ==
  /\ ~terminated /\ streamState = "PAUSED" /\ streamState' = "RUNNING"
  /\ UNCHANGED <<shouldStop, worker, eventQueue, batch, syncing, healthy, syncPaused, received,
                 published, overflowed, passedOver, terminated>>

\* publish_event: a full queue drops its oldest event.
PublishEvent ==
  /\ ~terminated /\ streamState # "STOPPED" /\ published < MaxEvents
  /\ published' = published + 1
  /\ eventQueue' = IF Len(eventQueue) >= BufferSize
                   THEN Append(Tail(eventQueue), published + 1) ELSE Append(eventQueue, published + 1)
  /\ overflowed' = IF Len(eventQueue) >= BufferSize
                   THEN overflowed \union {Head(eventQueue)} ELSE overflowed
  /\ UNCHANGED <<streamState, shouldStop, worker, batch, syncing, healthy, syncPaused, received,
                 passedOver, terminated>>

\* worker_loop: a round of process_events takes a batch, unless the stream is
\* paused.
TakeBatch ==
  /\ ~terminated /\ worker = "loop" /\ ~shouldStop /\ streamState # "PAUSED" /\ eventQueue # <<>>
  /\ LET n == Min({BatchSize, Len(eventQueue)})
     IN /\ batch' = SubSeq(eventQueue, 1, n)
        /\ eventQueue' = SubSeq(eventQueue, n + 1, Len(eventQueue))
  /\ worker' = "batch"
  /\ UNCHANGED <<streamState, shouldStop, syncing, healthy, syncPaused, received, published,
                 overflowed, passedOver, terminated>>

\* process and sync_to_targets for the first event of the batch: one thread for
\* each healthy target.
SyncToTargets ==
  LET e == Head(batch)
      reached == IF e \in Wanted /\ ~syncPaused THEN healthy ELSE {}
  IN /\ ~terminated /\ worker = "batch" /\ Joined /\ batch # <<>>
     /\ syncing' = [t \in Targets |-> IF t \in reached THEN MaxRetry ELSE 0]
     /\ passedOver' = IF reached = {} THEN passedOver \union {e} ELSE passedOver
     /\ batch' = IF reached = {} THEN Tail(batch) ELSE batch
     /\ UNCHANGED <<streamState, shouldStop, worker, eventQueue, healthy, syncPaused, received,
                    published, overflowed, terminated>>

\* The event leaves the batch once every thread is joined.
AfterAttempt(left) ==
  /\ syncing' = left
  /\ batch' = IF left = NoThreads THEN Tail(batch) ELSE batch

\* A target's thread: the call succeeds.
AttemptSucceeds(t) ==
  /\ ~terminated /\ syncing[t] > 0
  /\ received' = [received EXCEPT ![t] = Append(@, Head(batch))]
  /\ AfterAttempt([syncing EXCEPT ![t] = 0])
  /\ UNCHANGED <<streamState, shouldStop, worker, eventQueue, healthy, syncPaused, published,
                 overflowed, passedOver, terminated>>

\* The call throws: another attempt, or handle_sync_error notes it.
AttemptFails(t) ==
  /\ ~terminated /\ syncing[t] > 0
  /\ AfterAttempt([syncing EXCEPT ![t] = @ - 1])
  /\ UNCHANGED <<streamState, shouldStop, worker, eventQueue, healthy, syncPaused, received,
                 published, overflowed, passedOver, terminated>>

EndBatch ==
  /\ ~terminated /\ worker = "batch" /\ Joined /\ batch = <<>>
  /\ worker' = "loop"
  /\ UNCHANGED <<streamState, shouldStop, eventQueue, batch, syncing, healthy, syncPaused, received,
                 published, overflowed, passedOver, terminated>>

WorkerEnds ==
  /\ ~terminated /\ worker = "loop" /\ shouldStop
  /\ worker' = "none"
  /\ UNCHANGED <<streamState, shouldStop, eventQueue, batch, syncing, healthy, syncPaused, received,
                 published, overflowed, passedOver, terminated>>

\* RealtimeSyncProcessor::pause and resume.
ToggleSync ==
  /\ ~terminated /\ syncPaused' = ~syncPaused
  /\ UNCHANGED <<streamState, shouldStop, worker, eventQueue, batch, syncing, healthy, received,
                 published, overflowed, passedOver, terminated>>

\* External: a target's connection goes or comes.
ConnectionChanges(t) ==
  /\ ~terminated
  /\ healthy' = IF t \in healthy THEN healthy \ {t} ELSE healthy \union {t}
  /\ UNCHANGED <<streamState, shouldStop, worker, eventQueue, batch, syncing, syncPaused, received,
                 published, overflowed, passedOver, terminated>>

StreamInit ==
  /\ streamState = "STOPPED" /\ shouldStop = FALSE /\ worker = "none"
  /\ eventQueue = <<>> /\ batch = <<>> /\ syncing = NoThreads
  /\ healthy = Targets /\ syncPaused = FALSE /\ received = [t \in Targets |-> <<>>]
  /\ published = 0 /\ overflowed = {} /\ passedOver = {} /\ terminated = FALSE

WorkerStep ==
  \/ TakeBatch \/ SyncToTargets \/ EndBatch \/ WorkerEnds
  \/ \E t \in Targets : AttemptSucceeds(t) \/ AttemptFails(t)

StreamNext ==
  \/ StartStream \/ RequestStop \/ FinishStop \/ PauseStream \/ ResumeStream
  \/ PublishEvent \/ WorkerStep \/ ToggleSync
  \/ \E t \in Targets : ConnectionChanges(t)

\* The worker and the threads it starts keep running.
StreamSpec == StreamInit /\ [][StreamNext]_streamVars /\ WF_streamVars(WorkerStep)

-----------------------------------------------------------------------------
StreamTypeOK ==
  /\ streamState \in {"STOPPED", "RUNNING", "PAUSED"}
  /\ worker \in {"none", "loop", "batch"}
  /\ Len(eventQueue) <= BufferSize /\ Len(batch) <= BatchSize
  /\ syncing \in [Targets -> 0..MaxRetry]

\* Every target receives events in the order of their publication and none
\* twice, through overflow, retries, pauses and restarts: the worker joins the
\* threads of an event before it starts those of the next.
TargetsFollowOrder ==
  \A t \in Targets : \A i \in 1..(Len(received[t]) - 1) : received[t][i] < received[t][i + 1]

\* A full queue loses its oldest event: nothing that was dropped is newer than
\* anything still queued.
OverflowDropsOldest == \A e \in overflowed : \A i \in DOMAIN eventQueue : e < eventQueue[i]

\* Queued events do not stay queued: the worker empties the queue again and
\* again, unless the stream is paused, being stopped or terminated; a target
\* whose calls fail holds the worker up for MaxRetry attempts and no longer.
QueuedIsTaken ==
  []<>(eventQueue = <<>> \/ streamState # "RUNNING" \/ shouldStop \/ terminated)
=============================================================================
