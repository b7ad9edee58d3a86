------------------------------ MODULE MCLoops ------------------------------
(***************************************************************************)
(* The components that are driven by a background thread, for TLC with     *)
(* fairness: the compaction worker, the flush thread of the concurrent     *)
(* engine, the failure detector and its recovery manager, the failover     *)
(* monitor, the change stream's worker, the event bus and its handlers,    *)
(* the TCP and gRPC servers; and what stream windows and queries compute.  *)
(* They share no state; a behaviour exercises one of them (focus), and     *)
(* only its threads are due.                                               *)
(***************************************************************************)
EXTENDS ConcurrentKVDB, CompactionLoop, TLC

CONSTANTS Peers, Timeout, MaxFailures, Values, MaxReports,
          Nodes, Bases, EndKey, SplitAt, FailureThreshold, RecoveryThreshold,
          ReplicationFactor, MaxReplicas,
          MaxEvents, BufferSize, BatchSize, Wanted, Targets, MaxRetry,
          WindowSize, MaxTime,
          EventKeys, Times, Span, Slide, Gap, MaxBatch,
          Connections, Handlers, Streams, PutsOnly, MaxWrites,
          QueryKeys, Texts, Limits

VARIABLES monitored, health, silent, failures, topology, partitions, wedged, readOnly,
          clusterState, active, componentsUp, reports, conflict,
          shards, nodes, alive, age, failed, failedShards, misses, answers, auto, monitor,
          streamState, shouldStop, worker, eventQueue, batch, syncing, healthy, syncPaused,
          received, published, overflowed, passedOver, terminated,
          started, stopping, pc, holding, queue, issued, handled, pending, flushed, handlerGone,
          clock, window, aggregated, expired, lastCall, longestGap, added,
          input,
          serving, listening, acceptor, conn, threads, stopper,
          handler, cancelled, inactive, subscriptions, stored, announcing, heard, since,
          contents, focus

P == INSTANCE PartitionRecovery
D == INSTANCE DistributedCluster
S == INSTANCE ChangeStream
B == INSTANCE EventBus WITH running <- started
W == INSTANCE StreamWindows WITH Size <- Span
V == INSTANCE Servers
Q == INSTANCE QueryEngine

compaction == <<strategy, levels, file_id, flushes>>
engine == <<next_seq, pending_writes, flush_requested, table, task_queue, running, submitted>>
partition == <<monitored, health, silent, failures, topology, partitions, wedged, readOnly,
               clusterState, active, componentsUp, reports, conflict>>
cluster == <<shards, nodes, alive, age, failed, failedShards, misses, answers, auto, monitor>>
stream == <<streamState, shouldStop, worker, eventQueue, batch, syncing, healthy, syncPaused,
            received, published, overflowed, passedOver, terminated>>
events == <<started, stopping, pc, holding, queue, issued, handled, pending, flushed, handlerGone,
            clock, window, aggregated, expired, lastCall, longestGap, added>>
servers == <<serving, listening, acceptor, conn, threads, stopper,
             handler, cancelled, inactive, subscriptions, stored, announcing, heard, since>>
others == <<input, servers, contents>>
mcvars == <<compaction, engine, partition, cluster, stream, events, others, focus>>

\* A negative number, two numbers whose order as strings is another, and a text.
MCTexts == {[rank |-> 1, numeric |-> TRUE, num |-> -9, pattern |-> "-*"],
            [rank |-> 2, numeric |-> TRUE, num |-> 10, pattern |-> "1*"],
            [rank |-> 3, numeric |-> TRUE, num |-> 9, pattern |-> "9"],
            [rank |-> 4, numeric |-> FALSE, num |-> 0, pattern |-> "key"]}

MCInit ==
  /\ focus \in {"compaction", "engine", "partition", "conflicts", "failover", "placement",
                "ranges", "stream", "bus", "aggregator", "windows", "tcp", "grpc", "queries"}
  /\ LoopInit /\ Init /\ P!PInit /\ D!DInit /\ S!StreamInit /\ B!BusInit /\ W!WindowsInit
  /\ V!ServersInit /\ Q!QueryInit
  /\ focus # "compaction" => strategy = "LEVELED"

-----------------------------------------------------------------------------
\* One component moves and the others stay.
InCompaction(A) ==
  focus = "compaction" /\ A /\ UNCHANGED <<focus, engine, partition, cluster, stream, events, others>>
InEngine(A) ==
  focus = "engine" /\ A /\ UNCHANGED <<focus, compaction, partition, cluster, stream, events, others>>
InPartition(f, A) ==
  focus = f /\ A /\ UNCHANGED <<focus, compaction, engine, cluster, stream, events, others>>
InCluster(f, A) ==
  focus = f /\ A /\ UNCHANGED <<focus, compaction, engine, partition, stream, events, others>>
InStream(A) ==
  focus = "stream" /\ A /\ UNCHANGED <<focus, compaction, engine, partition, cluster, events, others>>
InEvents(f, A) ==
  focus = f /\ A /\ UNCHANGED <<focus, compaction, engine, partition, cluster, stream, others>>
behind == <<focus, compaction, engine, partition, cluster, stream, events>>
InWindows(A) == focus = "windows" /\ A /\ UNCHANGED <<behind, servers, contents>>
InServer(f, A) == focus = f /\ A /\ UNCHANGED <<behind, input, contents>>
InQueries(A) == focus = "queries" /\ A /\ UNCHANGED <<behind, input, servers>>

\* The last node stays out of the clusters in which the monitor runs.
Seated == {n \in Nodes : n # "n3"}

MCNext ==
  \/ InCompaction(LoopNext)
  \/ InEngine(Next)
  \/ InPartition("partition", P!DetectorStep \/ P!ManagerStep)
  \/ InPartition("conflicts", P!ConflictStep)
  \/ InCluster("failover", \/ D!Heartbeats \/ D!MonitorStep \/ D!Operator
                           \/ \E n \in Seated : \/ D!AddNode(n) \/ D!RemoveNode(n)
                                                \/ \E id \in DOMAIN shards : D!AddReplica(id, n))
  \/ InCluster("placement", D!Placement)
  \/ InCluster("ranges", D!Ranges \/ \E n \in Seated : D!AddNode(n))
  \/ InStream(S!StreamNext)
  \/ InEvents("bus", B!BusStep)
  \/ InEvents("aggregator", B!AggregatorStep)
  \/ InWindows(W!WindowsNext)
  \/ InServer("tcp", V!TcpNext)
  \/ InServer("grpc", V!GrpcNext)
  \/ InQueries(Q!QueryNext)

\* The threads that the code starts keep running: the compaction worker looks
\* every second, the flush thread of the engine and of the batch handler wake
\* by their time-outs, analysis, recovery and monitor loops sleep between
\* rounds, the stream's and the bus's workers take what is there, the servers'
\* threads go on where no client is waited for.  A behaviour
\* has one focus for good, so threads of different components share a line: of
\* each disjunction only one member is ever enabled in a behaviour.
FirstThread ==
  \/ InCompaction(CompactOnce)
  \/ InEngine(flush_write_buffer)
  \/ InPartition("partition", P!Tick)
  \/ InCluster("failover", D!MonitorStep)
  \/ InStream(S!WorkerStep)
  \/ InEvents("bus", B!ProcessBatch)
  \/ InServer("tcp", V!TcpThread)

SecondThread ==
  \/ InPartition("partition", P!Analyze)
  \/ InEvents("bus", \E w \in Workers : w = "w1" /\ B!BusWorker(w))
  \/ InServer("grpc", \E x \in Streams : x = "s1" /\ V!StreamThread(x))

ThirdThread ==
  \/ InPartition("partition", P!RecoverAny)
  \/ InEvents("bus", \E w \in Workers : w # "w1" /\ B!BusWorker(w))
  \/ InServer("grpc", \E x \in Streams : x # "s1" /\ V!StreamThread(x))

MCFairness ==
  WF_mcvars(FirstThread) /\ WF_mcvars(SecondThread) /\ WF_mcvars(ThirdThread)

MCSpec == MCInit /\ [][MCNext]_mcvars /\ MCFairness

-----------------------------------------------------------------------------
\* The properties of the engine and of the instances; each is explained where its
\* component is.

\* What the detector, the recovery manager and the failover monitor believe hangs
\* together: partitions, conflicts, rotation and streaks.
MembershipIsSound ==
  /\ P!PTypeOK /\ P!PartitionsAreDisjoint /\ P!DistinctReportsResolveToNewest
  /\ D!DTypeOK /\ D!OutOfRotationIsFailed /\ D!StreaksExclude

\* Who serves others serves them right: events are delivered in order and at most
\* once, by the stream's worker to its targets, by the bus to its handlers, batches
\* and aggregators; a gRPC stream hears every write; a stopped server is quiet.
ServicesAreSound ==
  /\ S!StreamTypeOK /\ S!TargetsFollowOrder /\ S!OverflowDropsOldest
  /\ B!HandledOnce /\ B!BatchKeepsOrder /\ B!CollectorMissesNothing
  /\ V!ServersTypeOK /\ V!StoppedIsQuiet /\ V!StreamsHearAll

\* What is computed from given data is what the reference definitions give:
\* windows of a batch, answers of a query.
ComputationsAreRight ==
  /\ focus = "windows" => W!WindowsCover
  /\ focus = "queries" => Q!QueriesAnswer

\* What could be read before a step can be read after it: a get never goes back to
\* an older write, quorums meet, and keys keep a shard.
ReadsStillFind == ReadsNeverGoBack /\ D!QuorumsMeet /\ D!RebalanceKeepsKeys

\* The workers get their work done: compaction comes to rest, a full buffer, the
\* stream's queue, the bus's queue and the handler's batch are emptied, a stop and
\* the call of a cancelled stream return.
WorkGetsDone ==
  /\ CompactionSettles /\ RequestedFlushHappens
  /\ S!QueuedIsTaken /\ B!QueuedIsHandled /\ B!PendingIsFlushed
  /\ V!StopReturns /\ V!CancelledReturns

\* Failures are answered: a silent peer is found failed, the read-only mode of a
\* recovery ends, a failed primary is replaced.
FailuresAreAnswered ==
  P!SilentPeerIsFailed /\ P!RecoveryEndsReadOnly /\ D!FailedPrimaryIsReplaced
=============================================================================
