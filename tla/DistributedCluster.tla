-------------------------- MODULE DistributedCluster --------------------------
(***************************************************************************)
(* The cluster view that every DistributedKVDB node keeps                  *)
(* (src/distributed/): the ranges and replicas of the ShardManager, the    *)
(* nodes of the LoadBalancer, the FailoverManager with its monitor thread, *)
(* and the replicas a quorum request goes to.  Requests to other nodes are *)
(* simulated by the code, so no data is modelled.                          *)
(*                                                                         *)
(* A shard id is <<base, n>>, n counting the suffixes "_split".  Keys are  *)
(* positions; StartKey is the empty start key and EndKey the end key "~".  *)
(***************************************************************************)
EXTENDS Integers, Sequences, FiniteSets, FiniteSetsExt, SequencesExt

CONSTANTS Nodes,             \* node ids
          Bases,             \* ids a caller creates shards under; "shard_0" is one
          EndKey,            \* the end key "~"
          SplitAt,           \* position of the key "<shard id>_split"
          Timeout,           \* 30 seconds: failover_timeout_ and the balancer's own
          FailureThreshold, RecoveryThreshold,
          ReplicationFactor,
          MaxReplicas        \* bound on the length of a replica list

VARIABLES shards,            \* shards_: id -> [start, end, primary, replicas]
          nodes,             \* keys of nodes_ in the balancer
          alive,             \* node -> is_alive
          age,               \* node -> time since last_heartbeat, counted to Timeout
          failed,            \* failed_nodes_
          failedShards,      \* failed_shards_
          misses,            \* node_failure_counts_, counted to FailureThreshold
          answers,           \* node_recovery_counts_, counted to RecoveryThreshold
          auto,              \* auto_failover_enabled_
          monitor            \* the monitor thread: [at, todo]

balancer == <<nodes, alive, age>>
failover == <<failed, failedShards, misses, answers>>
dvars == <<shards, nodes, alive, age, failed, failedShards, misses, answers, auto, monitor>>

NoNode == "none"
StartKey == 0
KeySpace == StartKey..(EndKey - 1)
Ids == Bases \X {0, 1}
Idle == [at |-> "idle", todo |-> {}]

Without(f, x) == [y \in DOMAIN f \ {x} |-> f[y]]
With(f, x, v) == [y \in DOMAIN f \union {x} |-> IF y = x THEN v ELSE f[y]]
Capped(n, max) == IF n < max THEN n + 1 ELSE max

-----------------------------------------------------------------------------
(* LoadBalancer *)

\* get_healthy_nodes and is_node_healthy: alive and heard of in 30 seconds.
Healthy == {n \in nodes : alive[n] /\ age[n] < Timeout}

AddNode(n) ==
  /\ n \notin nodes
  /\ nodes' = nodes \union {n}
  /\ alive' = [alive EXCEPT ![n] = TRUE]
  /\ age' = [age EXCEPT ![n] = 0]
  /\ UNCHANGED <<shards, failover, auto, monitor>>

\* FailoverManager is not told.
RemoveNode(n) ==
  /\ n \in nodes
  /\ nodes' = nodes \ {n}
  /\ alive' = [alive EXCEPT ![n] = FALSE]
  /\ age' = [age EXCEPT ![n] = 0]
  /\ UNCHANGED <<shards, failover, auto, monitor>>

\* update_node_load is the heartbeat.
UpdateNodeLoad(n) ==
  /\ n \in nodes
  /\ age' = [age EXCEPT ![n] = 0]
  /\ UNCHANGED <<shards, nodes, alive, failover, auto, monitor>>

Tick ==
  /\ \E n \in nodes : age[n] < Timeout
  /\ age' = [n \in Nodes |-> IF n \in nodes THEN Capped(age[n], Timeout) ELSE age[n]]
  /\ UNCHANGED <<shards, nodes, alive, failover, auto, monitor>>

-----------------------------------------------------------------------------
(* ShardManager *)

NewShard(start, end) == [start |-> start, end |-> end, primary |-> NoNode, replicas |-> <<>>]

\* is_key_in_range; get_shard_for_key takes the first shard of an unordered map
\* that has the key, any of these.
Owners(sh, k) == {id \in DOMAIN sh : sh[id].start <= k /\ (sh[id].end = EndKey \/ k < sh[id].end)}

Covered(sh) == {k \in KeySpace : Owners(sh, k) # {}}

ReplicasOf(id) == IF id \in DOMAIN shards THEN shards[id].replicas ELSE <<>>

\* DistributedKVDB::create_shard: ranges may overlap; select_replica_nodes takes
\* a random order of healthy nodes, the first of them the primary.
CreateShard(b, start, end) ==
  /\ <<b, 0>> \notin DOMAIN shards
  /\ \E order \in SetToSeqs(Healthy) :
       LET chosen == SubSeq(order, 1, Min({ReplicationFactor, Len(order)}))
       IN shards' = With(shards, <<b, 0>>,
                         [start |-> start, end |-> end, replicas |-> chosen,
                          primary |-> IF chosen = <<>> THEN NoNode ELSE chosen[1]])
  /\ UNCHANGED <<balancer, failover, auto, monitor>>

DeleteShard(id) ==
  /\ id \in DOMAIN shards
  /\ shards' = Without(shards, id)
  /\ UNCHANGED <<balancer, failover, auto, monitor>>

AddReplica(id, n) ==
  /\ id \in DOMAIN shards /\ ~Contains(shards[id].replicas, n)
  /\ Len(shards[id].replicas) < MaxReplicas
  /\ shards' = [shards EXCEPT ![id].replicas = Append(@, n)]
  /\ UNCHANGED <<balancer, failover, auto, monitor>>

\* The primary stays, replica or not.
RemoveReplica(id, n) ==
  /\ id \in DOMAIN shards /\ Contains(shards[id].replicas, n)
  /\ shards' = [shards EXCEPT ![id].replicas = SelectSeq(@, LAMBDA r : r # n)]
  /\ UNCHANGED <<balancer, failover, auto, monitor>>

\* migrate_shard: the first occurrence is replaced, by a node that may be a
\* replica already.
MigrateShard(id, from, to) ==
  /\ id \in DOMAIN shards
  /\ shards' = [shards EXCEPT
       ![id].primary = IF @ = from THEN to ELSE @,
       ![id].replicas = IF Contains(@, from)
                        THEN [@ EXCEPT ![Min({i \in DOMAIN @ : @[i] = from})] = to] ELSE @]
  /\ UNCHANGED <<balancer, failover, auto, monitor>>

\* The new shard starts after the split key.
SplitShardSkipsKey(shard) ==
  <<[shard EXCEPT !.end = SplitAt], [shard EXCEPT !.start = SplitAt + 1]>>

\* split_shard: the original ends at the split key, the new shard takes the rest.
SplitShard(shard) ==
  <<[shard EXCEPT !.end = SplitAt], [shard EXCEPT !.start = SplitAt]>>

\* rebalance_shards: the simulated size, a hash of the id, is above the
\* threshold for "shard_0", "shard_1", ... and below it for their "_split" ids.
\* A new shard replaces what was kept under its id.
RebalanceShards ==
  LET large == {id \in DOMAIN shards : id[2] = 0}
      half(id) == SplitShard(shards[<<id[1], 0>>])[id[2] + 1]
  IN /\ shards' = [id \in DOMAIN shards \union {<<big[1], 1>> : big \in large} |->
                      IF <<id[1], 0>> \in large THEN half(id) ELSE shards[id]]
     /\ UNCHANGED <<balancer, failover, auto, monitor>>

\* DistributedKVDB: the replicas a quorum read or write is sent to, a prefix of
\* the list.
QuorumOf(replicas) == Range(SubSeq(replicas, 1, Min({Len(replicas), Len(replicas) \div 2 + 1})))

-----------------------------------------------------------------------------
(* FailoverManager *)

\* The first replica, whatever its state.
PromoteFirst(sh, id, bad, healthy) ==
  IF sh[id].replicas = <<>> THEN sh ELSE [sh EXCEPT ![id].primary = sh[id].replicas[1]]

\* find_best_replica_for_promotion and promote_replica_to_primary: the first
\* replica that is neither failed nor unhealthy becomes the primary.
Promote(sh, id, bad, healthy) ==
  LET good == {i \in DOMAIN sh[id].replicas : sh[id].replicas[i] \in healthy \ bad}
  IN IF good = {} THEN sh
     ELSE [sh EXCEPT ![id].primary = sh[id].replicas[Min(good)]]

\* handle_node_failure.
HandleNodeFailure(n, bad, healthy) ==
  [id \in DOMAIN shards |-> IF shards[id].primary = n THEN Promote(shards, id, bad, healthy)[id]
                            ELSE shards[id]]

\* ping_node: a node the balancer does not know does not answer.
Answers(n) == n \in nodes /\ age[n] < Timeout

\* detect_node_failure, the node answers.
NodeAnswers(n) ==
  /\ Answers(n)
  /\ answers' = [answers EXCEPT ![n] = Capped(@, RecoveryThreshold)]
  /\ misses' = [misses EXCEPT ![n] = 0]
  /\ IF n \in failed /\ answers'[n] >= RecoveryThreshold
       THEN /\ failed' = failed \ {n}
            /\ alive' = [alive EXCEPT ![n] = TRUE]
            /\ age' = [age EXCEPT ![n] = 0]
       ELSE UNCHANGED <<failed, alive, age>>
  /\ UNCHANGED <<shards, nodes, failedShards>>

\* detect_node_failure, the node does not answer.
NodeMisses(n) ==
  /\ ~Answers(n)
  /\ misses' = [misses EXCEPT ![n] = Capped(@, FailureThreshold)]
  /\ answers' = [answers EXCEPT ![n] = 0]
  /\ IF misses'[n] >= FailureThreshold
       THEN /\ failed' = failed \union {n}
            /\ alive' = [alive EXCEPT ![n] = FALSE]
            /\ shards' = IF auto THEN HandleNodeFailure(n, failed', Healthy \ {n}) ELSE shards
       ELSE UNCHANGED <<failed, alive, shards>>
  /\ UNCHANGED <<nodes, age, failedShards>>

\* monitor_loop starts a round: check_node_health copies the node list.
StartRound ==
  /\ monitor = Idle
  /\ monitor' = [at |-> "nodes", todo |-> nodes]
  /\ UNCHANGED <<shards, balancer, failover, auto>>

DetectNodeFailure(n) ==
  /\ monitor.at = "nodes" /\ n \in monitor.todo
  /\ monitor' = [monitor EXCEPT !.todo = @ \ {n}]
  /\ NodeAnswers(n) \/ NodeMisses(n)
  /\ UNCHANGED auto

\* check_shard_health copies the shard list.
CheckShardHealth ==
  /\ monitor = [at |-> "nodes", todo |-> {}]
  /\ monitor' = [at |-> "shards", todo |-> DOMAIN shards]
  /\ UNCHANGED <<shards, balancer, failover, auto>>

\* check_shard_availability.
Available(id) ==
  id \in DOMAIN shards /\ shards[id].primary # NoNode /\ shards[id].primary \notin failed

\* detect_shard_failure, with handle_shard_failure.
DetectShardFailure(id) ==
  /\ monitor.at = "shards" /\ id \in monitor.todo
  /\ monitor' = [monitor EXCEPT !.todo = @ \ {id}]
  /\ IF Available(id)
       THEN UNCHANGED <<failedShards, shards>>
       ELSE /\ failedShards' = failedShards \union {id}
            /\ shards' = IF auto /\ id \in DOMAIN shards
                         THEN Promote(shards, id, failed, Healthy) ELSE shards
  /\ UNCHANGED <<balancer, failed, misses, answers, auto>>

\* perform_auto_failover ends the round: every shard that ever failed gets its
\* first healthy replica as primary again.
PerformAutoFailover ==
  /\ monitor = [at |-> "shards", todo |-> {}]
  /\ monitor' = Idle
  /\ shards' = IF auto
               THEN [id \in DOMAIN shards |-> IF id \in failedShards
                                              THEN Promote(shards, id, failed, Healthy)[id]
                                              ELSE shards[id]]
               ELSE shards
  /\ UNCHANGED <<balancer, failover, auto>>

\* The balancer is not told.
RecoverNodeHereOnly(n) ==
  /\ n \in failed
  /\ failed' = failed \ {n}
  /\ misses' = [misses EXCEPT ![n] = 0]
  /\ answers' = [answers EXCEPT ![n] = 0]
  /\ UNCHANGED <<shards, balancer, failedShards, auto, monitor>>

\* recover_node, by hand.
RecoverNode(n) ==
  /\ n \in failed
  /\ failed' = failed \ {n}
  /\ misses' = [misses EXCEPT ![n] = 0]
  /\ answers' = [answers EXCEPT ![n] = 0]
  /\ alive' = IF n \in nodes THEN [alive EXCEPT ![n] = TRUE] ELSE alive
  /\ age' = [age EXCEPT ![n] = 0]
  /\ UNCHANGED <<shards, nodes, failedShards, auto, monitor>>

RecoverShard(id) ==
  /\ id \in failedShards
  /\ failedShards' = failedShards \ {id}
  /\ UNCHANGED <<shards, balancer, failed, misses, answers, auto, monitor>>

\* promote_replica_to_primary, called by hand.
PromoteReplicaToPrimary(id, n) ==
  /\ Contains(ReplicasOf(id), n)
  /\ shards' = [shards EXCEPT ![id].primary = n]
  /\ UNCHANGED <<balancer, failover, auto, monitor>>

SetAutoFailover(b) ==
  /\ auto # b /\ auto' = b
  /\ UNCHANGED <<shards, balancer, failover, monitor>>

-----------------------------------------------------------------------------
DInit ==
  /\ shards = [id \in {<<CHOOSE b \in Bases : TRUE, 0>>} |-> NewShard(StartKey, EndKey)]
  /\ nodes = {} /\ alive = [n \in Nodes |-> FALSE] /\ age = [n \in Nodes |-> 0]
  /\ failed = {} /\ failedShards = {}
  /\ misses = [n \in Nodes |-> 0] /\ answers = [n \in Nodes |-> 0]
  /\ auto = TRUE /\ monitor = Idle

Membership == \E n \in Nodes : AddNode(n) \/ RemoveNode(n)

Placement ==
  \E id \in DOMAIN shards, n \in Nodes :
    \/ AddReplica(id, n) \/ RemoveReplica(id, n)
    \/ \E m \in Nodes : MigrateShard(id, n, m)

Ranges ==
  \/ \E b \in Bases, start \in KeySpace, end \in 1..EndKey : start < end /\ CreateShard(b, start, end)
  \/ \E id \in DOMAIN shards : DeleteShard(id)
  \/ RebalanceShards

MonitorStep ==
  \/ StartRound \/ CheckShardHealth \/ PerformAutoFailover
  \/ \E n \in Nodes : DetectNodeFailure(n)
  \/ \E id \in Ids : DetectShardFailure(id)

Heartbeats == Tick \/ \E n \in Nodes : UpdateNodeLoad(n)

Operator ==
  \/ \E n \in Nodes : RecoverNode(n)
  \/ \E id \in Ids : RecoverShard(id)
  \/ \E id \in Ids, n \in Nodes : PromoteReplicaToPrimary(id, n)
  \/ \E b \in BOOLEAN : SetAutoFailover(b)

DNext == Membership \/ Placement \/ Ranges \/ MonitorStep \/ Heartbeats \/ Operator

\* The monitor thread keeps running.
DSpec == DInit /\ [][DNext]_dvars /\ WF_dvars(MonitorStep)

-----------------------------------------------------------------------------
DTypeOK ==
  /\ DOMAIN shards \subseteq Ids
  /\ \A id \in DOMAIN shards : /\ shards[id].start \in KeySpace /\ shards[id].end \in 0..EndKey
                               /\ Range(shards[id].replicas) \subseteq Nodes
                               /\ shards[id].primary \in Nodes \union {NoNode}
  /\ nodes \subseteq Nodes /\ failed \subseteq Nodes /\ failedShards \subseteq Ids
  /\ alive \in [Nodes -> BOOLEAN] /\ age \in [Nodes -> 0..Timeout]
  /\ misses \in [Nodes -> 0..FailureThreshold] /\ answers \in [Nodes -> 0..RecoveryThreshold]

\* A node that the balancer keeps out of rotation is one the failover manager
\* still holds as failed, and so will bring back when it answers again.  (The
\* converse does not hold: a failed node removed and added anew is in rotation.)
OutOfRotationIsFailed == \A n \in nodes : ~alive[n] => n \in failed

\* Failing is decided on consecutive misses and recovery on consecutive
\* answers: the two streaks are never both running, and no node is held failed
\* behind a streak of answers that should have recovered it.
StreaksExclude ==
  \A n \in Nodes : /\ misses[n] = 0 \/ answers[n] = 0
                   /\ n \in failed => answers[n] < RecoveryThreshold

\* No shard keeps a failed primary for good while one of its replicas is in
\* rotation and automatic failover is on: again and again every shard has a
\* primary that has not failed, or no replica to promote.
FailedPrimaryIsReplaced ==
  []<>(~auto \/ \A id \in DOMAIN shards :
         \/ shards[id].primary \notin failed
         \/ Range(shards[id].replicas) \cap (Healthy \ failed) = {})

\* A quorum read after one change of a replica list still meets the quorum an
\* earlier write went to: both are prefixes of the list, longer than half of
\* it.  (For a list without repeated nodes; a migration can repeat one.)
QuorumsMeet ==
  [][shards' # shards /\ Placement => \A id \in DOMAIN shards :
       LET old == shards[id].replicas new == shards'[id].replicas
       IN (Len(old) >= 2 /\ IsInjective(old) /\ new # <<>>) => QuorumOf(old) \cap QuorumOf(new) # {}]_dvars

\* Rebalancing loses no key: every key that had a shard has one after, as long
\* as no shard that is split was split before.  (The second split of a shard
\* replaces the first one's result by an empty range.)
RebalanceKeepsKeys ==
  [][shards' # shards /\ RebalanceShards /\ (\A id \in DOMAIN shards : id[2] = 0)
       => Covered(shards) \subseteq Covered(shards')]_dvars
=============================================================================
