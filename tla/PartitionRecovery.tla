-------------------------- MODULE PartitionRecovery --------------------------
(***************************************************************************)
(* Failure detection and partition recovery on one node                    *)
(* (src/partition_recovery/): the FailureDetector with its message,        *)
(* heartbeat and analysis threads, the PartitionRecoveryManager its        *)
(* callbacks drive, and the conflicts a PartitionRecoveryContext gathers.  *)
(* The peers and the network are external: any heartbeat or acknowledgment *)
(* may arrive or be lost.                                                  *)
(*                                                                         *)
(* nodes_mutex_ is not recursive, and the thread that handles messages     *)
(* locks it twice on two paths; from then on every thread that needs the   *)
(* mutex waits for it (wedged).                                            *)
(***************************************************************************)
EXTENDS Integers, Sequences, FiniteSets, FiniteSetsExt, SequencesExt

CONSTANTS Peers,          \* nodes that may be monitored
          Timeout,        \* failure_timeout in ticks
          MaxFailures,    \* max_consecutive_failures
          Values,         \* values a conflict may report
          MaxReports      \* bound on the reports of one conflict

VARIABLES monitored,      \* keys of monitored_nodes_
          health,         \* peer -> "HEALTHY" or "FAILED"
          silent,         \* peer -> ticks since last_response, counted to Timeout + 1
          failures,       \* peer -> consecutive_failures
          topology,       \* the detector's current_partition_state_
          partitions,     \* detected_partitions_, as sets of nodes
          wedged,         \* nodes_mutex_ is locked by a thread that waits for it
          readOnly,       \* is_read_only_mode_
          clusterState,   \* the manager's current_partition_state_
          active,         \* active_recoveries_, by the nodes of their partition: every
                          \* round starts one more for the same partition, which does the same
          componentsUp,   \* external: the Raft node and the coordinator run
          reports,        \* history: conflict reports <<value, timestamp>> for a key
          conflict        \* the ConsistencyConflict kept for it: [values, stamps]

detector == <<monitored, health, silent, failures, topology, partitions>>
manager == <<readOnly, clusterState, active>>
conflicts == <<reports, conflict>>
pvars == <<detector, wedged, manager, componentsUp, conflicts>>

Self == "self"

Healthy == {p \in monitored : health[p] = "HEALTHY"}
Failed == {p \in monitored : health[p] # "HEALTHY"}

AddNode(p) ==
  /\ ~wedged
  /\ monitored' = monitored \union {p}
  /\ health' = [health EXCEPT ![p] = "HEALTHY"]
  /\ silent' = [silent EXCEPT ![p] = 0]
  /\ failures' = [failures EXCEPT ![p] = 0]
  /\ UNCHANGED <<topology, partitions, wedged, manager, componentsUp, conflicts>>

RemoveNode(p) ==
  /\ ~wedged /\ p \in monitored
  /\ monitored' = monitored \ {p}
  /\ health' = [health EXCEPT ![p] = "HEALTHY"]
  /\ silent' = [silent EXCEPT ![p] = 0]
  /\ failures' = [failures EXCEPT ![p] = 0]
  /\ UNCHANGED <<topology, partitions, wedged, manager, componentsUp, conflicts>>

Tick ==
  /\ \E p \in monitored : silent[p] <= Timeout
  /\ silent' = [p \in Peers |-> IF p \in monitored /\ silent[p] <= Timeout
                                THEN silent[p] + 1 ELSE silent[p]]
  /\ UNCHANGED <<monitored, health, failures, topology, partitions, wedged, manager,
                 componentsUp, conflicts>>

\* handle_heartbeat: notes the heartbeat, which nothing reads, and answers; a
\* sender that is not HEALTHY sends it into mark_node_recovered, which locks
\* nodes_mutex_ again.
HandleHeartbeat(p) ==
  /\ ~wedged /\ p \in Failed
  /\ wedged' = TRUE
  /\ UNCHANGED <<detector, manager, componentsUp, conflicts>>

\* handle_heartbeat_ack: last_response and consecutive_failures are set, then
\* update_node_response_time locks nodes_mutex_ again.
HandleHeartbeatAck(p) ==
  /\ ~wedged /\ p \in monitored
  /\ silent' = [silent EXCEPT ![p] = 0]
  /\ failures' = [failures EXCEPT ![p] = 0]
  /\ wedged' = TRUE
  /\ UNCHANGED <<monitored, health, topology, partitions, manager, componentsUp, conflicts>>

\* is_node_suspected_failed.
Suspected(p) == silent[p] > Timeout \/ failures[p] >= MaxFailures

\* find_connected_components: the healthy peers are with this node, every other
\* peer is alone.
Components(healthy, failed) == {healthy \union {Self}} \union {{p} : p \in failed}

\* is_majority_partition.
IsMajority(nodes, total) == Cardinality(nodes) > total \div 2

\* is_in_majority_partition counts the healthy peers, not the cluster.
InMajority(healthy) ==
  LET total == Cardinality(healthy) + 1
      majority == total \div 2 + 1
  IN Cardinality(healthy) >= majority - 1

\* A round of analysis_loop.  detect_node_failures marks every suspected peer
\* (on_node_failure may make the node read only); analyze_network_topology
\* reports every component to on_partition_detected, which starts a recovery
\* for each and makes the node read only for each that is no majority - the
\* failed peers' components included.
Analyze ==
  LET failing == {p \in monitored : Suspected(p)}
      failed  == Failed \union failing
      healthy == monitored \ failed
      parts   == Components(healthy, failed)
      total   == Cardinality(monitored) + 1
  IN
  /\ ~wedged
  /\ health' = [p \in Peers |-> IF p \in failing THEN "FAILED" ELSE health[p]]
  /\ failures' = [p \in Peers |-> IF p \in failing /\ health[p] = "HEALTHY"
                                  THEN failures[p] + 1 ELSE failures[p]]
  /\ IF Cardinality(parts) > 1
       THEN /\ topology' = "PARTITIONED"
            /\ partitions' = parts
            /\ active' = active \union parts
            /\ clusterState' = "PARTITIONED"
            /\ readOnly' = (readOnly \/ \E part \in parts : ~IsMajority(part, total)
                                     \/ (failing # {} /\ ~InMajority(healthy)))
       ELSE /\ topology' = IF topology = "PARTITIONED" THEN "RECOVERED" ELSE topology
            /\ UNCHANGED <<partitions, manager>>
  /\ UNCHANGED <<monitored, silent, wedged, componentsUp, conflicts>>

\* execute_partition_recovery in recovery_main_loop.  The Raft and transaction
\* parts only ask whether the component runs; no conflict is ever detected,
\* and asking needs nodes_mutex_.  The node leaves read-only mode when it
\* thinks itself in a majority.
RecoverPartition(part) ==
  /\ ~wedged /\ componentsUp
  /\ part \in active
  /\ active' = active \ {part}
  /\ clusterState' = "RECOVERED"
  /\ readOnly' = (readOnly /\ ~InMajority(Healthy))
  /\ UNCHANGED <<detector, wedged, componentsUp, conflicts>>

AbortPartitionRecovery(part) ==
  /\ part \in active
  /\ active' = active \ {part}
  /\ UNCHANGED <<detector, wedged, readOnly, clusterState, componentsUp, conflicts>>

\* External: the Raft node or the coordinator stops and starts.
ComponentChanges ==
  /\ componentsUp' = ~componentsUp
  /\ UNCHANGED <<detector, wedged, manager, conflicts>>

\* add_conflict: values are merged without duplicates, timestamps are appended.
AddConflict(v, t) ==
  /\ Len(reports) < MaxReports
  /\ \A i \in DOMAIN reports : reports[i][2] # t
  /\ reports' = Append(reports, <<v, t>>)
  /\ conflict' = [values |-> IF Contains(conflict.values, v) THEN conflict.values
                             ELSE Append(conflict.values, v),
                  stamps |-> Append(conflict.stamps, t)]
  /\ UNCHANGED <<detector, wedged, manager, componentsUp>>

\* apply_last_writer_wins_strategy: the value at the position of the largest
\* timestamp, none when there is no such position.
LastWriterWins(c) ==
  IF c.values = <<>> \/ c.stamps = <<>> THEN {}
  ELSE LET i == CHOOSE n \in DOMAIN c.stamps : \A m \in DOMAIN c.stamps : c.stamps[m] <= c.stamps[n]
       IN IF i <= Len(c.values) THEN {c.values[i]} ELSE {}

PInit ==
  /\ monitored = {} /\ health = [p \in Peers |-> "HEALTHY"]
  /\ silent = [p \in Peers |-> 0] /\ failures = [p \in Peers |-> 0]
  /\ topology = "NORMAL" /\ partitions = {} /\ wedged = FALSE
  /\ readOnly = FALSE /\ clusterState = "NORMAL" /\ active = {}
  /\ componentsUp = TRUE /\ reports = <<>> /\ conflict = [values |-> <<>>, stamps |-> <<>>]

DetectorStep ==
  \/ \E p \in Peers : AddNode(p) \/ RemoveNode(p) \/ HandleHeartbeat(p) \/ HandleHeartbeatAck(p)
  \/ Tick \/ Analyze

ManagerStep ==
  \/ \E part \in active : RecoverPartition(part) \/ AbortPartitionRecovery(part)
  \/ ComponentChanges

ConflictStep == \E v \in Values, t \in 1..MaxReports : AddConflict(v, t)

PNext == DetectorStep \/ ManagerStep \/ ConflictStep

RecoverAny == \E part \in active : RecoverPartition(part)

\* The clock, the analysis thread and the recovery thread keep running.
PSpec == PInit /\ [][PNext]_pvars /\ WF_pvars(Tick) /\ WF_pvars(Analyze) /\ WF_pvars(RecoverAny)

-----------------------------------------------------------------------------
PTypeOK ==
  /\ monitored \subseteq Peers
  /\ health \in [Peers -> {"HEALTHY", "FAILED"}]
  /\ silent \in [Peers -> 0..(Timeout + 1)]
  /\ topology \in {"NORMAL", "PARTITIONED", "RECOVERED"}
  /\ readOnly \in BOOLEAN /\ clusterState \in {"NORMAL", "PARTITIONED", "RECOVERED"}
  /\ active \subseteq SUBSET (Peers \union {Self})

\* No monitored peer stays silent for too long without being marked failed,
\* unless the detector has wedged: again and again every overdue peer is one the
\* detector holds as failed, because the analysis thread looks every second, and
\* at last_response alone.
SilentPeerIsFailed ==
  []<>(wedged \/ \A p \in monitored : silent[p] > Timeout => health[p] = "FAILED")

\* The partitions reported are disjoint and one of them holds this node, after
\* any sequence of failures, removals and repeated analyses.
PartitionsAreDisjoint ==
  partitions # {} =>
    /\ \A a, b \in partitions : a # b => a \cap b = {}
    /\ Self \in UNION partitions

\* A node does not stay read only behind a recovery: it leaves the mode, or no
\* recovery is left (they were aborted), or the detector has wedged or a
\* component is down.
RecoveryEndsReadOnly ==
  []<>(~readOnly \/ active = {} \/ wedged \/ ~componentsUp)

\* Reports of distinct values are resolved to the newest one.  (Two reports of
\* one value leave a value list shorter than the timestamp list, and the
\* positions no longer agree.)
DistinctReportsResolveToNewest ==
  (reports # <<>> /\ \A i, j \in DOMAIN reports : i # j => reports[i][1] # reports[j][1]) =>
    \E i \in DOMAIN reports :
      /\ \A j \in DOMAIN reports : reports[j][2] <= reports[i][2]
      /\ LastWriterWins(conflict) = {reports[i][1]}
=============================================================================
