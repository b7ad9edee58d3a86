------------------------------- MODULE MCLogs -------------------------------
(***************************************************************************)
(* The logs and what is rebuilt from them, for TLC: the segmented WAL with *)
(* its recovery manager, the checkpoints, and the replicated log of Raft.  *)
(* They share no state; a behaviour exercises one of them (focus).         *)
(***************************************************************************)
EXTENDS Raft, TLC

CONSTANTS Payloads, SegCap, MaxInMemory, MaxLsn, MaxSegment, Legacy, Widths,
          MaxKeep, Interval, MaxIds, MaxWrites, MaxTime

\* The limits are numbers; at least one segment stays in memory and a batch has
\* at least one; the lines of the legacy log have numbers.
ASSUME LogBounds ==
  /\ MaxKeep \in Nat
  /\ MaxInMemory \in Nat \ {0} /\ MaxLsn \in Nat /\ MaxSegment \in Nat
  /\ Legacy \in Seq(Payloads) /\ Len(Legacy) <= MaxLsn
  /\ Widths \subseteq Nat \ {0}

VARIABLES segs, files, currentLsn, nextId, open, migrating, migrated, session, before,
          recovering, request, queued, tasks, replayed, rejected,
          db, now, ids, images, metas, list, making, pruning, up, stuck, kept,
          focus

W == INSTANCE RecoveryManager WITH applied <- replayed, waiting <- queued
K == INSTANCE CheckpointManager WITH wedged <- stuck

wal == <<segs, files, currentLsn, nextId, open, migrating, migrated, session, before,
         recovering, request, queued, tasks, replayed, rejected>>
checkpoints == <<db, now, ids, images, metas, list, making, pruning, up, stuck, kept>>
mcvars == <<wal, checkpoints, rvars, focus>>

\* A legacy log of two lines.
MCLegacy == <<"p", "p">>

\* The cluster a behaviour is about is chosen at its start, in Raft's only.
MCInit ==
  /\ W!Init /\ K!CInit /\ RInit
  /\ focus \in {"wal", "checkpoints", "raft"}
  /\ focus # "raft" => ~reentrant /\ cluster = Servers

MCNext ==
  /\ UNCHANGED focus
  /\ \/ focus = "wal" /\ W!Next /\ UNCHANGED <<checkpoints, rvars>>
     \/ focus = "checkpoints" /\ K!CNext /\ UNCHANGED <<wal, rvars>>
     \/ focus = "raft" /\ RNext /\ UNCHANGED <<wal, checkpoints>>

MCSpec == MCInit /\ [][MCNext]_mcvars

\* What tells two states apart: a component that is not in focus stays as it
\* was; next_index_ and match_index_ are read by a leader only and set anew by
\* become_leader, the votes are read by a candidate only and set anew by
\* become_candidate; before is only compared with what a log that is opened
\* again holds.
MCView ==
  CASE focus = "wal" ->
         <<segs, files, currentLsn, nextId, open, migrating, migrated, session,
           recovering, request, queued, tasks, replayed, rejected>>
    [] focus = "checkpoints" -> checkpoints
    [] focus = "raft" ->
         <<reentrant, cluster, term, votedFor, role, log, commit, applied,
           waiting, replies, wedged, network, elected,
           [i \in Servers |-> IF role[i] = "CANDIDATE" THEN votes[i] ELSE {}],
           [i \in Servers |-> IF role[i] = "LEADER" THEN <<nextIndex[i], matchIndex[i]>> ELSE <<>>]>>

ServerSymmetry == Permutations(Servers)

-----------------------------------------------------------------------------
\* The properties of the instances; each is explained where its component is.
ReplayIsExact == W!ReplayIsExact
CheckpointsHold == K!CheckpointsHold

\* No step takes back what a later one relies on: clean-up keeps the entries
\* asked for, pruning the newest checkpoint, a node its vote.
PromisesAreKept == W!CleanupKeepsNeeded /\ K!PruningKeepsNewest /\ VoteIsKept
=============================================================================
