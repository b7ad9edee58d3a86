-------------------------- MODULE CheckpointManager --------------------------
(***************************************************************************)
(* Checkpoints (src/recovery/checkpoint_manager.cpp): a checkpoint is a    *)
(* file with the captured database state and a metadata file; the manager  *)
(* lists the metadata it finds and prunes the oldest.  The database behind *)
(* the DatabaseSnapshot interface is external: its state and its LSN are   *)
(* the number of writes so far.  A file's CRC and size stand for its       *)
(* content.  Checkpoint ids are fresh.                                     *)
(***************************************************************************)
EXTENDS Positions, Functions

CONSTANTS MaxKeep,        \* max_checkpoints_to_keep, 0 keeps all
          Interval,       \* time_interval, in checks of the worker
          MaxIds,         \* bound on checkpoints created
          MaxWrites,      \* bound on database writes
          MaxTime         \* bound on the clock

VARIABLES db,             \* external: writes the database has taken
          now,            \* the clock
          ids,            \* checkpoint ids used
          images,         \* id -> content of its .checkpoint file
          metas,          \* id -> what its .meta file says
          list,           \* checkpoints_
          making,         \* the CheckpointInfo create_checkpoint works on, or NoInfo
          pruning,        \* ids cleanup_checkpoint_files has still to finish, and the file it is at
          up,             \* the process runs
          wedged,         \* checkpoint_mutex_ was locked again by its holder
          kept            \* history: created and reported, not deleted, pruned or damaged

cvars == <<db, now, ids, images, metas, list, making, pruning, up, wedged, kept>>

NoInfo == [id |-> 0, lsn |-> 0, time |-> 0, crc |-> 0, status |-> "NONE"]

\* A file of that id written over or removed.
Put(f, id, content) ==
  [x \in DOMAIN f \union {id} |-> IF x = id THEN content ELSE f[x]]
Drop(f, id) == [x \in DOMAIN f \ {id} |-> f[x]]

Idle == up /\ ~wedged /\ making = NoInfo /\ pruning = {}

\* The database, external, takes writes at any time.
DatabaseWrite == /\ up /\ db < MaxWrites
                 /\ db' = db + 1
                 /\ UNCHANGED <<now, ids, images, metas, list, making, pruning, up, wedged, kept>>

\* create_checkpoint up to get_current_lsn.
BeginCreate ==
  /\ Idle /\ ids < MaxIds
  /\ ids' = ids + 1
  /\ now' = now + 1
  /\ making' = [id |-> ids + 1, lsn |-> db, time |-> now + 1, crc |-> 0, status |-> "CREATING"]
  /\ UNCHANGED <<db, images, metas, list, pruning, up, wedged, kept>>

\* The LSN read when the capture is done.
CaptureStateLsnAfter(ok) ==
  /\ making.status = "CREATING"
  /\ IF ok THEN /\ images' = Put(images, making.id, making.lsn)
                /\ making' = [making EXCEPT !.lsn = db, !.crc = making.lsn, !.status = "COMPLETED"]
           ELSE making' = NoInfo /\ UNCHANGED images
  /\ UNCHANGED <<db, now, ids, metas, list, pruning, up, wedged, kept>>

\* capture_state, external, and the checksum over what it wrote; or it fails.
CaptureState(ok) ==
  /\ making.status = "CREATING"
  /\ IF ok THEN /\ images' = Put(images, making.id, db)
                /\ making' = [making EXCEPT !.crc = db, !.status = "COMPLETED"]
           ELSE making' = NoInfo /\ UNCHANGED images
  /\ UNCHANGED <<db, now, ids, metas, list, pruning, up, wedged, kept>>

\* The checkpoints of S newest first; no two were created at one time.
Times(S) == {c.time : c \in S}
ByAge(S) ==
  [n \in 1..Cardinality(Times(S)) |->
     CHOOSE c \in S : c.time = Nth(Times(S), Cardinality(Times(S)) + 1 - n)]

\* cleanup_old_checkpoints: newest first, what is beyond the limit goes.
Pruned(s) ==
  LET sorted == ByAge(Range(s)) IN
  IF MaxKeep = 0 \/ Len(s) <= MaxKeep THEN [keep |-> s, gone |-> {}]
  ELSE [keep |-> [n \in 1..MaxKeep |-> sorted[n]],
        gone |-> {sorted[n] : n \in (MaxKeep + 1)..Len(s)}]

\* save_checkpoint_metadata writes its fields line by line, the status near the
\* end; a crash leaves a file whose status still reads CREATING.
SaveMetadataStops ==
  /\ making.status = "COMPLETED"
  /\ metas' = Put(metas, making.id, [making EXCEPT !.status = "CREATING"])
  /\ up' = FALSE /\ making' = NoInfo /\ list' = <<>>
  /\ UNCHANGED <<db, now, ids, images, pruning, wedged, kept>>

\* The metadata is saved, the checkpoint listed, the oldest pruned.
FinishCreate ==
  /\ making.status = "COMPLETED"
  /\ LET p == Pruned(Append(list, making)) IN
     /\ metas' = Put(metas, making.id, making)
     /\ list' = p.keep
     /\ pruning' = {c.id : c \in p.gone}
     /\ kept' = (kept \union {making.id}) \ {c.id : c \in p.gone}
  /\ making' = NoInfo
  /\ UNCHANGED <<db, now, ids, images, up, wedged>>

\* cleanup_checkpoint_files removes the image first and the metadata then.
RemoveFile(id) ==
  /\ up /\ id \in pruning
  /\ IF id \in DOMAIN images
       THEN images' = Drop(images, id) /\ UNCHANGED <<metas, pruning>>
       ELSE /\ metas' = Drop(metas, id)
            /\ pruning' = pruning \ {id}
            /\ UNCHANGED images
  /\ UNCHANGED <<db, now, ids, list, making, up, wedged, kept>>

DeleteCheckpoint(id) ==
  /\ Idle /\ \E i \in DOMAIN list : list[i].id = id
  /\ list' = Select(list, {i \in DOMAIN list : list[i].id # id})
  /\ pruning' = {id}
  /\ kept' = kept \ {id}
  /\ UNCHANGED <<db, now, ids, images, metas, making, up, wedged>>

\* verify_checkpoint_integrity.
Verified(c) == c.id \in DOMAIN images /\ images[c.id] = c.crc

FindCorruptedCheckpoints ==
  /\ Idle /\ \E i \in DOMAIN list : ~Verified(list[i])
  /\ list' = [i \in DOMAIN list |->
                IF Verified(list[i]) THEN list[i] ELSE [list[i] EXCEPT !.status = "CORRUPTED"]]
  /\ UNCHANGED <<db, now, ids, images, metas, making, pruning, up, wedged, kept>>

\* restore_from_checkpoint and validate_checkpoint call get_checkpoint_info,
\* configure_auto_checkpoint calls stop_auto_checkpoint, with checkpoint_mutex_
\* held: each locks it again.
LockAgain == /\ Idle
             /\ wedged' = TRUE
             /\ UNCHANGED <<db, now, ids, images, metas, list, making, pruning, up, kept>>

\* should_create_checkpoint looks at the first of the list, which is the newest
\* one only as long as nothing was appended since the list was last sorted.
Due == IF list = <<>> THEN TRUE ELSE now - list[1].time >= Interval

\* A round of auto_checkpoint_worker.
WorkerCheck ==
  /\ Idle /\ now < MaxTime
  /\ IF Due /\ ids < MaxIds
       THEN /\ ids' = ids + 1
            /\ making' = [id |-> ids + 1, lsn |-> db, time |-> now + 1, crc |-> 0,
                          status |-> "CREATING"]
       ELSE UNCHANGED <<ids, making>>
  /\ now' = now + 1
  /\ UNCHANGED <<db, images, metas, list, pruning, up, wedged, kept>>

\* The medium damages an image that was checked in.
Damage(id) ==
  /\ id \in DOMAIN images \ {making.id} /\ images[id] # -1
  /\ images' = [images EXCEPT ![id] = -1]
  /\ kept' = kept \ {id}
  /\ UNCHANGED <<db, now, ids, metas, list, making, pruning, up, wedged>>

Crash ==
  /\ up
  /\ up' = FALSE /\ making' = NoInfo /\ pruning' = {} /\ list' = <<>> /\ wedged' = FALSE
  /\ UNCHANGED <<db, now, ids, images, metas, kept>>

\* load_all_checkpoints: every metadata file, newest first.
Start ==
  /\ ~up
  /\ up' = TRUE
  /\ list' = ByAge(Range(metas))
  /\ UNCHANGED <<db, now, ids, images, metas, making, pruning, wedged, kept>>

CInit ==
  /\ db = 0 /\ now = 0 /\ ids = 0 /\ images = <<>> /\ metas = <<>> /\ list = <<>>
  /\ making = NoInfo /\ pruning = {} /\ up = TRUE /\ wedged = FALSE /\ kept = {}

CNext ==
  \/ DatabaseWrite \/ BeginCreate \/ SaveMetadataStops \/ FinishCreate
  \/ \E ok \in BOOLEAN : CaptureState(ok)
  \/ \E id \in 1..MaxIds : RemoveFile(id) \/ DeleteCheckpoint(id) \/ Damage(id)
  \/ FindCorruptedCheckpoints \/ LockAgain \/ WorkerCheck
  \/ Crash \/ Start

CSpec == CInit /\ [][CNext]_cvars

-----------------------------------------------------------------------------
\* A listed checkpoint that claims to be complete and passes the integrity test
\* holds every write up to its LSN, so replay from that LSN loses nothing:
\* writes between reading the LSN and the capture, crashes in the middle of
\* the metadata and reloads included.
CompleteCoversLsn ==
  \A i \in DOMAIN list :
    list[i].status = "COMPLETED" /\ Verified(list[i]) => images[list[i].id] >= list[i].lsn

\* A checkpoint that was reported created is listed, complete and intact after
\* any crash and restart, until it is deleted, pruned or damaged.
ReportedSurvives ==
  up => \A id \in kept :
          \E i \in DOMAIN list : list[i].id = id /\ list[i].status = "COMPLETED" /\ Verified(list[i])

\* Pruning never removes the newest checkpoint: the one just reported survives
\* its own pruning, in whatever order the list is.
PruningKeepsNewest ==
  [][FinishCreate => making.id \in kept']_cvars

\* Checkpoints can be relied on: those listed cover their LSN, those reported
\* are listed, with writers, crashes, pruning and damage in between.
CheckpointsHold == CompleteCoversLsn /\ ReportedSurvives
=============================================================================
