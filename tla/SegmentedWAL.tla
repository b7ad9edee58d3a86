---------------------------- MODULE SegmentedWAL ----------------------------
(***************************************************************************)
(* The segmented write-ahead log (src/recovery/segmented_wal.cpp) behind   *)
(* its adapter (wal_adapter.cpp): numbered segments, each a header and     *)
(* entries, kept in memory and in one file each.                           *)
(*                                                                         *)
(* An entry's payload (the operation, its key and value) is never looked   *)
(* at by the log and is a member of Payloads.  A segment holds SegCap      *)
(* entries instead of 64 MB.                                               *)
(***************************************************************************)
EXTENDS Positions

CONSTANTS Payloads,       \* what an entry says: PUT or DELETE, key and value
          SegCap,         \* entries that fit a segment (MAX_SEGMENT_SIZE)
          MaxInMemory,    \* max_segments_in_memory_
          MaxLsn,         \* bound on the numbers a process hands out
          MaxSegment,     \* bound on segment numbers
          Legacy          \* the payloads of a legacy log file to migrate, line by line

VARIABLES segs,           \* segments_, oldest first; the last one is current_segment_
          files,          \* segment number -> entries its file holds
          currentLsn,     \* current_lsn_
          nextId,         \* next_segment_id_
          open,           \* a process has the log open
          migrating,      \* lines migrate_from_legacy_wal has written, -1 when it does not run
          migrated,       \* history: some entry came with a number of its own
          session,        \* history: entries acknowledged since the log was opened
          before          \* history: how many entries it held when it was last closed

wvars == <<segs, files, currentLsn, nextId, open, migrating, migrated, session, before>>

Entry == [lsn : 1..MaxLsn, data : Payloads]

Segment == [id : 1..MaxSegment, entries : Seq(Entry), sealed : BOOLEAN,
            stamped : BOOLEAN,     \* header_crc32 was computed over the present header
            broken : BOOLEAN]      \* the segment's stream has failed

NewSegment(id) == [id |-> id, entries |-> <<>>, sealed |-> FALSE,
                   stamped |-> TRUE, broken |-> FALSE]

\* The last element, and what is before it.
Last(s) == s[Len(s)]
Front(s) == SubSeq(s, 1, Len(s) - 1)

\* get_end_lsn: 0 for a segment that never held an entry.
EndLsn(s) == IF s.entries = <<>> THEN 0 ELSE Last(s.entries).lsn

CanAdd(s, big) == ~s.sealed /\ ~big /\ Len(s.entries) < SegCap

\* seal_segment stamps the header and flushes the stream.
Sealed(s) == [s EXCEPT !.sealed = TRUE, !.stamped = TRUE]

\* add_entry after the room was checked: the header counts the entry, its
\* checksum is not computed again.
Appended(s, e) == [s EXCEPT !.entries = Append(@, e), !.stamped = FALSE]

\* Opening a segment truncates the file of its number.
Truncated(fs, id) == [x \in DOMAIN fs \union {id} |-> IF x = id THEN <<>> ELSE fs[x]]

\* Sealing the current segment and opening the next.
Rolled(ss) == Append(Front(ss) \o <<Sealed(Last(ss))>>, NewSegment(nextId))

\* cleanup_memory_segments: only the newest stay in memory; files stay.
Trimmed(ss) == IF Len(ss) <= MaxInMemory THEN ss
               ELSE SubSeq(ss, Len(ss) - MaxInMemory + 1, Len(ss))

\* write_entry with the number already chosen.  big is a payload larger than a
\* segment, fails a write the file refuses: both make add_entry return false,
\* write_entry throws, and the segments it has already rolled stay rolled.
Write(e, big, fails) ==
  LET roll == ~CanAdd(Last(segs), big)
      ss   == IF roll THEN Rolled(segs) ELSE segs
      cur  == Last(ss)
      fs   == IF roll THEN Truncated(files, cur.id) ELSE files
  IN /\ roll => nextId <= MaxSegment
     /\ nextId' = IF roll THEN nextId + 1 ELSE nextId
     /\ IF big \/ cur.broken \/ fails
          THEN /\ segs' = Front(ss) \o <<[cur EXCEPT !.broken = @ \/ (fails /\ ~big)]>>
               /\ files' = fs
               /\ UNCHANGED session
          ELSE /\ segs' = Trimmed(Front(ss) \o <<Appended(cur, e)>>)
               /\ files' = [fs EXCEPT ![cur.id] = Append(@, e)]
               /\ session' = Append(session, e)

\* log_put and log_del.
Log(data, big, fails) ==
  /\ open /\ currentLsn < MaxLsn
  /\ currentLsn' = currentLsn + 1
  /\ Write([lsn |-> currentLsn + 1, data |-> data], big, fails)
  /\ UNCHANGED <<open, migrating, migrated, before>>

StartMigration ==
  /\ open /\ migrating = -1
  /\ migrating' = 0
  /\ UNCHANGED <<segs, files, currentLsn, nextId, open, migrated, session, before>>

\* One line of migrate_from_legacy_wal: the line's position is its number, and
\* write_entry leaves current_lsn_ alone when the number is given.
MigrateLine ==
  /\ open /\ migrating \in 0..(Len(Legacy) - 1)
  /\ Write([lsn |-> migrating + 1, data |-> Legacy[migrating + 1]], FALSE, FALSE)
  /\ migrating' = migrating + 1
  /\ migrated' = TRUE
  /\ UNCHANGED <<currentLsn, open, before>>

\* seal_current_segment.
SealCurrentSegment ==
  /\ open /\ nextId <= MaxSegment
  /\ segs' = Rolled(segs)
  /\ files' = Truncated(files, nextId)
  /\ nextId' = nextId + 1
  /\ UNCHANGED <<currentLsn, open, migrating, migrated, session, before>>

Expendable(s, minLsn) == EndLsn(s) < minLsn /\ s.sealed

\* cleanup_old_segments(min_lsn_to_keep).
CleanupOldSegments(minLsn) ==
  LET gone == {i \in DOMAIN segs : Expendable(segs[i], minLsn)} IN
  /\ open /\ gone # {}
  /\ segs' = Select(segs, DOMAIN segs \ gone)
  /\ files' = [id \in DOMAIN files \ {segs[i].id : i \in gone} |-> files[id]]
  /\ UNCHANGED <<currentLsn, nextId, open, migrating, migrated, session, before>>

\* get_entries_since_lsn: of the segments that reach lsn the entries from lsn on,
\* sorted.  An entry is known by its place, the segment and the position in it.
Places(ss, lsn) ==
  {p \in UNION {{i} \X DOMAIN ss[i].entries : i \in DOMAIN ss} : ss[p[1]].entries[p[2]].lsn >= lsn}

NotAfter(ss, p, q) ==
  LET d == ss[p[1]].entries[p[2]]  e == ss[q[1]].entries[q[2]] IN
  \/ d.lsn < e.lsn
  \/ d.lsn = e.lsn /\ (p[1] < q[1] \/ (p[1] = q[1] /\ p[2] <= q[2]))

SortedEntries(ss, lsn) ==
  LET P == Places(ss, lsn) IN
  [n \in 1..Cardinality(P) |->
     LET p == CHOOSE p \in P : Cardinality({q \in P : NotAfter(ss, q, p)}) = n
     IN ss[p[1]].entries[p[2]]]

EntriesSince(lsn) ==
  SortedEntries(Select(segs, {i \in DOMAIN segs : EndLsn(segs[i]) >= lsn}), lsn)

\* The destructor, or a crash: the directory is all that is left.
Close ==
  /\ open
  /\ open' = FALSE
  /\ before' = Len(EntriesSince(0))
  /\ segs' = <<>> /\ session' = <<>>
  /\ migrating' = -1 /\ migrated' = FALSE
  /\ UNCHANGED <<files, currentLsn, nextId>>

\* The constructor.  load_existing_segments builds a WALSegment for every file,
\* and that constructor opens the file with trunc and writes a fresh header
\* before load_from_file reads it.  The header checksum covers the padding of a
\* struct on the stack, so load_from_file may refuse it: good are the files it
\* accepts.  wal_state.meta is written and never read.
Open(good) ==
  LET ids == [n \in 1..Cardinality(good) |-> Nth(good, n)]
      top == IF good = {} THEN 0 ELSE Last(ids)
  IN
  /\ ~open
  /\ good \subseteq DOMAIN files
  /\ top < MaxSegment
  /\ open' = TRUE
  /\ currentLsn' = 0
  /\ segs' = IF good = {} THEN <<NewSegment(1)>>
             ELSE [i \in DOMAIN ids |-> NewSegment(ids[i])]
  /\ nextId' = IF good = {} THEN 2 ELSE top + 1
  /\ files' = [id \in DOMAIN files \union (IF good = {} THEN {1} ELSE {}) |-> <<>>]
  /\ UNCHANGED <<migrating, migrated, session, before>>

WInit ==
  /\ segs = <<>> /\ files = <<>> /\ currentLsn = 0 /\ nextId = 1
  /\ open = FALSE /\ migrating = -1 /\ migrated = FALSE
  /\ session = <<>> /\ before = 0

WNext ==
  \/ \E data \in Payloads, big, fails \in BOOLEAN : Log(data, big, fails)
  \/ StartMigration \/ MigrateLine
  \/ SealCurrentSegment
  \/ \E l \in 1..(MaxLsn + 1) : CleanupOldSegments(l)
  \/ Close
  \/ \E good \in SUBSET (DOMAIN files) : Open(good)

WSpec == WInit /\ [][WNext]_wvars

-----------------------------------------------------------------------------
WTypeOK ==
  /\ segs \in Seq(Segment)
  /\ DOMAIN files \subseteq 1..MaxSegment
  /\ currentLsn \in 0..MaxLsn /\ nextId \in 1..(MaxSegment + 1)
  /\ open \in BOOLEAN /\ migrated \in BOOLEAN
  /\ migrating \in -1..Len(Legacy)
  /\ \A i \in DOMAIN segs : segs[i].id \in DOMAIN files

\* Replay never has a hole: what replay hands to the callbacks is the end of
\* what was acknowledged since the log was opened, whatever was rolled, sealed,
\* cleaned up, dropped from memory or refused on the way.  (Entries that came
\* with a number of their own share numbers with logged ones, and no order
\* between the two is kept.)
ReplayIsSuffix ==
  open /\ ~migrated =>
    \E n \in 0..Len(session) : EntriesSince(0) = SubSeq(session, n + 1, Len(session))

\* Every acknowledged entry that replay still knows is in the file of its
\* segment: auto flush pushes it there before the call returns, and neither
\* rolling nor a refused write damages it.
ReplayedIsOnDisk ==
  open => \A i \in DOMAIN segs : files[segs[i].id] = segs[i].entries

\* cleanup_old_segments(min) never changes what get_entries_since_lsn(min)
\* answers, however the entries are spread over sealed and open segments.
CleanupKeepsNeeded ==
  [][\A l \in 1..(MaxLsn + 1) :
       CleanupOldSegments(l) /\ ~migrated => EntriesSince(l)' = EntriesSince(l)]_wvars

\* What src/recovery/test_segmented_wal.cpp:187 asserts: a log that is opened
\* again gives back the entries it held when it was closed.
ReopenKeepsEntries ==
  open /\ session = <<>> => Len(EntriesSince(0)) = before
=============================================================================
