------------------------------- MODULE Caches -------------------------------
(***************************************************************************)
(* The block cache and the two-level cache (src/src/cache).  A level is    *)
(* the list lru_ with the map cache_ that points into it: here one         *)
(* sequence of items, the most recently used first.  Each level has a      *)
(* mutex of its own, so a MultiLevelCache::get that misses in L1 is four   *)
(* steps (look in L1, look in L2, ask whether to promote, promote) between *)
(* which other threads may run.  The legacy BlockCache has no mutex and    *)
(* one user at a time here.                                                *)
(***************************************************************************)
EXTENDS Naturals, Sequences, SequencesExt

CONSTANTS Readers,       \* threads inside MultiLevelCache::get
          CacheKeys,     \* block ids
          L1Capacity, L2Capacity,
          HotThreshold,  \* HOT_THRESHOLD
          MaxPuts        \* bound: values are numbered in the order of the puts

VARIABLES l1, l2, legacy,  \* the three caches, sequences of items
          kind,            \* current_type_
          reader,          \* what each thread inside get is about to do
          puts,            \* puts made so far: the next value
          latest,          \* the last value put under each key, 0 if none
          recent           \* level -> all keys it ever handled, newest first

cacheVars == <<l1, l2, legacy, kind, reader, puts, latest, recent>>

Levels == {"l1", "l2", "legacy"}
Idle == [at |-> "idle", key |-> CHOOSE k \in CacheKeys : TRUE, value |-> 0]

CacheInit ==
  /\ l1 = <<>> /\ l2 = <<>> /\ legacy = <<>>
  /\ kind = "MULTI_LEVEL_CACHE"
  /\ reader = [r \in Readers |-> Idle]
  /\ puts = 0
  /\ latest = [k \in CacheKeys |-> 0]
  /\ recent = [v \in Levels |-> <<>>]

-----------------------------------------------------------------------------
(* One level.                                                              *)

CachedKeys(level) == {level[i].key : i \in DOMAIN level}
ItemOf(level, k) == SelectSeq(level, LAMBDA x : x.key = k)[1]
Others(level, k) == SelectSeq(level, LAMBDA x : x.key # k)

(* access_count is only ever compared with HOT_THRESHOLD: it is not counted *)
(* further here.                                                            *)
Counted(x) == [x EXCEPT !.count = IF @ < HotThreshold THEN @ + 1 ELSE @]

(* splice: the item of k moves to the front, counted once more.            *)
Touched(level, k) == <<Counted(ItemOf(level, k))>> \o Others(level, k)

(* A hit that leaves the item where it is.                                 *)
TouchedInPlace(level, k) ==
  [i \in DOMAIN level |-> IF level[i].key = k THEN Counted(level[i]) ELSE level[i]]

(* HotDataCache::get, a hit.                                               *)
HotHit(level, k) == Touched(level, k)

(* L2BlockCache::get, a hit.                                               *)
L2Hit(level, k) == Touched(level, k)

(* BlockCache::get, a hit; this cache keeps no count.                      *)
LegacyHit(level, k) == <<ItemOf(level, k)>> \o Others(level, k)

(* evict_lru: nothing to do on an empty list.                              *)
EvictLru(level) == IF level = <<>> THEN level ELSE SubSeq(level, 1, Len(level) - 1)

Room(level, cap) == IF Len(level) >= cap THEN EvictLru(level) ELSE level

(* An update keeps the access count; a new item starts at 1.               *)
Stored(level, k, v, cap) ==
  IF k \in CachedKeys(level)
    THEN <<[ItemOf(level, k) EXCEPT !.value = v]>> \o Others(level, k)
    ELSE <<[key |-> k, value |-> v, count |-> 1]>> \o Room(level, cap)

(* HotDataCache::put, L2BlockCache::put and BlockCache::put.               *)
HotPut(level, k, v) == Stored(level, k, v, L1Capacity)
L2Put(level, k, v) == Stored(level, k, v, L2Capacity)
LegacyPut(level, k, v) == Stored(level, k, v, L2Capacity)

(* should_promote_to_l1.                                                   *)
ShouldPromote(level, k) ==
  k \in CachedKeys(level) /\ ItemOf(level, k).count >= HotThreshold

Used(v, k) == recent' = [recent EXCEPT ![v] = <<k>> \o SelectSeq(@, LAMBDA x : x # k)]

-----------------------------------------------------------------------------
(* MultiLevelCache::get, one step per critical section.                    *)

LookInL1(r, k) ==
  /\ kind = "MULTI_LEVEL_CACHE" /\ reader[r].at = "idle"
  /\ IF k \in CachedKeys(l1)
       THEN l1' = HotHit(l1, k) /\ Used("l1", k) /\ UNCHANGED reader
       ELSE /\ reader' = [reader EXCEPT ![r] = [Idle EXCEPT !.at = "l2", !.key = k]]
            /\ UNCHANGED <<l1, recent>>
  /\ UNCHANGED <<l2, legacy, kind, puts, latest>>

LookInL2(r) ==
  LET k == reader[r].key
  IN  /\ reader[r].at = "l2"
      /\ IF k \in CachedKeys(l2)
           THEN /\ l2' = L2Hit(l2, k)
                /\ Used("l2", k)
                /\ reader' = [reader EXCEPT ![r].at = "ask",
                                            ![r].value = ItemOf(l2, k).value]
           ELSE reader' = [reader EXCEPT ![r] = Idle] /\ UNCHANGED <<l2, recent>>
      /\ UNCHANGED <<l1, legacy, kind, puts, latest>>

AskPromotion(r) ==
  /\ reader[r].at = "ask"
  /\ reader' = [reader EXCEPT ![r] = IF ShouldPromote(l2, reader[r].key)
                                       THEN [@ EXCEPT !.at = "promote"] ELSE Idle]
  /\ UNCHANGED <<l1, l2, legacy, kind, puts, latest, recent>>

PromoteFromL2(r) ==
  /\ reader[r].at = "promote"
  /\ l1' = HotPut(l1, reader[r].key, reader[r].value)
  /\ Used("l1", reader[r].key)
  /\ reader' = [reader EXCEPT ![r] = Idle]
  /\ UNCHANGED <<l2, legacy, kind, puts, latest>>

(* CacheManager::put: the two-level cache stores in L2 only.               *)
Put(k) ==
  /\ puts < MaxPuts
  /\ puts' = puts + 1
  /\ latest' = [latest EXCEPT ![k] = puts + 1]
  /\ IF kind = "MULTI_LEVEL_CACHE"
       THEN l2' = L2Put(l2, k, puts + 1) /\ Used("l2", k) /\ UNCHANGED legacy
       ELSE legacy' = LegacyPut(legacy, k, puts + 1) /\ Used("legacy", k)
            /\ UNCHANGED l2
  /\ UNCHANGED <<l1, kind, reader>>

(* warm_cache of one pair: straight into L1.                               *)
WarmCache(k) ==
  /\ puts < MaxPuts
  /\ puts' = puts + 1
  /\ latest' = [latest EXCEPT ![k] = puts + 1]
  /\ IF kind = "MULTI_LEVEL_CACHE"
       THEN l1' = HotPut(l1, k, puts + 1) /\ Used("l1", k) /\ UNCHANGED legacy
       ELSE legacy' = LegacyPut(legacy, k, puts + 1) /\ Used("legacy", k)
            /\ UNCHANGED l1
  /\ UNCHANGED <<l2, kind, reader>>

(* CacheManager::get in legacy mode and get_block_cache().get, which       *)
(* SSTableReader::get calls in either mode, on a hit.                      *)
LegacyGet(k) ==
  /\ k \in CachedKeys(legacy)
  /\ legacy' = LegacyHit(legacy, k)
  /\ Used("legacy", k)
  /\ UNCHANGED <<l1, l2, kind, reader, puts, latest>>

(* get_block_cache().put: SSTableReader::get stores what it read.          *)
BlockCachePut(k) ==
  /\ puts < MaxPuts
  /\ puts' = puts + 1
  /\ legacy' = LegacyPut(legacy, k, puts + 1)
  /\ Used("legacy", k)
  /\ UNCHANGED <<l1, l2, kind, reader, latest>>

(* switch_to_legacy and switch_to_multi_level drop the other caches.  The  *)
(* managers are swapped while no thread is inside them.                    *)
Quiet == \A r \in Readers : reader[r].at = "idle"

SwitchToLegacy ==
  /\ kind = "MULTI_LEVEL_CACHE" /\ Quiet
  /\ kind' = "LEGACY_BLOCK_CACHE"
  /\ l1' = <<>> /\ l2' = <<>> /\ legacy' = <<>>
  /\ recent' = [v \in Levels |-> <<>>]
  /\ latest' = [k \in CacheKeys |-> 0]
  /\ UNCHANGED <<reader, puts>>

SwitchToMultiLevel ==
  /\ kind = "LEGACY_BLOCK_CACHE"
  /\ kind' = "MULTI_LEVEL_CACHE"
  /\ legacy' = <<>>
  /\ recent' = [recent EXCEPT !["legacy"] = <<>>]
  /\ latest' = [k \in CacheKeys |-> 0]
  /\ UNCHANGED <<l1, l2, reader, puts>>

CacheNext ==
  \/ \E r \in Readers : \/ \E k \in CacheKeys : LookInL1(r, k)
                        \/ LookInL2(r) \/ AskPromotion(r) \/ PromoteFromL2(r)
  \/ \E k \in CacheKeys : Put(k) \/ WarmCache(k) \/ LegacyGet(k) \/ BlockCachePut(k)
  \/ SwitchToLegacy \/ SwitchToMultiLevel

CacheSpec == CacheInit /\ [][CacheNext]_cacheVars

-----------------------------------------------------------------------------
KeySeq(level) == [i \in DOMAIN level |-> level[i].key]
PrefixOf(level, order, cap) ==
  /\ Len(level) = IF Len(order) < cap THEN Len(order) ELSE cap
  /\ KeySeq(level) = SubSeq(order, 1, Len(level))

(* Whatever the interleaving of gets, promotions and puts, every level     *)
(* holds exactly the keys it handled last, in that order, and never more   *)
(* than its capacity: list and map never disagree and the least recent is  *)
(* the one that goes (put, get and evict_lru of the three caches).         *)
KeepsMostRecent ==
  /\ PrefixOf(l1, recent["l1"], L1Capacity)
  /\ PrefixOf(l2, recent["l2"], L2Capacity)
  /\ PrefixOf(legacy, recent["legacy"], L2Capacity)

(* A value reaches L1 only by warming or for a key that was used often     *)
(* enough in L2: a promotion in flight was decided on a count that had     *)
(* reached the threshold, and the value it carries was put under its key.  *)
(* Until the key leaves L2, its count there still says so.                 *)
PromotedWasHot ==
  \A r \in Readers :
    reader[r].at = "promote" =>
      /\ reader[r].value \in 1..puts
      /\ \A i \in DOMAIN l2 :
           /\ l2[i].key = reader[r].key
           /\ l2[i].count < HotThreshold
           => l2[i].value > reader[r].value

(* What a get may return is what was last put: not what the code does, as  *)
(* put leaves an L1 copy alone and a promotion may carry an old value.     *)
HitIsLatest ==
  \A i \in DOMAIN l1 : latest[l1[i].key] # 0 => l1[i].value = latest[l1[i].key]

(* The levels of the cache hold what their rules say, between any two      *)
(* steps of readers, promotions and puts.                                  *)
CachesFollowRules == KeepsMostRecent /\ PromotedWasHot
=============================================================================
