----------------------------- MODULE DiskProofs -----------------------------
(***************************************************************************)
(* Proofs about the way to the disk: no block of the cache (fs/cache.c) is *)
(* freed while somebody uses it, for any number of threads and blocks and  *)
(* any capacity; and the invariant of the SD driver's request queue        *)
(* (driver/sd.c), for any number of threads on any CPUs.                   *)
(***************************************************************************)
EXTENDS BlockCache, SdQueue, DataLemmas

\* The threads that are inside cache_acquire(b) or hold b.
Users(b) == {t \in Threads : pc[t] # "idle" /\ want[t] = b}

\* What CacheInv says about one block.
BlockInv(b) ==
  /\ acquired[b] <=> queue[b] # <<>>
  /\ acquired[b] => Cached(b)
  /\ Distinct(queue[b])
  /\ Listed(queue[b]) = Users(b)

\* CacheInv, block by block.
LEMMA CacheInvByBlock ==
  CacheInv <=> /\ TypeOK /\ OneCopy /\ HolderOwnsLock
               /\ \A b \in BlockNos : BlockInv(b)
BY Zenon DEF CacheInv, BlockInv, Users

\* init_LRUcache: an empty list.
LEMMA CacheInvInit == Init => CacheInv
<1> SUFFICES ASSUME Init PROVE CacheInv
  BY Zenon
<1>1. TypeOK
  BY DEF Init, TypeOK
<1>2. OneCopy
  BY DEF Init, OneCopy, Distinct
<1>3. \A b \in BlockNos : BlockInv(b)
  BY DEF Init, BlockInv, Users, Distinct, Listed
<1> QED
  BY Zenon, <1>1, <1>2, <1>3, CacheInvByBlock DEF Init, HolderOwnsLock

\* The steps that leave the list, the queues and acquired alone.
LEMMA QuietCacheInv ==
  ASSUME CacheInv, NEW t \in Threads,
         ReadDone(t) \/ \E pin \in BOOLEAN : SetPin(t, pin)
  PROVE  CacheInv'
<1> USE DEF CacheInv
<1>1. TypeOK'
  BY DEF TypeOK, ReadDone, SetPin
<1>2. UNCHANGED <<lru, acquired, queue, want>>
  BY Zenon DEF ReadDone, SetPin
<1>3. \A u \in Threads :
        /\ pc'[u] = "idle" <=> pc[u] = "idle"
        /\ pc'[u] \in {"read", "evict", "hold"} <=> pc[u] \in {"read", "evict", "hold"}
  BY Zenon DEF TypeOK, ReadDone, SetPin
<1> QED
  BY Zenon, <1>1, <1>2, <1>3 DEF OneCopy, HolderOwnsLock, Cached, Owns

\* A thread that finds the block joins the end of its queue.
LEMMA AcquireHitCacheInv ==
  ASSUME CacheInv, NEW t \in Threads, NEW b \in BlockNos, AcquireHit(t, b)
  PROVE  CacheInv'
<1>0. TypeOK /\ OneCopy /\ HolderOwnsLock /\ \A c \in BlockNos : BlockInv(c)
  BY Zenon, CacheInvByBlock
<1>1. TypeOK'
  BY <1>0 DEF TypeOK, AcquireHit
<1>2. OneCopy'
  BY Zenon, <1>0 DEF OneCopy, AcquireHit
<1>3. t \notin Listed(queue[b])
  BY Zenon, <1>0 DEF BlockInv, Users, AcquireHit
<1>4. /\ Listed(queue'[b]) = Listed(queue[b]) \cup {t}
      /\ Distinct(queue'[b])
      /\ queue'[b] # <<>>
      /\ queue[b] # <<>> => Head(queue'[b]) = Head(queue[b])
  <2>1. queue[b] \in Seq(Threads) /\ queue'[b] = Append(queue[b], t) /\ Distinct(queue[b])
    BY Zenon, <1>0 DEF TypeOK, AcquireHit, BlockInv
  <2>2. /\ Listed(Append(queue[b], t)) = Listed(queue[b]) \cup {t}
        /\ Distinct(Append(queue[b], t))
        /\ Append(queue[b], t) # <<>>
        /\ queue[b] # <<>> => Head(Append(queue[b], t)) = Head(queue[b])
    BY <1>3, <2>1, AppendEntry
  <2> QED
    BY Zenon, <2>1, <2>2
<1>5. \A c \in BlockNos : c # b => queue'[c] = queue[c]
  BY Zenon, <1>0 DEF TypeOK, AcquireHit
<1>6. ASSUME NEW c \in BlockNos PROVE BlockInv(c)'
  <2>1. CASE c = b
    BY <1>0, <1>4, <2>1 DEF TypeOK, AcquireHit, BlockInv, Users, Cached
  <2>2. CASE c # b
    BY <1>0, <1>5, <2>2 DEF TypeOK, AcquireHit, BlockInv, Users, Cached
  <2> QED
    BY Zenon, <2>1, <2>2
<1>7. HolderOwnsLock'
  <2> SUFFICES ASSUME NEW u \in Threads, pc'[u] \in {"read", "evict", "hold"}
               PROVE  Owns(u, want[u])' /\ want'[u] = want[u]
    BY Zenon DEF HolderOwnsLock, Owns
  <2>1. u # t /\ pc[u] \in {"read", "evict", "hold"} /\ want'[u] = want[u]
    BY Zenon, <1>0 DEF TypeOK, AcquireHit
  <2>2. Owns(u, want[u]) /\ want[u] \in BlockNos
    BY Zenon, <1>0, <2>1 DEF HolderOwnsLock, TypeOK
  <2> QED
    BY Zenon, <1>4, <1>5, <2>1, <2>2 DEF Owns
<1> QED
  BY Zenon, <1>1, <1>2, <1>6, <1>7 DEF CacheInv, BlockInv, Users

\* Its turn has come: the block moves to the front of the list.
LEMMA AcquireHitDoneCacheInv ==
  ASSUME CacheInv, NEW t \in Threads, AcquireHitDone(t)
  PROVE  CacheInv'
<1>0. TypeOK /\ OneCopy /\ HolderOwnsLock /\ \A c \in BlockNos : BlockInv(c)
  BY Zenon, CacheInvByBlock
<1> DEFINE b == want[t]
           rest == Detach(lru, b)
<1>1. b \in BlockNos /\ acquired[b] /\ Cached(b)
  BY Zenon, <1>0 DEF TypeOK, AcquireHitDone, Owns, BlockInv
<1>2. lru \in Seq(BlockNos) /\ Distinct(lru) /\ b \in Listed(lru) /\ lru' = <<b>> \o rest
  BY Zenon, <1>0, <1>1 DEF TypeOK, OneCopy, Cached, AcquireHitDone
<1>3. rest \in Seq(BlockNos) /\ Listed(rest) = Listed(lru) \ {b} /\ Distinct(rest)
  BY Zenon, <1>2, DetachEntry
<1> HIDE DEF rest
<1>4. lru' \in Seq(BlockNos) /\ Listed(lru') = Listed(lru) /\ Distinct(lru')
  <2>1. /\ <<b>> \o rest \in Seq(BlockNos)
        /\ Listed(<<b>> \o rest) = Listed(rest) \cup {b}
        /\ Distinct(<<b>> \o rest)
    BY <1>1, <1>3, PushEntry
  <2> QED
    BY Zenon, <1>2, <1>3, <2>1
<1>5. TypeOK'
  BY Zenon, <1>0, <1>1, <1>4 DEF TypeOK, AcquireHitDone
<1>6. acquired' = acquired
  BY Zenon, <1>0, <1>1 DEF TypeOK, AcquireHitDone
<1>7. \A c \in BlockNos : BlockInv(c)'
  BY <1>0, <1>4, <1>6 DEF TypeOK, AcquireHitDone, BlockInv, Users, Cached
<1>8. HolderOwnsLock'
  BY Zenon, <1>0 DEF TypeOK, AcquireHitDone, HolderOwnsLock, Owns
<1> QED
  BY Zenon, <1>4, <1>5, <1>7, <1>8 DEF CacheInv, BlockInv, Users, OneCopy

\* A block that is not listed has no users: its queue is new.
LEMMA AcquireMissCacheInv ==
  ASSUME CacheInv, NEW t \in Threads, NEW b \in BlockNos, AcquireMiss(t, b)
  PROVE  CacheInv'
<1>0. TypeOK /\ OneCopy /\ HolderOwnsLock /\ \A c \in BlockNos : BlockInv(c)
  BY Zenon, CacheInvByBlock
<1>1. b \notin Listed(lru) /\ queue[b] = <<>> /\ Users(b) = {}
  <2>1. b \notin Listed(lru) /\ queue[b] = <<>>
    BY Zenon, <1>0 DEF AcquireMiss, Cached, BlockInv
  <2>2. Listed(<<>>) = {}
    BY DEF Listed
  <2> QED
    BY Zenon, <1>0, <2>1, <2>2 DEF BlockInv
<1>2. lru' \in Seq(BlockNos) /\ Listed(lru') = Listed(lru) \cup {b} /\ Distinct(lru')
  <2>1. lru \in Seq(BlockNos) /\ Distinct(lru) /\ lru' = <<b>> \o lru
    BY Zenon, <1>0 DEF TypeOK, OneCopy, AcquireMiss
  <2> QED
    BY <1>1, <2>1, PushEntry
<1>3. /\ queue'[b] = <<t>> /\ queue'[b] \in Seq(Threads)
      /\ \A c \in BlockNos : c # b => queue'[c] = queue[c]
  <2>1. queue' = [queue EXCEPT ![b] = <<t>>] /\ queue \in [BlockNos -> Seq(Threads)]
    BY Zenon, <1>0 DEF TypeOK, AcquireMiss, FirstOwner
  <2>2. <<t>> \in Seq(Threads)
    OBVIOUS
  <2> QED
    BY Zenon, <2>1, <2>2
<1>4. Listed(<<t>>) = {t} /\ Distinct(<<t>>) /\ <<t>> # <<>> /\ Head(<<t>>) = t
  BY DEF Listed, Distinct
<1>5. TypeOK'
  BY Zenon, <1>0, <1>2, <1>3 DEF TypeOK, AcquireMiss, FirstOwner
<1>6. ASSUME NEW c \in BlockNos PROVE BlockInv(c)'
  <2>1. CASE c = b
    <3>1. Users(c)' = {t}
      BY Zenon, <1>0, <1>1, <2>1 DEF TypeOK, AcquireMiss, Users
    <3>2. acquired'[c] /\ Cached(c)'
      BY Zenon, <1>0, <1>2, <2>1 DEF TypeOK, AcquireMiss, Cached
    <3> QED
      BY Zenon, <1>3, <1>4, <2>1, <3>1, <3>2 DEF BlockInv
  <2>2. CASE c # b
    <3>1. Users(c)' = Users(c)
      BY Zenon, <1>0, <2>2 DEF TypeOK, AcquireMiss, Users
    <3> QED
      BY Zenon, <1>0, <1>2, <1>3, <2>2, <3>1 DEF TypeOK, AcquireMiss, BlockInv, Cached
  <2> QED
    BY Zenon, <2>1, <2>2
<1>7. HolderOwnsLock'
  <2> SUFFICES ASSUME NEW u \in Threads, pc'[u] \in {"read", "evict", "hold"}
               PROVE  queue'[want'[u]] # <<>> /\ Head(queue'[want'[u]]) = u
    BY Zenon DEF HolderOwnsLock, Owns
  <2>1. CASE u = t
    BY Zenon, <1>0, <1>3, <1>4, <2>1 DEF TypeOK, AcquireMiss
  <2>2. CASE u # t
    <3>1. pc[u] \in {"read", "evict", "hold"} /\ want'[u] = want[u] /\ want[u] \in BlockNos
      BY Zenon, <1>0, <2>2 DEF TypeOK, AcquireMiss
    <3>2. want[u] # b
      BY Zenon, <1>1, <3>1 DEF Users
    <3> QED
      BY Zenon, <1>0, <1>3, <3>1, <3>2 DEF HolderOwnsLock, Owns
  <2> QED
    BY Zenon, <2>1, <2>2
<1> QED
  BY Zenon, <1>2, <1>5, <1>6, <1>7 DEF CacheInv, BlockInv, Users, OneCopy

\* Only a block without users is freed.
LEMMA EvictLastCacheInv ==
  ASSUME CacheInv, NEW t \in Threads, EvictLast(t)
  PROVE  CacheInv'
<1>0. TypeOK /\ OneCopy /\ HolderOwnsLock /\ \A c \in BlockNos : BlockInv(c)
  BY Zenon, CacheInvByBlock
<1>1. /\ lru' \in Seq(BlockNos) /\ Distinct(lru')
      /\ \A c \in BlockNos : acquired[c] /\ Cached(c) => Cached(c)'
  <2>1. CASE lru' = lru
    BY Zenon, <1>0, <2>1 DEF TypeOK, OneCopy, Cached
  <2>2. CASE Len(lru) > capacity /\ Evictable(lru[Len(lru)]) /\ lru' = WithoutLast(lru)
    <3>1. lru \in Seq(BlockNos) /\ Distinct(lru) /\ Len(lru) > 0
      BY <1>0, <2>2, CacheAssumption DEF TypeOK, OneCopy
    <3>2. /\ WithoutLast(lru) \in Seq(BlockNos) /\ Distinct(WithoutLast(lru))
          /\ Listed(WithoutLast(lru)) = Listed(lru) \ {lru[Len(lru)]}
      BY Zenon, <3>1, DropLast
    <3> QED
      BY Zenon, <2>2, <3>2 DEF Cached, Evictable
  <2> QED
    BY Zenon, <2>1, <2>2 DEF EvictLast
<1>2. TypeOK'
  BY Zenon, <1>0, <1>1 DEF TypeOK, EvictLast
<1>3. \A c \in BlockNos : BlockInv(c)'
  BY Zenon, <1>0, <1>1 DEF TypeOK, EvictLast, BlockInv, Users
<1>4. HolderOwnsLock'
  BY Zenon, <1>0 DEF TypeOK, EvictLast, HolderOwnsLock, Owns
<1> QED
  BY Zenon, <1>1, <1>2, <1>3, <1>4 DEF CacheInv, BlockInv, Users, OneCopy

\* The first of the queue leaves; acquired stays set if it was not alone.
LEMMA ReleaseCacheInv ==
  ASSUME CacheInv, NEW t \in Threads, Release(t)
  PROVE  CacheInv'
<1>0. TypeOK /\ OneCopy /\ HolderOwnsLock /\ \A c \in BlockNos : BlockInv(c)
  BY Zenon, CacheInvByBlock
<1> DEFINE b == want[t]
<1>1. /\ b \in BlockNos /\ queue[b] \in Seq(Threads) /\ Distinct(queue[b])
      /\ queue[b] # <<>> /\ Head(queue[b]) = t
  BY Zenon, <1>0 DEF TypeOK, Release, HolderOwnsLock, Owns, BlockInv
<1>2. /\ queue'[b] = Tail(queue[b])
      /\ \A c \in BlockNos : c # b => queue'[c] = queue[c]
  BY Zenon, <1>0, <1>1 DEF TypeOK, Release, HandOver
<1>3. /\ Tail(queue[b]) \in Seq(Threads)
      /\ Listed(Tail(queue[b])) = Listed(queue[b]) \ {t}
      /\ Distinct(Tail(queue[b]))
      /\ Tail(queue[b]) = <<>> <=> Len(queue[b]) = 1
  BY Zenon, <1>1, PopEntry
<1>4. acquired'[b] <=> Tail(queue[b]) # <<>>
  <2>1. acquired'[b] = (Len(queue[b]) > 1)
    BY Zenon, <1>0, <1>1 DEF TypeOK, Release, StillWanted
  <2>2. Len(queue[b]) \in Nat /\ Len(queue[b]) > 0
    BY <1>1
  <2>3. \A n \in Nat : n > 0 => (n > 1 <=> n # 1)
    OBVIOUS
  <2>4. Len(queue[b]) > 1 <=> Len(queue[b]) # 1
    BY <2>2, <2>3, Zenon
  <2> QED
    BY Zenon, <1>3, <2>1, <2>4
<1>5. TypeOK'
  <2>1. queue' \in [BlockNos -> Seq(Threads)]
    BY Zenon, <1>0, <1>3 DEF TypeOK, Release, HandOver
  <2>2. acquired' \in [BlockNos -> BOOLEAN]
    BY <1>0 DEF TypeOK, Release, StillWanted
  <2> QED
    BY Zenon, <1>0, <2>1, <2>2 DEF TypeOK, Release
<1>6. ASSUME NEW c \in BlockNos PROVE BlockInv(c)'
  <2>1. CASE c = b
    <3>1. Users(c)' = Users(c) \ {t}
      BY Zenon, <1>0, <2>1 DEF TypeOK, Release, Users
    <3>2. Cached(c)'
      BY Zenon, <1>0, <1>1, <2>1 DEF Release, BlockInv, Cached
    <3> QED
      BY Zenon, <1>0, <1>1, <1>2, <1>3, <1>4, <2>1, <3>1, <3>2 DEF BlockInv
  <2>2. CASE c # b
    <3>1. Users(c)' = Users(c)
      BY Zenon, <1>0, <2>2 DEF TypeOK, Release, Users
    <3>2. acquired'[c] = acquired[c] /\ (Cached(c)' <=> Cached(c))
      BY Zenon, <1>0, <1>1, <2>2 DEF TypeOK, Release, Cached
    <3> QED
      BY Zenon, <1>0, <1>2, <2>2, <3>1, <3>2 DEF BlockInv
  <2> QED
    BY Zenon, <2>1, <2>2
<1>7. HolderOwnsLock'
  <2> SUFFICES ASSUME NEW u \in Threads, pc'[u] \in {"read", "evict", "hold"}
               PROVE  queue'[want'[u]] # <<>> /\ Head(queue'[want'[u]]) = u
    BY Zenon DEF HolderOwnsLock, Owns
  <2>1. u # t /\ pc[u] \in {"read", "evict", "hold"} /\ want'[u] = want[u] /\ want[u] \in BlockNos
    BY Zenon, <1>0 DEF TypeOK, Release
  <2>2. Owns(u, want[u])
    BY Zenon, <1>0, <2>1 DEF HolderOwnsLock
  <2>3. want[u] # b
    BY Zenon, <1>1, <2>1, <2>2 DEF Owns
  <2> QED
    BY Zenon, <1>2, <2>1, <2>2, <2>3 DEF Owns
<1>8. OneCopy'
  BY Zenon, <1>0 DEF OneCopy, Release
<1> QED
  BY Zenon, <1>5, <1>6, <1>7, <1>8 DEF CacheInv, BlockInv, Users

\* No step of cache_acquire, cache_release, cache_sync or a commit breaks it.
LEMMA CacheInvStep ==
  ASSUME CacheInv, [Next]_vars
  PROVE  CacheInv'
<1>1. ASSUME NEW t \in Threads, NEW b \in BlockNos, AcquireHit(t, b) \/ AcquireMiss(t, b)
      PROVE  CacheInv'
  BY Zenon, <1>1, AcquireHitCacheInv, AcquireMissCacheInv
<1>2. ASSUME NEW t \in Threads, Acquire(t) PROVE CacheInv'
  BY Zenon, <1>2, AcquireHitDoneCacheInv, QuietCacheInv, EvictLastCacheInv DEF Acquire
<1>3. ASSUME NEW t \in Threads, NEW pin \in BOOLEAN, SetPin(t, pin) PROVE CacheInv'
  BY Zenon, <1>3, QuietCacheInv
<1>4. ASSUME NEW t \in Threads, Release(t) PROVE CacheInv'
  BY Zenon, <1>4, ReleaseCacheInv
<1>5. CASE UNCHANGED vars
  BY Zenon, <1>5 DEF vars, CacheInv, TypeOK, OneCopy, HolderOwnsLock, Cached, Owns
<1> QED
  BY Zenon, <1>1, <1>2, <1>3, <1>4, <1>5 DEF Next

\* The inductive invariant of the block cache.
THEOREM CacheInvariant == Spec => []CacheInv
<1>1. Init => CacheInv
  BY Zenon, CacheInvInit
<1>2. CacheInv /\ [Next]_vars => CacheInv'
  BY Zenon, CacheInvStep
<1> QED
  BY <1>1, <1>2, PTL DEF Spec

\* kfree in cache_acquire never frees a block that somebody holds, waits for
\* or is reading.
THEOREM NeverFreedInUse == Spec => []NoUseAfterFree
<1>1. CacheInv => NoUseAfterFree
  <2> SUFFICES ASSUME CacheInv, NEW t \in Threads, pc[t] # "idle"
               PROVE  Cached(want[t])
    BY Zenon DEF NoUseAfterFree
  <2>1. want[t] \in BlockNos /\ t \in Listed(queue[want[t]])
    BY Zenon DEF CacheInv, TypeOK
  <2>2. Listed(<<>>) = {}
    BY DEF Listed
  <2> QED
    BY Zenon, <2>1, <2>2 DEF CacheInv
<1> QED
  BY <1>1, CacheInvariant, PTL

\* cache_acquire never adds a block that is already on the LRU list.
THEOREM CachedOnce == Spec => []OneCopy
<1>1. CacheInv => OneCopy
  BY Zenon DEF CacheInv
<1> QED
  BY <1>1, CacheInvariant, PTL

\* Whoever cache_acquire has given a block owns the block's lock.
THEOREM HoldersOwn == Spec => []HolderOwnsLock
<1>1. CacheInv => HolderOwnsLock
  BY Zenon DEF CacheInv
<1> QED
  BY <1>1, CacheInvariant, PTL

-----------------------------------------------------------------------------

\* Behind HolderSeesContent: a listed block that nobody is reading is valid.
ContentInv ==
  /\ HolderSeesContent
  /\ \A b \in BlockNos :
       Cached(b) => valid[b] \/ \E t \in Threads : pc[t] = "read" /\ want[t] = b
  /\ \A t \in Threads : pc[t] = "evict" => valid[want[t]]

\* A waiter runs only once the thread that reads the block has released it.
LEMMA ContentStep ==
  ASSUME CacheInv, CacheInv', ContentInv, [Next]_vars
  PROVE  ContentInv'
<1> USE DEF ContentInv, HolderSeesContent
<1>0. TypeOK /\ HolderOwnsLock
  BY Zenon DEF CacheInv
<1>1. ASSUME NEW t \in Threads, NEW b \in BlockNos, AcquireHit(t, b)
      PROVE  ContentInv'
  BY <1>0, <1>1 DEF TypeOK, AcquireHit, Cached
<1>2. ASSUME NEW t \in Threads, NEW b \in BlockNos, AcquireMiss(t, b)
      PROVE  ContentInv'
  <2>1. \A u \in Threads : pc[u] # "idle" => want[u] # b
    <3>1. ~acquired[b] /\ queue[b] = <<>>
      BY Zenon, <1>2 DEF CacheInv, AcquireMiss
    <3>2. Listed(<<>>) = {}
      BY DEF Listed
    <3> QED
      BY Zenon, <3>1, <3>2 DEF CacheInv
  <2>2. \A c \in BlockNos : Cached(c)' => Cached(c) \/ c = b
    <3>1. lru \in Seq(BlockNos) /\ Distinct(lru) /\ b \notin Listed(lru) /\ lru' = <<b>> \o lru
      BY Zenon, <1>2 DEF CacheInv, TypeOK, OneCopy, AcquireMiss, Cached
    <3>2. Listed(<<b>> \o lru) = Listed(lru) \cup {b}
      BY <3>1, PushEntry
    <3> QED
      BY Zenon, <3>1, <3>2 DEF Cached
  <2>3. pc'[t] = "read" /\ want'[t] = b
    BY Zenon, <1>0, <1>2 DEF TypeOK, AcquireMiss
  <2>4. \A u \in Threads : u # t => pc'[u] = pc[u] /\ want'[u] = want[u]
    BY Zenon, <1>0, <1>2 DEF TypeOK, AcquireMiss
  <2>5. \A c \in BlockNos : c # b => valid'[c] = valid[c]
    BY Zenon, <1>0, <1>2 DEF TypeOK, AcquireMiss
  <2>6. \A u \in Threads : want[u] \in BlockNos
    BY Zenon, <1>0 DEF TypeOK
  <2>7. pc[t] # "read"
    BY Zenon, <1>2 DEF AcquireMiss
  <2>8. \A u \in Threads : pc'[u] \in {"evict", "hold"} => valid'[want'[u]]
    BY <2>1, <2>3, <2>4, <2>5, <2>6
  <2>9. \A c \in BlockNos :
          Cached(c)' => valid'[c] \/ \E u \in Threads : pc'[u] = "read" /\ want'[u] = c
    BY <2>2, <2>3, <2>4, <2>5, <2>7
  <2> QED
    BY Zenon, <2>8, <2>9
<1>3. ASSUME NEW t \in Threads, AcquireHitDone(t) PROVE ContentInv'
  <2>1. want[t] \in BlockNos /\ Cached(want[t])
    BY Zenon, <1>0, <1>3 DEF CacheInv, TypeOK, AcquireHitDone, Owns
  <2>2. \A u \in Threads : pc[u] = "read" /\ want[u] = want[t] => u = t
    BY Zenon, <1>0, <1>3 DEF HolderOwnsLock, Owns, AcquireHitDone
  <2>3. valid[want[t]]
    BY Zenon, <1>3, <2>1, <2>2 DEF AcquireHitDone
  <2>4. \A c \in BlockNos : Cached(c)' => Cached(c)
    <3> DEFINE rest == Detach(lru, want[t])
    <3>1. lru \in Seq(BlockNos) /\ Distinct(lru) /\ want[t] \in Listed(lru) /\ lru' = <<want[t]>> \o rest
      BY Zenon, <1>3, <2>1 DEF CacheInv, TypeOK, OneCopy, AcquireHitDone, Cached
    <3>2. rest \in Seq(BlockNos) /\ Listed(rest) = Listed(lru) \ {want[t]} /\ Distinct(rest)
      BY <3>1, DetachEntry
    <3> HIDE DEF rest
    <3>3. Listed(<<want[t]>> \o rest) = Listed(rest) \cup {want[t]}
      BY <2>1, <3>2, PushEntry
    <3> QED
      BY Zenon, <3>1, <3>2, <3>3 DEF Cached
  <2> QED
    BY Zenon, <1>0, <1>3, <2>3, <2>4 DEF TypeOK, AcquireHitDone
<1>4. ASSUME NEW t \in Threads, ReadDone(t) PROVE ContentInv'
  BY Zenon, <1>0, <1>4 DEF TypeOK, ReadDone, Cached
<1>5. ASSUME NEW t \in Threads, EvictLast(t) PROVE ContentInv'
  <2>1. \A c \in BlockNos : Cached(c)' => Cached(c)
    <3>1. CASE lru' = lru
      BY Zenon, <3>1 DEF Cached
    <3>2. CASE Len(lru) > capacity /\ lru' = WithoutLast(lru)
      <4>1. lru \in Seq(BlockNos) /\ Distinct(lru) /\ Len(lru) > 0
        BY <3>2, CacheAssumption DEF CacheInv, TypeOK, OneCopy
      <4>2. Listed(WithoutLast(lru)) = Listed(lru) \ {lru[Len(lru)]}
        BY Zenon, <4>1, DropLast
      <4> QED
        BY Zenon, <3>2, <4>2 DEF Cached
    <3> QED
      BY Zenon, <1>5, <3>1, <3>2 DEF EvictLast
  <2> QED
    BY Zenon, <1>0, <1>5, <2>1 DEF TypeOK, EvictLast
<1>6. ASSUME NEW t \in Threads, Release(t) PROVE ContentInv'
  BY Zenon, <1>0, <1>6 DEF TypeOK, Release, Cached
<1>7. ASSUME NEW t \in Threads, NEW pin \in BOOLEAN, SetPin(t, pin) PROVE ContentInv'
  BY Zenon, <1>0, <1>7 DEF TypeOK, SetPin, Cached
<1>8. CASE UNCHANGED vars
  BY Zenon, <1>8 DEF vars, Cached
<1> QED
  BY Zenon, <1>1, <1>2, <1>3, <1>4, <1>5, <1>6, <1>7, <1>8 DEF Next, Acquire

\* cache_acquire never returns a block whose content has not been read.
THEOREM ContentIsRead == Spec => []HolderSeesContent
<1>1. Init => ContentInv
  <2>1. Listed(<<>>) = {}
    BY DEF Listed
  <2> QED
    BY Zenon, <2>1 DEF Init, ContentInv, HolderSeesContent, Cached
<1>2. CacheInv /\ CacheInv' /\ ContentInv /\ [Next]_vars => ContentInv'
  BY Zenon, ContentStep
<1>3. ContentInv => HolderSeesContent
  BY Zenon DEF ContentInv
<1> QED
  BY <1>1, <1>2, <1>3, CacheInvariant, PTL DEF Spec

-----------------------------------------------------------------------------

\* What each step does to the set of listed blocks: a miss adds its block, an
\* eviction may take one that is neither pinned nor acquired.
LEMMA ListedStep ==
  ASSUME CacheInv, [Next]_vars, NEW c \in BlockNos, Cached(c), ~Cached(c)'
  PROVE  Evictable(c) /\ UNCHANGED pinned
<1>0. lru \in Seq(BlockNos) /\ Distinct(lru)
  BY Zenon DEF CacheInv, TypeOK, OneCopy
<1>1. lru' # lru
  BY Zenon DEF Cached
<1>2. ASSUME NEW t \in Threads, NEW b \in BlockNos, AcquireMiss(t, b) PROVE FALSE
  <2>1. lru' = <<b>> \o lru /\ b \notin Listed(lru)
    BY Zenon, <1>2 DEF AcquireMiss, Cached
  <2>2. Listed(<<b>> \o lru) = Listed(lru) \cup {b}
    BY <1>0, <2>1, PushEntry
  <2> QED
    BY Zenon, <2>1, <2>2 DEF Cached
<1>3. ASSUME NEW t \in Threads, AcquireHitDone(t) PROVE FALSE
  <2> DEFINE rest == Detach(lru, want[t])
  <2>1. lru' = <<want[t]>> \o rest /\ want[t] \in Listed(lru) /\ want[t] \in BlockNos
    BY Zenon, <1>3 DEF CacheInv, TypeOK, AcquireHitDone, Owns, Cached
  <2>2. rest \in Seq(BlockNos) /\ Listed(rest) = Listed(lru) \ {want[t]} /\ Distinct(rest)
    BY Zenon, <1>0, <2>1, DetachEntry
  <2> HIDE DEF rest
  <2>3. Listed(<<want[t]>> \o rest) = Listed(rest) \cup {want[t]}
    BY <2>1, <2>2, PushEntry
  <2> QED
    BY Zenon, <2>1, <2>2, <2>3 DEF Cached
<1>4. ASSUME NEW t \in Threads, EvictLast(t) PROVE Evictable(c) /\ UNCHANGED pinned
  <2>1. Len(lru) > capacity /\ Evictable(lru[Len(lru)]) /\ lru' = WithoutLast(lru)
    BY Zenon, <1>1, <1>4 DEF EvictLast
  <2>2. Len(lru) > 0
    BY <1>0, <2>1, CacheAssumption
  <2>3. Listed(WithoutLast(lru)) = Listed(lru) \ {lru[Len(lru)]}
    BY Zenon, <1>0, <2>2, DropLast
  <2>4. c = lru[Len(lru)]
    BY Zenon, <2>1, <2>3 DEF Cached
  <2> QED
    BY Zenon, <1>4, <2>1, <2>4 DEF EvictLast
<1> QED
  BY Zenon, <1>1, <1>2, <1>3, <1>4
  DEF Next, Acquire, AcquireHit, ReadDone, SetPin, Release, vars

\* A block that waits in memory for its commit is not evicted.
THEOREM PinnedBlocksStay == Spec => []PinnedStaysCached
<1>1. Init => PinnedStaysCached
  BY Zenon DEF Init, PinnedStaysCached
<1>2. ASSUME CacheInv, PinnedStaysCached, [Next]_vars PROVE PinnedStaysCached'
  <2> SUFFICES ASSUME NEW c \in BlockNos, pinned'[c] PROVE Cached(c)'
    BY Zenon DEF PinnedStaysCached
  <2>1. CASE pinned[c]
    BY Zenon, <1>2, <2>1, ListedStep DEF PinnedStaysCached, Evictable
  <2>2. CASE ~pinned[c]
    <3>1. PICK t \in Threads, pin \in BOOLEAN : SetPin(t, pin) /\ c = want[t]
      BY <1>2, <2>2 DEF CacheInv, TypeOK, Next, Acquire, AcquireHit, AcquireHitDone,
         AcquireMiss, ReadDone, EvictLast, Release, SetPin, vars
    <3>2. t \in Listed(queue[c])
      BY Zenon, <1>2, <3>1 DEF CacheInv, SetPin
    <3>3. Listed(<<>>) = {}
      BY DEF Listed
    <3>4. Cached(c)
      BY Zenon, <1>2, <3>2, <3>3 DEF CacheInv
    <3> QED
      BY Zenon, <3>1, <3>4 DEF SetPin, Cached
  <2> QED
    BY Zenon, <2>1, <2>2
<1> QED
  BY <1>1, <1>2, CacheInvariant, PTL DEF Spec

-----------------------------------------------------------------------------
(***************************************************************************)
(* The request queue.                                                      *)
(***************************************************************************)

(* What sdrw's push does to the queue. *)
LEMMA PushFacts ==
  ASSUME NEW S, NEW s \in Seq(S), NEW x \in S
  PROVE  /\ Append(s, x) \in Seq(S) /\ Append(s, x) # <<>>
         /\ DOMAIN Append(s, x) = 1 .. Len(s) + 1 /\ Len(Append(s, x)) = Len(s) + 1
         /\ \A i \in DOMAIN s : i \in DOMAIN Append(s, x) /\ Append(s, x)[i] = s[i]
         /\ Append(s, x)[Len(s) + 1] = x
         /\ s # <<>> => Head(Append(s, x)) = Head(s)
         /\ s = <<>> => Head(Append(s, x)) = x
  OBVIOUS

(* What sd_intr's pop does to it. *)
LEMMA PopFacts ==
  ASSUME NEW S, NEW s \in Seq(S), s # <<>>
  PROVE  /\ Tail(s) \in Seq(S) /\ Head(s) \in S /\ Head(s) = s[1] /\ 1 \in DOMAIN s
         /\ \A i \in DOMAIN Tail(s) : i + 1 \in DOMAIN s /\ Tail(s)[i] = s[i + 1] /\ i + 1 # 1
         /\ \A i \in DOMAIN s : i # 1 => i - 1 \in DOMAIN Tail(s) /\ Tail(s)[i - 1] = s[i]
         /\ Tail(s) # <<>> => Head(Tail(s)) = Tail(s)[1] /\ 1 \in DOMAIN Tail(s)
  OBVIOUS

(* The queue is empty, nobody is in sdrw and the handler is idle. *)
LEMMA InitInv == SdqInit => SdqInv
<1> SUFFICES ASSUME SdqInit PROVE SdqInv
  OBVIOUS
<1>1. SdqTypeOK
  <2>1. (CHOOSE x \in Sectors : TRUE) \in Sectors
    BY SdqAssumption
  <2>2. (CHOOSE v \in Values : TRUE) \in Values
    BY SdqAssumption
  <2>3. medium \in [Sectors -> Values]
    BY <2>2 DEF SdqInit
  <2>4. buf \in [DiskThreads -> [sector : Sectors, write : BOOLEAN, valid : BOOLEAN, data : Values]]
    BY <2>1, <2>2 DEF SdqInit
  <2>5. posted \in [DiskThreads -> BOOLEAN] /\ irq \in BOOLEAN
    BY DEF SdqInit
  <2>6. (sdlock = "intr") <=> (hpc \in {"move", "post", "pop"})
    BY SdqAssumption DEF SdqInit
  <2>7. q \in Seq(DiskThreads) /\ dpc \in [DiskThreads -> {"idle", "push", "start", "wait"}]
    BY DEF SdqInit
  <2> QED BY <2>3, <2>4, <2>5, <2>6, <2>7 DEF SdqInit, SdqTypeOK
<1>2. NoSdPanic
  BY DEF SdqInit, NoSdPanic
<1>3. FirstIsStarted
  BY DEF SdqInit, FirstIsStarted
<1>4. QueuedBufsLive
  BY DEF SdqInit, QueuedBufsLive
<1>5. HandlerServesFirst
  BY DEF SdqInit, HandlerServesFirst
<1>6. WaitersQueued
  BY DEF SdqInit, WaitersQueued
<1> QED BY <1>1, <1>2, <1>3, <1>4, <1>5, <1>6 DEF SdqInv

(* A thread calls sd_read or sd_write with a buf that is not queued. *)
LEMMA SdCallInv == ASSUME SdqInv, NEW t \in DiskThreads, SdCall(t) PROVE SdqInv'
<1> USE DEF SdqInv, SdCall, Runs, Going
<1>0. \A i \in DOMAIN q : q[i] # t
  BY DEF ReturnedEarly
<1>1. SdqTypeOK'
  BY DEF SdqTypeOK
<1>2. NoSdPanic'
  BY DEF NoSdPanic
<1>3. FirstIsStarted'
  BY DEF FirstIsStarted
<1>4. QueuedBufsLive'
  BY <1>0 DEF QueuedBufsLive
<1>5. HandlerServesFirst'
  BY <1>0 DEF SdqTypeOK, HandlerServesFirst
<1>6. WaitersQueued'
  BY DEF WaitersQueued
<1> QED BY <1>1, <1>2, <1>3, <1>4, <1>5, <1>6

(* sdrw queues the buf. *)
LEMMA SdPushInv == ASSUME SdqInv, NEW t \in DiskThreads, SdPush(t) PROVE SdqInv'
<1> USE DEF SdqInv, SdPush, Runs, Going
<1>1. SdqTypeOK'
  BY DEF SdqTypeOK
<1>2. NoSdPanic'
  BY DEF NoSdPanic
<1>3. FirstIsStarted'
  BY DEF SdqTypeOK, FirstIsStarted
<1>4. QueuedBufsLive'
  BY DEF SdqTypeOK, QueuedBufsLive, HandlerServesFirst, WaitersQueued
<1>5. HandlerServesFirst'
  BY DEF HandlerServesFirst
<1>6. WaitersQueued'
  <2>1. t = q'[Len(q) + 1] /\ Len(q) + 1 \in DOMAIN q'
    BY PushFacts DEF SdqTypeOK
  <2>2. \A i \in DOMAIN q : i \in DOMAIN q' /\ q'[i] = q[i]
    BY PushFacts DEF SdqTypeOK
  <2> QED BY <2>1, <2>2 DEF SdqTypeOK, WaitersQueued
<1> QED BY <1>1, <1>2, <1>3, <1>4, <1>5, <1>6

(* sdrw starts the transfer of the only buf. *)
LEMMA SdStartFirstInv == ASSUME SdqInv, NEW t \in DiskThreads, SdStartFirst(t) PROVE SdqInv'
<1> USE DEF SdqInv, SdStartFirst, Runs, Going, SdStart
<1>1. SdqTypeOK'
  BY DEF SdqTypeOK
<1>2. NoSdPanic'
  BY DEF NoSdPanic, FirstIsStarted, HandlerServesFirst
<1>3. FirstIsStarted'
  BY DEF SdqTypeOK, FirstIsStarted, HandlerServesFirst
<1>4. QueuedBufsLive'
  BY DEF QueuedBufsLive
<1>5. HandlerServesFirst'
  BY DEF HandlerServesFirst
<1>6. WaitersQueued'
  BY DEF SdqTypeOK, FirstIsStarted, WaitersQueued
<1> QED BY <1>1, <1>2, <1>3, <1>4, <1>5, <1>6

(* A posted thread leaves sdrw. *)
LEMMA SdWokenInv == ASSUME SdqInv, NEW t \in DiskThreads, SdWoken(t) PROVE SdqInv'
<1> USE DEF SdqInv, SdWoken, Runs, Going
<1>1. SdqTypeOK'
  BY DEF SdqTypeOK
<1>2. NoSdPanic'
  BY DEF NoSdPanic
<1>3. FirstIsStarted'
  BY DEF FirstIsStarted
<1>4. QueuedBufsLive'
  BY DEF SdqTypeOK, QueuedBufsLive, HandlerServesFirst
<1>5. HandlerServesFirst'
  BY DEF SdqTypeOK, HandlerServesFirst
<1>6. WaitersQueued'
  BY DEF SdqTypeOK, WaitersQueued
<1> QED BY <1>1, <1>2, <1>3, <1>4, <1>5, <1>6

(* The controller ends a transfer. *)
LEMMA TransferInv == ASSUME SdqInv, Transfer PROVE SdqInv'
<1> USE DEF SdqInv, Transfer, Going
<1>1. SdqTypeOK'
  BY DEF SdqTypeOK
<1>2. NoSdPanic'
  BY DEF NoSdPanic
<1>3. FirstIsStarted'
  BY DEF FirstIsStarted
<1>4. QueuedBufsLive'
  BY DEF QueuedBufsLive
<1>5. HandlerServesFirst'
  BY DEF HandlerServesFirst
<1>6. WaitersQueued'
  BY DEF WaitersQueued
<1> QED BY <1>1, <1>2, <1>3, <1>4, <1>5, <1>6

(* sd_intr takes the first buf. *)
LEMMA IntrEnterInv == ASSUME SdqInv, IntrEnter PROVE SdqInv'
<1> USE DEF SdqInv, IntrEnter, Going
<1>1. SdqTypeOK'
  BY DEF SdqTypeOK
<1>2. NoSdPanic'
  BY DEF NoSdPanic, FirstIsStarted, HandlerServesFirst
<1>3. FirstIsStarted'
  BY DEF FirstIsStarted
<1>4. QueuedBufsLive'
  BY DEF QueuedBufsLive
<1>5. HandlerServesFirst'
  BY DEF FirstIsStarted, HandlerServesFirst
<1>6. WaitersQueued'
  BY DEF WaitersQueued
<1> QED BY <1>1, <1>2, <1>3, <1>4, <1>5, <1>6

(* sd_intr fetches the data and changes the flags. *)
LEMMA IntrMoveInv == ASSUME SdqInv, IntrMove PROVE SdqInv'
<1> USE DEF SdqInv, IntrMove, Going
<1>1. SdqTypeOK'
  <2>1. xfer \in DiskThreads /\ hb \in DiskThreads
    BY DEF SdqTypeOK, HandlerServesFirst
  <2>2. medium[buf[xfer].sector] \in Values
    BY <2>1 DEF SdqTypeOK
  <2> DEFINE Bufs == [sector : Sectors, write : BOOLEAN, valid : BOOLEAN, data : Values]
             moved == [buf[hb] EXCEPT !.valid = TRUE,
                                      !.data = IF buf[hb].write THEN buf[hb].data
                                               ELSE medium[buf[xfer].sector]]
  <2>3. buf \in [DiskThreads -> Bufs]
    BY DEF SdqTypeOK
  <2>4. buf[hb] \in Bufs
    BY <2>1, <2>3
  <2>5. moved \in Bufs
    BY <2>2, <2>4
  <2>6. buf' = [buf EXCEPT ![hb] = moved]
    OBVIOUS
  <2> HIDE DEF Bufs, moved
  <2>7. buf' \in [DiskThreads -> Bufs]
    BY <2>3, <2>5, <2>6
  <2> QED BY <2>7 DEF SdqTypeOK, Bufs
<1>2. NoSdPanic'
  BY DEF NoSdPanic
<1>3. FirstIsStarted'
  BY DEF FirstIsStarted
<1>4. QueuedBufsLive'
  BY DEF QueuedBufsLive
<1>5. HandlerServesFirst'
  BY DEF SdqTypeOK, HandlerServesFirst
<1>6. WaitersQueued'
  BY DEF WaitersQueued
<1> QED BY <1>1, <1>2, <1>3, <1>4, <1>5, <1>6

(* sd_intr posts the owner. *)
LEMMA IntrPostInv == ASSUME SdqInv, IntrPost PROVE SdqInv'
<1> USE DEF SdqInv, IntrPost, Going
<1>1. SdqTypeOK'
  BY DEF SdqTypeOK, HandlerServesFirst
<1>2. NoSdPanic'
  BY DEF NoSdPanic
<1>3. FirstIsStarted'
  BY DEF FirstIsStarted
<1>4. QueuedBufsLive'
  BY DEF QueuedBufsLive
<1>5. HandlerServesFirst'
  BY DEF SdqTypeOK, QueuedBufsLive, HandlerServesFirst
<1>6. WaitersQueued'
  BY DEF WaitersQueued
<1> QED BY <1>1, <1>2, <1>3, <1>4, <1>5, <1>6

(* sd_intr takes the buf off the queue. *)
LEMMA IntrPopInv == ASSUME SdqInv, IntrPop PROVE SdqInv'
<1> USE DEF SdqInv, IntrPop, Going
<1>1. SdqTypeOK'
  BY SdqAssumption DEF SdqTypeOK, HandlerServesFirst
<1>2. NoSdPanic'
  BY DEF NoSdPanic
<1>3. FirstIsStarted'
  BY DEF FirstIsStarted, HandlerServesFirst
<1>4. QueuedBufsLive'
  BY DEF SdqTypeOK, QueuedBufsLive
<1>5. HandlerServesFirst'
  BY DEF SdqTypeOK, QueuedBufsLive, HandlerServesFirst
<1>6. WaitersQueued'
  <2>1. q # <<>> /\ hb = Head(q) /\ (posted[hb] \/ dpc[hb] = "idle")
    BY DEF SdqTypeOK, HandlerServesFirst
  <2>2. \A i \in DOMAIN q : q[i] = hb \/ \E j \in DOMAIN q' : q'[j] = q[i]
    <3>1. q[1] = hb
      BY <2>1, PopFacts DEF SdqTypeOK
    <3>2. \A i \in DOMAIN q : i # 1 => i - 1 \in DOMAIN q' /\ q'[i - 1] = q[i]
      BY <2>1, PopFacts DEF SdqTypeOK
    <3> QED BY <3>1, <3>2
  <2> QED BY <2>1, <2>2 DEF SdqTypeOK, WaitersQueued
<1> QED BY <1>1, <1>2, <1>3, <1>4, <1>5, <1>6

(* sd_intr starts the next transfer. *)
LEMMA IntrNextInv == ASSUME SdqInv, IntrNext PROVE SdqInv'
<1> USE DEF SdqInv, IntrNext, Going, SdStart
<1>1. SdqTypeOK'
  BY DEF SdqTypeOK, HandlerServesFirst
<1>2. NoSdPanic'
  BY DEF NoSdPanic, HandlerServesFirst
<1>3. FirstIsStarted'
  BY DEF FirstIsStarted, HandlerServesFirst
<1>4. QueuedBufsLive'
  BY DEF QueuedBufsLive
<1>5. HandlerServesFirst'
  BY DEF HandlerServesFirst
<1>6. WaitersQueued'
  BY DEF WaitersQueued
<1> QED BY <1>1, <1>2, <1>3, <1>4, <1>5, <1>6

(* Every step of the driver, of its callers and of the controller. *)
LEMMA StepInv == SdqInv /\ [SdqNext]_sdqvars => SdqInv'
<1> SUFFICES ASSUME SdqInv, [SdqNext]_sdqvars PROVE SdqInv'
  OBVIOUS
<1>1. CASE Transfer
  BY <1>1, TransferInv
<1>2. CASE SdIntr
  BY <1>2, IntrEnterInv, IntrMoveInv, IntrPostInv, IntrPopInv, IntrNextInv DEF SdIntr
<1>3. CASE \E t \in DiskThreads : SdCall(t) \/ SdrwStep(t)
  BY <1>3, SdCallInv, SdPushInv, SdStartFirstInv, SdWokenInv DEF SdrwStep
<1>4. CASE UNCHANGED sdqvars
  BY <1>4 DEF sdqvars, SdqInv, SdqTypeOK, NoSdPanic, FirstIsStarted, QueuedBufsLive, HandlerServesFirst,
              WaitersQueued
<1> QED BY <1>1, <1>2, <1>3, <1>4 DEF SdqNext

(* The invariant of the request queue (sd.c:155-260), for any threads and CPUs. *)
THEOREM SdqInvariant == SdqSpec => []SdqInv
<1> QED BY InitInv, StepInv, PTL DEF SdqSpec

(* Neither sd_start nor sd_intr panics: sd_start never finds an interrupt pending   *)
(* and sd_intr never an empty queue (sd.c:179).                                     *)
THEOREM SdNeverPanics == SdqSpec => []NoSdPanic
<1>1. SdqInv => NoSdPanic
  BY DEF SdqInv
<1> QED BY <1>1, SdqInvariant, PTL

(* One transfer at a time, of the first buf, started by sdrw or by sd_intr and not  *)
(* by both or neither.                                                              *)
THEOREM FirstAlwaysStarted == SdqSpec => []FirstIsStarted
<1>1. SdqInv => FirstIsStarted
  BY DEF SdqInv
<1> QED BY <1>1, SdqInvariant, PTL

(* No thread that waits in sdrw is forgotten.                                       *)
THEOREM NobodyForgotten == SdqSpec => []WaitersQueued
<1>1. SdqInv => WaitersQueued
  BY DEF SdqInv
<1> QED BY <1>1, SdqInvariant, PTL
=============================================================================
