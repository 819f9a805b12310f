----------------------------- MODULE BlockCache -----------------------------
(***************************************************************************)
(* The LRU list of in-memory blocks (src/fs/cache.c): cache_acquire with   *)
(* its eviction, cache_release, and the pins of cache_sync and of a        *)
(* commit.                                                                 *)
(*                                                                         *)
(* A critical section under LRUcache.lock is one step.  The lock of a      *)
(* block is locked as a semaphore before LRUcache.lock is released, so the *)
(* thread takes its place in the block's queue in the same step.  The      *)
(* queue is in the order of the waits; its first thread owns the lock, as  *)
(* SleepLock shows.  val of the semaphore is 1 - Len(queue).               *)
(***************************************************************************)
EXTENDS Integers, ListOps

CONSTANTS
  Threads,   \* users of one block each; a commit, which holds two, is two
  BlockNos,  \* block numbers
  capacity   \* LRUcache.capacity, EVICTION_THRESHOLD

ASSUME CacheAssumption == capacity \in Nat \ {0}

VARIABLES
  lru,       \* block numbers on LRUcache.head, most recently used first
  acquired,  \* Block.acquired
  pinned,    \* Block.pinned
  valid,     \* Block.valid
  queue,     \* threads that own or wait for Block.lock
  pc,        \* "idle", "wait" (hit), "read", "evict" (miss) or "hold"
  want       \* the block of the thread's last cache_acquire

vars == <<lru, acquired, pinned, valid, queue, pc, want>>

Cached(b) == b \in Listed(lru)

Owns(t, b) == queue[b] # <<>> /\ Head(queue[b]) = t

\* init_LRUcache.
Init ==
  /\ lru = <<>>
  /\ acquired = [b \in BlockNos |-> FALSE]
  /\ pinned = [b \in BlockNos |-> FALSE]
  /\ valid = [b \in BlockNos |-> FALSE]
  /\ queue = [b \in BlockNos |-> <<>>]
  /\ pc = [t \in Threads |-> "idle"]
  /\ want \in [Threads -> BlockNos]

(***************************************************************************)
(* cache_acquire                                                           *)
(***************************************************************************)

\* The block is in the list: mark it and wait for its lock.
AcquireHit(t, b) ==
  /\ pc[t] = "idle"
  /\ Cached(b)
  /\ acquired' = [acquired EXCEPT ![b] = TRUE]
  /\ queue' = [queue EXCEPT ![b] = Append(queue[b], t)]
  /\ pc' = [pc EXCEPT ![t] = "wait"]
  /\ want' = [want EXCEPT ![t] = b]
  /\ UNCHANGED <<lru, pinned, valid>>

AcquireHitDone(t) ==
  /\ pc[t] = "wait"
  /\ Owns(t, want[t])
  /\ acquired' = [acquired EXCEPT ![want[t]] = TRUE]
  /\ lru' = <<want[t]>> \o Detach(lru, want[t])
  /\ pc' = [pc EXCEPT ![t] = "hold"]
  /\ UNCHANGED <<pinned, valid, queue, want>>

\* Mutant: the lock of a new block is not taken before others can find it.
FirstOwnerNobody(t) == <<>>

FirstOwner(t) == <<t>>

\* The block is not in the list: a new one, locked before anybody can find it.
AcquireMiss(t, b) ==
  /\ pc[t] = "idle"
  /\ ~Cached(b)
  /\ lru' = <<b>> \o lru
  /\ acquired' = [acquired EXCEPT ![b] = TRUE]
  /\ pinned' = [pinned EXCEPT ![b] = FALSE]
  /\ valid' = [valid EXCEPT ![b] = FALSE]
  /\ queue' = [queue EXCEPT ![b] = FirstOwner(t)]
  /\ pc' = [pc EXCEPT ![t] = "read"]
  /\ want' = [want EXCEPT ![t] = b]

\* device_read, without LRUcache.lock.
ReadDone(t) ==
  /\ pc[t] = "read"
  /\ valid' = [valid EXCEPT ![want[t]] = TRUE]
  /\ pc' = [pc EXCEPT ![t] = "evict"]
  /\ UNCHANGED <<lru, acquired, pinned, queue, want>>

\* Mutant: a pinned block is evicted.
EvictableIgnoresPin(b) == ~acquired[b]

Evictable(b) == ~pinned[b] /\ ~acquired[b]

\* Lines 128-138: only the last block of the list is tried.
EvictLast(t) ==
  /\ pc[t] = "evict"
  /\ pc' = [pc EXCEPT ![t] = "hold"]
  /\ IF Len(lru) > capacity /\ Evictable(lru[Len(lru)])
       THEN lru' = WithoutLast(lru)
       ELSE UNCHANGED lru
  /\ UNCHANGED <<acquired, pinned, valid, queue, want>>

(***************************************************************************)
(* cache_release, cache_sync and the install loop of cache_end_op          *)
(***************************************************************************)

\* Mutant: acquired is cleared although somebody waits for the block.
StillWantedIgnored(b) == FALSE

\* _query_sem < 0.
StillWanted(b) == Len(queue[b]) > 1

\* Mutant: the lock is posted only if nobody waits.
HandOverToNobody(b) == IF StillWanted(b) THEN queue[b] ELSE Tail(queue[b])

\* _post_sem.
HandOver(b) == Tail(queue[b])

Release(t) ==
  LET b == want[t] IN
  /\ pc[t] = "hold"
  /\ acquired' = [acquired EXCEPT ![b] = StillWanted(b)]
  /\ queue' = [queue EXCEPT ![b] = HandOver(b)]
  /\ pc' = [pc EXCEPT ![t] = "idle"]
  /\ UNCHANGED <<lru, pinned, valid, want>>

\* cache_sync with a context pins, installing the block unpins.
SetPin(t, pin) ==
  /\ pc[t] = "hold"
  /\ pinned' = [pinned EXCEPT ![want[t]] = pin]
  /\ UNCHANGED <<lru, acquired, valid, queue, pc, want>>

-----------------------------------------------------------------------------

Acquire(t) == AcquireHitDone(t) \/ ReadDone(t) \/ EvictLast(t)

Next ==
  \E t \in Threads :
    \/ \E b \in BlockNos : AcquireHit(t, b) \/ AcquireMiss(t, b)
    \/ Acquire(t)
    \/ \E pin \in BOOLEAN : SetPin(t, pin)
    \/ Release(t)

Spec == Init /\ [][Next]_vars

\* A process inside cache_acquire that can go on does, the device answers, and
\* every block that is acquired is released.
Fairness == \A t \in Threads : WF_vars(Acquire(t)) /\ WF_vars(Release(t))

FairSpec == Spec /\ Fairness

(***************************************************************************)
(* Properties                                                              *)
(***************************************************************************)

\* Types of the variables.
TypeOK ==
  /\ lru \in Seq(BlockNos)
  /\ acquired \in [BlockNos -> BOOLEAN]
  /\ pinned \in [BlockNos -> BOOLEAN]
  /\ valid \in [BlockNos -> BOOLEAN]
  /\ queue \in [BlockNos -> Seq(Threads)]
  /\ pc \in [Threads -> {"idle", "wait", "read", "evict", "hold"}]
  /\ want \in [Threads -> BlockNos]

\* One copy: two threads that miss the same block do not both allocate it.
OneCopy == Distinct(lru)

\* No use after free: a block that a thread holds, waits for or is reading is
\* not freed, in particular not between the post of cache_release and the
\* moment at which the waiter runs.
NoUseAfterFree == \A t \in Threads : pc[t] # "idle" => Cached(want[t])

\* Block.lock excludes: whoever holds a block owns its lock, alone.
HolderOwnsLock ==
  \A t \in Threads : pc[t] \in {"read", "evict", "hold"} => Owns(t, want[t])

\* A thread that gets a block sees its content, also the thread that found it
\* in the list while it was being read.
HolderSeesContent == \A t \in Threads : pc[t] = "hold" => valid[want[t]]

\* A pinned block stays in the list until it is unpinned.
PinnedStaysCached == \A b \in BlockNos : pinned[b] => Cached(b)

\* The inductive invariant behind NoUseAfterFree: acquired is set exactly
\* while somebody owns or waits for the lock, and exactly the threads inside
\* cache_acquire or holding the block are in its queue.
CacheInv ==
  /\ TypeOK
  /\ OneCopy
  /\ \A b \in BlockNos :
       /\ acquired[b] <=> queue[b] # <<>>
       /\ acquired[b] => Cached(b)
       /\ Distinct(queue[b])
       /\ Listed(queue[b]) = {t \in Threads : pc[t] # "idle" /\ want[t] = b}
  /\ HolderOwnsLock

\* cache_acquire returns, in whatever order the others release.
AcquireReturns == \A t \in Threads : pc[t] = "wait" ~> pc[t] = "hold"
=============================================================================
