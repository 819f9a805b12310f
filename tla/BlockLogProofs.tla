--------------------------- MODULE BlockLogProofs ---------------------------
(***************************************************************************)
(* Proofs about BlockLog: the reservations of begin_op keep the log within *)
(* its header block and within its area of the device, and the log         *)
(* implements AtomicDisk, whatever the number of threads, blocks and log   *)
(* blocks and however often the power fails.                               *)
(***************************************************************************)
EXTENDS BlockLogRefinement, FiniteSetTheorems, TLAPS

\* Cardinalities of disjoint sets add up.
LEMMA DisjointUnion ==
  ASSUME NEW S, NEW T, IsFiniteSet(S), IsFiniteSet(T), S \cap T = {}
  PROVE  Cardinality(S \cup T) = Cardinality(S) + Cardinality(T)
<1>1. Cardinality(S) \in Nat /\ Cardinality(T) \in Nat
  BY Zenon, FS_CardinalityType
<1>2. Cardinality(S \cap T) = 0
  BY Zenon, FS_EmptySet
<1>3. Cardinality(S \cup T) =
        Cardinality(S) + Cardinality(T) - Cardinality(S \cap T)
  BY FS_Union, Zenon
<1> QED
  BY <1>1, <1>2, <1>3

\* The reservations of one thread: as many pairs as ctx->rm says.
LEMMA RowCardinality ==
  ASSUME NEW t, NEW n \in Nat
  PROVE  /\ IsFiniteSet({t} \X (1 .. n))
         /\ Cardinality({t} \X (1 .. n)) = n
<1>1. IsFiniteSet({t}) /\ Cardinality({t}) = 1
  BY Zenon, FS_Singleton
<1>2. IsFiniteSet(1 .. n) /\ Cardinality(1 .. n) = n
  BY FS_Interval
<1>3. /\ IsFiniteSet({t} \X (1 .. n))
      /\ Cardinality({t} \X (1 .. n)) = Cardinality({t}) * Cardinality(1 .. n)
  BY <1>1, <1>2, FS_Product, Zenon
<1> QED
  BY <1>1, <1>2, <1>3

\* What begin_op, cache_sync and end_op do to one ctx->rm changes the number
\* of reservations by exactly as much.
LEMMA CreditsChange ==
  ASSUME NEW r \in [Threads -> 0 .. OP_MAX_NUM_BLOCKS],
         NEW t \in Threads,
         NEW n \in 0 .. OP_MAX_NUM_BLOCKS
  PROVE  /\ IsFiniteSet(CreditsOf(r))
         /\ Cardinality(CreditsOf(r)) \in Nat
         /\ Cardinality(CreditsOf([r EXCEPT ![t] = n]))
              = Cardinality(CreditsOf(r)) - r[t] + n
<1> DEFINE All == Threads \X (1 .. OP_MAX_NUM_BLOCKS)
           Row(k) == {t} \X (1 .. k)
           Rest == {c \in CreditsOf(r) : c[1] # t}
           s == [r EXCEPT ![t] = n]
<1>1. IsFiniteSet(All)
  <2>1. IsFiniteSet(Threads) /\ IsFiniteSet(1 .. OP_MAX_NUM_BLOCKS)
    BY LogAssumption, FS_Interval
  <2> QED
    BY <2>1, FS_Product, Zenon
<1>2. CreditsOf(r) \subseteq All /\ Rest \subseteq All
  BY Zenon DEF CreditsOf
<1>3. IsFiniteSet(CreditsOf(r)) /\ IsFiniteSet(Rest)
  BY Zenon, <1>1, <1>2, FS_Subset
<1>4. /\ Cardinality(CreditsOf(r)) \in Nat
      /\ Cardinality(Rest) \in Nat
  BY Zenon, <1>3, FS_CardinalityType
<1>5. ASSUME NEW k \in 0 .. OP_MAX_NUM_BLOCKS
      PROVE  Cardinality(Rest \cup Row(k)) = Cardinality(Rest) + k
  <2>1. k \in Nat
    BY LogAssumption
  <2>2. IsFiniteSet(Row(k)) /\ Cardinality(Row(k)) = k
    BY Zenon, <2>1, RowCardinality
  <2>3. Rest \cap Row(k) = {}
    BY Zenon
  <2>4. Cardinality(Rest \cup Row(k)) = Cardinality(Rest) + Cardinality(Row(k))
    BY <1>3, <2>2, <2>3, DisjointUnion, Zenon
  <2> QED
    BY <2>2, <2>4, Zenon
<1>6. CreditsOf(r) = Rest \cup Row(r[t])
  BY LogAssumption DEF CreditsOf
<1>7. CreditsOf(s) = Rest \cup Row(n)
  BY LogAssumption DEF CreditsOf
<1>8. r[t] \in 0 .. OP_MAX_NUM_BLOCKS
  BY Zenon
<1>9. /\ Cardinality(CreditsOf(r)) = Cardinality(Rest) + r[t]
      /\ Cardinality(CreditsOf(s)) = Cardinality(Rest) + n
  BY <1>5, <1>6, <1>7, <1>8, Zenon
<1>10. r[t] \in Int /\ n \in Int
  BY <1>8, LogAssumption
<1> HIDE DEF Rest, s
<1>11. Cardinality(CreditsOf(s)) = Cardinality(CreditsOf(r)) - r[t] + n
  BY <1>4, <1>9, <1>10
<1> QED
  BY Zenon, <1>3, <1>4, <1>11 DEF s

-----------------------------------------------------------------------------

\* The running operations are some of the finitely many threads.
LEMMA RunningFinite ==
  IsFiniteSet(Running) /\ Cardinality(Running) \in Nat
<1>1. Running \in SUBSET Threads
  BY Zenon DEF Running
<1> QED
  BY Zenon, <1>1, LogAssumption, FS_Subset, FS_CardinalityType

\* With nothing reserved there is no credit to count.
LEMMA NoCredits ==
  ASSUME NEW r \in [Threads -> 0 .. OP_MAX_NUM_BLOCKS],
         \A t \in Threads : r[t] = 0
  PROVE  CreditsOf(r) = {}
BY LogAssumption DEF CreditsOf

\* The image is fresh, so the log is empty and nothing is reserved.
LEMMA LogInvInit == Init => LogInv
<1> SUFFICES ASSUME Init PROVE LogInv
  BY Zenon
<1>1. TypeOK
  <2>1. /\ disk \in [Blocks -> Values]
        /\ dlog \in [LogSlots -> Values]
        /\ cached \in [Blocks -> Values \cup {NotCached}]
        /\ rm \in [Threads -> 0 .. OP_MAX_NUM_BLOCKS]
        /\ crashes \in 0 .. MaxCrashes
    BY LogAssumption DEF Init
  <2>2. /\ pinned \in [Blocks -> BOOLEAN]
        /\ committing \in BOOLEAN
        /\ unsaved \in [Threads -> SUBSET Blocks]
    BY Zenon DEF Init
  <2>3. pc \in [Threads -> PCs] /\ mode \in {"down", "replay", "up", "panic"}
    BY Zenon DEF Init, PCs
  <2>4. /\ header \in Seq(Blocks) /\ dheader \in Seq(Blocks)
        /\ outstanding \in Nat /\ real_use \in Nat /\ next \in Nat \ {0}
    BY DEF Init
  <2> QED
    BY Zenon, <2>1, <2>2, <2>3, <2>4 DEF TypeOK
<1>2. Credits = {} /\ Running = {} /\ Committers = {}
  BY Zenon, <1>1, NoCredits DEF Init, TypeOK, Credits, Running, Committers, CommitPC
<1>3. LogAccounting
  BY Zenon, <1>2, FS_EmptySet DEF Init, LogAccounting
<1>4. LogFits
  BY LogAssumption DEF Init, LogFits, FitsLog
<1>5. CommitExclusive
  BY Zenon, <1>2 DEF Init, CommitExclusive
<1> QED
  BY <1>1, <1>3, <1>4, <1>5, LogAssumption DEF Init, LogInv

\* begin_op reserves OP_MAX_NUM_BLOCKS log blocks, and only if both bounds
\* leave room for them.
LEMMA BeginOpLogInv ==
  ASSUME LogInv, NEW t \in Threads, BeginOp(t)
  PROVE  LogInv'
<1> USE DEF LogInv
<1>1. TypeOK'
  BY LogAssumption DEF BeginOp, TypeOK, PCs, device
<1>2. Running' = Running \cup {t} /\ t \notin Running
  BY Zenon DEF BeginOp, TypeOK, Running
<1>3. outstanding' = Cardinality(Running')
  BY Zenon, <1>2, RunningFinite, FS_AddElement DEF BeginOp, LogAccounting
<1>4. Cardinality(Credits') = Cardinality(Credits) + OP_MAX_NUM_BLOCKS
  <2>1. rm[t] = 0 /\ OP_MAX_NUM_BLOCKS \in 0 .. OP_MAX_NUM_BLOCKS
    BY LogAssumption DEF BeginOp
  <2>2. /\ Cardinality(Credits) \in Nat
        /\ Cardinality(Credits') = Cardinality(Credits) - rm[t] + OP_MAX_NUM_BLOCKS
    BY <2>1, CreditsChange DEF BeginOp, TypeOK, Credits
  <2> QED
    BY <2>1, <2>2, LogAssumption
<1>5. Cardinality(Credits) \in Nat
  BY Zenon, CreditsChange, LogAssumption DEF TypeOK, Credits
<1>6. LogAccounting'
  BY <1>3, <1>4, <1>5, LogAssumption
  DEF BeginOp, LogAccounting, TypeOK, MayBegin
<1>7. LogFits'
  BY Zenon DEF BeginOp, LogFits, FitsLog, device
<1>8. CommitExclusive'
  BY
  DEF BeginOp, CommitExclusive, Committers, CommitPC, Running, TypeOK, MayBegin
<1>9. real_use' <= LOG_MAX_SIZE /\ real_use' <= NumLogBlocks - 1
  BY LogAssumption DEF BeginOp, LogFull, TypeOK, MayBegin
<1> QED
  BY <1>1, <1>6, <1>7, <1>8, <1>9 DEF BeginOp, TypeOK

\* A step that leaves the counters of struct LOG, the reservations and the
\* running and committing threads alone keeps the invariant.
LEMMA QuietStep ==
  ASSUME LogInv, TypeOK',
         UNCHANGED <<header, outstanding, committing, real_use, rm>>,
         Running' = Running, Committers' = Committers,
         FitsLog(dheader'),
         \A t \in Threads : pc'[t] = "finish" => pc[t] = "finish",
         \/ mode' = mode /\ (pc' = pc \/ mode = "up")
         \/ mode = "up" /\ mode' = "panic"
  PROVE  LogInv'
<1> USE DEF LogInv
<1>1. LogAccounting'
  BY Zenon DEF LogAccounting, Credits
<1>2. LogFits'
  BY Zenon DEF LogFits, FitsLog
<1>3. CommitExclusive'
  BY Zenon DEF CommitExclusive
<1>4. \A t \in Threads :
        /\ pc'[t] # "op" => rm'[t] = 0
        /\ pc'[t] = "finish" => header' = <<>>
  BY Zenon DEF Running
<1> QED
  BY <1>1, <1>2, <1>3, <1>4, Zenon

\* Steps that only move a thread between places where it neither runs an
\* operation nor commits, and the traffic of the cache.
LEMMA BeginWaitLogInv ==
  ASSUME LogInv, NEW t \in Threads, BeginWait(t)
  PROVE  LogInv'
<1>1. TypeOK'
  BY Zenon DEF LogInv, BeginWait, TypeOK, PCs, device, memory
<1>2. Running' = Running /\ Committers' = Committers
  BY Zenon DEF LogInv, BeginWait, TypeOK, Running, Committers, CommitPC
<1> QED
  BY Zenon, <1>1, <1>2, QuietStep
  DEF LogInv, LogFits, FitsLog, TypeOK, BeginWait, device, memory

\* Going to sleep on end_sem touches no field of log.
LEMMA EndOpSleepLogInv ==
  ASSUME LogInv, NEW t \in Threads, EndOpSleep(t)
  PROVE  LogInv'
<1>1. TypeOK'
  BY Zenon DEF LogInv, EndOpSleep, TypeOK, PCs, device, memory
<1>2. Running' = Running /\ Committers' = Committers
  BY Zenon DEF LogInv, EndOpSleep, TypeOK, Running, Committers, CommitPC
<1> QED
  BY Zenon, <1>1, <1>2, QuietStep
  DEF LogInv, LogFits, FitsLog, TypeOK, EndOpSleep, device, memory

\* post_all_sem(&begin_sem) only moves waiters back into the loop of begin_op.
LEMMA PostBeginLogInv ==
  ASSUME LogInv, NEW t \in Threads, PostBegin(t)
  PROVE  LogInv'
<1>1. TypeOK'
  BY Zenon DEF LogInv, PostBegin, TypeOK, PCs, WakeBegin, device, memory
<1>2. Running' = Running /\ Committers' = Committers
  BY Zenon DEF LogInv, PostBegin, TypeOK, WakeBegin, Running, Committers, CommitPC
<1> QED
  BY Zenon, <1>1, <1>2, QuietStep
  DEF LogInv, LogFits, FitsLog, TypeOK, PostBegin, device, memory, WakeBegin

\* post_all_sem(&end_sem) only lets waiters return from end_op.
LEMMA PostEndLogInv ==
  ASSUME LogInv, NEW t \in Threads, PostEnd(t)
  PROVE  LogInv'
<1>1. TypeOK'
  BY Zenon DEF LogInv, PostEnd, TypeOK, PCs, WakeEnd, device, memory
<1>2. Running' = Running /\ Committers' = Committers
  BY Zenon DEF LogInv, PostEnd, TypeOK, WakeEnd, Running, Committers, CommitPC
<1> QED
  BY Zenon, <1>1, <1>2, QuietStep
  DEF LogInv, LogFits, FitsLog, TypeOK, PostEnd, device, memory, WakeEnd

\* Misses and evictions of cache_acquire touch neither the log nor its header.
LEMMA CacheTrafficLogInv ==
  ASSUME LogInv, NEW b \in Blocks, Load(b) \/ Evict(b)
  PROVE  LogInv'
<1>1. TypeOK'
  BY Zenon DEF LogInv, Load, Evict, TypeOK, device
<1>2. Running' = Running /\ Committers' = Committers
  BY Zenon DEF Load, Evict, Running, Committers
<1> QED
  BY Zenon, <1>1, <1>2, QuietStep DEF LogInv, LogFits, FitsLog, Load, Evict, device

\* PANIC freezes the state it finds.
LEMMA SyncPanicLogInv ==
  ASSUME LogInv, NEW t \in Threads, NEW b \in Blocks, NEW v \in Values,
         SyncPanic(t, b, v)
  PROVE  LogInv'
<1>1. TypeOK'
  BY Zenon DEF LogInv, SyncPanic, Pin, TypeOK, device
<1>2. Running' = Running /\ Committers' = Committers
  BY Zenon DEF SyncPanic, Running, Committers
<1> QED
  BY Zenon, <1>1, <1>2, QuietStep DEF LogInv, LogFits, FitsLog, SyncPanic, device

\* The commit copies logged blocks to log blocks that exist and back home.
LEMMA WriteLogBlockLogInv ==
  ASSUME LogInv, NEW t \in Threads, WriteLogBlock(t)
  PROVE  LogInv'
<1>1. header[next] \in Blocks
  BY DEF LogInv, WriteLogBlock, TypeOK, LoopDone
<1>2. Content(header[next]) \in Values
  BY Zenon, <1>1 DEF LogInv, TypeOK, Content
<1>3. TypeOK'
  <2>1. next \in LogSlots /\ next' \in Nat \ {0}
    BY LogAssumption
    DEF LogInv, LogFits, FitsLog, WriteLogBlock, TypeOK, LogSlots, LoopDone
  <2>2. dlog' \in [LogSlots -> Values]
    BY Zenon, <1>2, <2>1 DEF LogInv, WriteLogBlock, TypeOK
  <2> QED
    BY Zenon, <2>1, <2>2 DEF LogInv, WriteLogBlock, TypeOK, memory
<1>4. Running' = Running /\ Committers' = Committers
  BY Zenon DEF WriteLogBlock, Running, Committers
<1> QED
  BY Zenon, <1>3, <1>4, QuietStep DEF LogInv, LogFits, FitsLog, WriteLogBlock, memory

\* Installing a block leaves the log as it is.
LEMMA InstallBlockLogInv ==
  ASSUME LogInv, NEW t \in Threads, InstallBlock(t)
  PROVE  LogInv'
<1>1. header[next] \in Blocks /\ next \in LogSlots
  BY LogAssumption
  DEF LogInv, LogFits, FitsLog, InstallBlock, TypeOK, LogSlots, LoopDone
<1>2. dlog[next] \in Values
  BY Zenon, <1>1 DEF LogInv, TypeOK
<1>3. TypeOK'
  BY <1>1, <1>2 DEF LogInv, InstallBlock, TypeOK
<1>4. Running' = Running /\ Committers' = Committers
  BY Zenon DEF InstallBlock, Running, Committers
<1> QED
  BY Zenon, <1>3, <1>4, QuietStep DEF LogInv, LogFits, FitsLog, InstallBlock

\* The header on the device is the one in memory, which fits.
LEMMA WriteHeaderLogInv ==
  ASSUME LogInv, NEW t \in Threads, WriteHeader(t)
  PROVE  LogInv'
<1>1. TypeOK'
  BY DEF LogInv, WriteHeader, TypeOK, PCs, CommitPC, memory
<1>2. Running' = Running /\ Committers' = Committers
  BY Zenon DEF LogInv, WriteHeader, TypeOK, Running, Committers, CommitPC
<1>3. FitsLog(dheader')
  BY Zenon DEF LogInv, LogFits, FitsLog, WriteHeader
<1> QED
  BY Zenon, <1>1, <1>2, <1>3, QuietStep DEF LogInv, TypeOK, WriteHeader, memory

\* An empty header fits.
LEMMA ClearHeaderLogInv ==
  ASSUME LogInv, NEW t \in Threads, ClearHeader(t)
  PROVE  LogInv'
<1> USE DEF LogInv
<1>1. TypeOK'
  BY DEF ClearHeader, TypeOK, PCs, CommitPC
<1>2. Running' = Running /\ Committers' = Committers
  BY Zenon DEF ClearHeader, TypeOK, Running, Committers, CommitPC
<1>3. committing
  BY Zenon DEF ClearHeader, CommitExclusive, Committers, CommitPC
<1>4. LogAccounting'
  BY <1>2, <1>3 DEF ClearHeader, LogAccounting, Credits, TypeOK
<1>5. LogFits'
  BY LogAssumption DEF ClearHeader, LogFits, FitsLog
<1>6. CommitExclusive'
  BY Zenon, <1>2 DEF ClearHeader, CommitExclusive
<1> QED
  BY Zenon, <1>1, <1>4, <1>5, <1>6 DEF ClearHeader, TypeOK

\* When committing is cleared the log is empty and nothing is reserved, so
\* the assignment real_use = 0 restores the accounting.
LEMMA FinishCommitLogInv ==
  ASSUME LogInv, NEW t \in Threads, FinishCommit(t)
  PROVE  LogInv'
<1> USE DEF LogInv
<1>1. TypeOK'
  BY Zenon DEF FinishCommit, TypeOK, PCs, device
<1>2. committing /\ Committers = {t} /\ header = <<>>
  BY Zenon DEF FinishCommit, CommitExclusive, Committers, CommitPC
<1>3. Running' = Running /\ Committers' = {}
  BY <1>2 DEF FinishCommit, TypeOK, Running, Committers, CommitPC
<1>4. LogAccounting'
  <2>1. Credits' = {} /\ outstanding' = Cardinality(Running')
    BY Zenon, <1>2, <1>3 DEF FinishCommit, LogAccounting, Credits
  <2>2. real_use' = 0 /\ Len(header') = 0 /\ ~committing'
    BY Zenon, <1>2 DEF FinishCommit
  <2> QED
    BY <2>1, <2>2, FS_EmptySet DEF LogAccounting
<1>5. LogFits'
  BY Zenon DEF FinishCommit, LogFits, FitsLog, device
<1>6. CommitExclusive'
  BY Zenon, <1>3 DEF FinishCommit, CommitExclusive
<1> QED
  BY <1>1, <1>4, <1>5, <1>6, LogAssumption DEF FinishCommit, TypeOK

-----------------------------------------------------------------------------

\* cache_sync turns one reservation into one used log block, or absorbs.
LEMMA WriteLogInv ==
  ASSUME LogInv, NEW t \in Threads, NEW b \in Blocks, NEW v \in Values,
         Write(t, b, v)
  PROVE  LogInv'
<1> USE DEF LogInv
<1>1. Running' = Running /\ Committers' = Committers /\ t \in Running
  BY Zenon DEF Write, Running, Committers
<1>2. ~committing /\ mode = "up"
  BY Zenon, <1>1 DEF Write, CommitExclusive
<1>3. CASE UNCHANGED <<header, rm>>
  <2>1. TypeOK'
    BY Zenon, <1>3 DEF Write, TypeOK, device, Pin
  <2> QED
    BY Zenon, <1>1, <1>3, <2>1, QuietStep DEF Write, LogFits, FitsLog, device
<1>4. CASE /\ rm[t] > 0
           /\ header' = Append(header, b)
           /\ rm' = [rm EXCEPT ![t] = rm[t] - 1]
  <2>1. rm[t] \in 0 .. OP_MAX_NUM_BLOCKS /\ rm[t] - 1 \in 0 .. OP_MAX_NUM_BLOCKS
    BY <1>4, LogAssumption DEF TypeOK
  <2>2. TypeOK'
    BY <1>4, <2>1 DEF Write, TypeOK, device, Pin
  <2>3. Len(header') = Len(header) + 1 /\ Len(header) \in Nat
    BY <1>4 DEF TypeOK
  <2>4. /\ Cardinality(Credits) \in Nat
        /\ Cardinality(Credits') = Cardinality(Credits) - rm[t] + (rm[t] - 1)
    BY Zenon, <1>4, <2>1, CreditsChange DEF TypeOK, Credits
  <2>5. Cardinality(Credits') \in Nat
    BY Zenon, <2>2, CreditsChange, LogAssumption DEF TypeOK, Credits
  <2>6. real_use = Len(header) + Cardinality(Credits)
    BY Zenon, <1>2 DEF LogAccounting
  <2>7. real_use' = Len(header') + Cardinality(Credits')
    <3>1. real_use' = real_use /\ rm[t] \in Int
      BY <2>1 DEF Write
    <3> QED
      BY <3>1, <2>3, <2>4, <2>6
  <2>8. LogAccounting'
    BY Zenon, <1>1, <1>2, <2>7 DEF Write, LogAccounting
  <2>9. LogFits'
    <3>1. Len(header') <= real_use' /\ real_use' = real_use /\ dheader' = dheader
      BY <2>3, <2>5, <2>7 DEF Write, device
    <3> QED
      BY <2>3, <3>1, LogAssumption DEF LogFits, FitsLog, TypeOK
  <2>10. CommitExclusive'
    BY Zenon, <1>1 DEF Write, CommitExclusive
  <2>11. \A u \in Threads :
           /\ pc'[u] # "op" => rm'[u] = 0
           /\ pc'[u] = "finish" => header' = <<>>
    BY Zenon, <1>2, <1>4 DEF Write, CommitExclusive, Committers, CommitPC, TypeOK
  <2>12. outstanding' # 0
    BY Zenon, <1>1, RunningFinite, FS_EmptySet DEF Write, LogAccounting
  <2> QED
    BY Zenon, <1>2, <2>2, <2>8, <2>9, <2>10, <2>11, <2>12 DEF Write
<1> QED
  BY Zenon, <1>3, <1>4 DEF Write, HasRoom

\* end_op gives back what the operation reserved and did not use.
LEMMA EndOpAccounting ==
  ASSUME LogInv, NEW t \in Running,
         rm' = [rm EXCEPT ![t] = 0],
         real_use' = real_use - rm[t],
         mode = "up"
  PROVE  /\ rm' \in [Threads -> 0 .. OP_MAX_NUM_BLOCKS]
         /\ real_use' \in Nat
         /\ real_use' <= real_use
         /\ ~committing
         /\ Cardinality(Credits') \in Nat
         /\ real_use' = Len(header) + Cardinality(Credits')
<1> USE DEF LogInv
<1>1. t \in Threads /\ 0 \in 0 .. OP_MAX_NUM_BLOCKS
  BY LogAssumption DEF Running
<1>2. rm[t] \in 0 .. OP_MAX_NUM_BLOCKS /\ rm[t] \in Nat
  BY <1>1, LogAssumption DEF TypeOK
<1>3. rm' \in [Threads -> 0 .. OP_MAX_NUM_BLOCKS]
  BY Zenon, <1>1 DEF TypeOK
<1>4. ~committing
  BY Zenon DEF CommitExclusive
<1>5. /\ Cardinality(Credits) \in Nat
      /\ Cardinality(Credits') = Cardinality(Credits) - rm[t] + 0
  BY Zenon, <1>1, CreditsChange DEF TypeOK, Credits
<1>6. Cardinality(Credits') \in Nat
  BY Zenon, <1>1, <1>3, CreditsChange DEF Credits
<1>7. real_use = Len(header) + Cardinality(Credits)
  BY Zenon, <1>4 DEF LogAccounting
<1>8. Len(header) \in Nat
  BY DEF TypeOK
<1> QED
  BY <1>2, <1>3, <1>4, <1>5, <1>6, <1>7, <1>8

\* end_op gives back exactly what the operation has reserved and not used.
LEMMA EndOpLeaveLogInv ==
  ASSUME LogInv, NEW t \in Threads, EndOpLeave(t)
  PROVE  LogInv'
<1> USE DEF LogInv
<1>1. t \in Running
  BY Zenon DEF EndOpLeave, Running
<1>2. /\ rm' \in [Threads -> 0 .. OP_MAX_NUM_BLOCKS]
      /\ real_use' \in Nat
      /\ real_use' <= real_use
      /\ ~committing
      /\ real_use' = Len(header) + Cardinality(Credits')
  BY Zenon, <1>1, EndOpAccounting DEF EndOpLeave, Unused
<1>3. TypeOK'
  BY <1>2 DEF EndOpLeave, TypeOK, PCs, WakeBegin, device
<1>4. Running' = Running \ {t} /\ Committers' = Committers
  BY Zenon DEF EndOpLeave, TypeOK, WakeBegin, Running, Committers, CommitPC
<1>5. outstanding' = Cardinality(Running')
  BY Zenon, <1>1, <1>4, RunningFinite, FS_RemoveElement DEF EndOpLeave, LogAccounting
<1>6. LogAccounting'
  BY Zenon, <1>2, <1>5 DEF EndOpLeave, LogAccounting
<1>7. LogFits'
  BY Zenon DEF EndOpLeave, LogFits, FitsLog, device
<1>8. CommitExclusive'
  BY Zenon, <1>2, <1>4 DEF EndOpLeave, CommitExclusive
<1>9. real_use' <= LOG_MAX_SIZE /\ real_use' <= NumLogBlocks - 1
  BY <1>2, LogAssumption DEF TypeOK
<1>10. \A u \in Threads :
         /\ pc'[u] # "op" => rm'[u] = 0
         /\ pc'[u] = "finish" => header' = <<>>
  BY Zenon DEF EndOpLeave, TypeOK, WakeBegin
<1>11. outstanding' # 0 /\ mode' = "up"
  BY DEF EndOpLeave, TypeOK
<1> QED
  BY Zenon, <1>3, <1>6, <1>7, <1>8, <1>9, <1>10, <1>11

\* outstanding = 1 means that the committing thread was the only one running:
\* nothing stays reserved.
LEMMA EndOpCommitLogInv ==
  ASSUME LogInv, NEW t \in Threads, EndOpCommit(t)
  PROVE  LogInv'
<1> USE DEF LogInv
<1>1. t \in Running
  BY Zenon DEF EndOpCommit, Running
<1>2. /\ rm' \in [Threads -> 0 .. OP_MAX_NUM_BLOCKS]
      /\ real_use' \in Nat
      /\ real_use' <= real_use
      /\ ~committing
      /\ Cardinality(Credits') \in Nat
      /\ real_use' = Len(header) + Cardinality(Credits')
  BY Zenon, <1>1, EndOpAccounting DEF EndOpCommit, Unused
<1>3. TypeOK'
  BY <1>2 DEF EndOpCommit, TypeOK, PCs, CommitPC, device
<1>4. Running' = Running \ {t} /\ Committers' = Committers \cup {t}
  BY Zenon DEF EndOpCommit, TypeOK, Running, Committers, CommitPC
<1>5. Running' = {}
  <2>1. IsFiniteSet(Running') /\ Cardinality(Running') = Cardinality(Running) - 1
    BY Zenon, <1>1, <1>4, RunningFinite, FS_RemoveElement
  <2>2. Cardinality(Running) = 1
    BY Zenon DEF EndOpCommit, LogAccounting
  <2> QED
    BY <2>1, <2>2, FS_EmptySet
<1>6. \A u \in Threads : rm'[u] = 0
  BY Zenon, <1>4, <1>5 DEF EndOpCommit, TypeOK, Running
<1>7. Credits' = {}
  BY Zenon, <1>2, <1>6, NoCredits DEF Credits
<1>8. LogAccounting'
  <2>1. Cardinality(Credits') = 0 /\ Cardinality(Running') = 0
    BY Zenon, <1>5, <1>7, FS_EmptySet
  <2>2. Len(header') <= real_use' /\ committing' /\ outstanding' = 0
    BY <1>2, <2>1 DEF EndOpCommit, TypeOK
  <2> QED
    BY Zenon, <1>7, <2>1, <2>2 DEF LogAccounting
<1>9. LogFits'
  BY Zenon DEF EndOpCommit, LogFits, FitsLog, device
<1>10. CommitExclusive'
  BY Zenon, <1>2, <1>4, <1>5 DEF EndOpCommit, CommitExclusive
<1>11. real_use' <= LOG_MAX_SIZE /\ real_use' <= NumLogBlocks - 1
  BY <1>2, LogAssumption DEF TypeOK
<1>12. \A u \in Threads : pc'[u] = "finish" => header' = <<>>
  BY Zenon DEF EndOpCommit, TypeOK
<1> QED
  BY Zenon, <1>3, <1>6, <1>8, <1>9, <1>10, <1>11, <1>12 DEF EndOpCommit

-----------------------------------------------------------------------------

\* A power failure forgets the memory; dheader is all that stays of the log.
LEMMA CrashLogInv ==
  ASSUME LogInv, Crash
  PROVE  LogInv'
<1> USE DEF LogInv
<1>1. TypeOK'
  <2>1. rm' \in [Threads -> 0 .. OP_MAX_NUM_BLOCKS] /\ crashes' \in 0 .. MaxCrashes
    BY LogAssumption DEF Crash, TypeOK
  <2>2. pc' \in [Threads -> PCs]
    BY Zenon DEF Crash, PCs
  <2>3. pinned' \in [Blocks -> BOOLEAN] /\ unsaved' \in [Threads -> SUBSET Blocks]
    BY Zenon DEF Crash
  <2>4. cached' \in [Blocks -> Values \cup {NotCached}]
    BY Zenon DEF Crash
  <2>5. /\ header' \in Seq(Blocks)
        /\ outstanding' \in Nat /\ real_use' \in Nat /\ next' \in Nat \ {0}
    BY DEF Crash
  <2>6. UNCHANGED <<disk, dlog, dheader>> /\ mode' = "down" /\ committing' = FALSE
    BY Zenon DEF Crash, device
  <2> QED
    BY Zenon, <2>1, <2>2, <2>3, <2>4, <2>5, <2>6 DEF TypeOK
<1>2. Credits' = {} /\ Running' = {} /\ Committers' = {}
  <2>1. \A t \in Threads : rm'[t] = 0
    BY Zenon DEF Crash
  <2>2. Credits' = {}
    BY Zenon, <1>1, <2>1, NoCredits DEF TypeOK, Credits
  <2> QED
    BY Zenon, <2>2 DEF Crash, Running, Committers, CommitPC
<1>3. LogAccounting'
  BY Zenon, <1>2, FS_EmptySet DEF Crash, LogAccounting
<1>4. LogFits'
  BY LogAssumption DEF Crash, LogFits, FitsLog, device
<1>5. CommitExclusive'
  BY Zenon, <1>2 DEF Crash, CommitExclusive
<1>6. real_use' <= LOG_MAX_SIZE /\ real_use' <= NumLogBlocks - 1
  BY LogAssumption DEF Crash
<1>7. /\ header' = <<>> /\ mode' = "down" /\ real_use' = 0 /\ ~committing'
      /\ \A t \in Threads : rm'[t] = 0 /\ pc'[t] = "idle"
  BY Zenon DEF Crash
<1> QED
  BY Zenon, <1>1, <1>3, <1>4, <1>5, <1>6, <1>7

\* A boot that finds a committed log loads a header that fits.
LEMMA BootLogInv ==
  ASSUME LogInv, Boot
  PROVE  LogInv'
<1> USE DEF LogInv
<1>1. TypeOK'
  BY DEF Boot, TypeOK, device
<1>2. Running' = Running /\ Committers' = Committers /\ Credits' = Credits
  BY Zenon DEF Boot, Running, Committers, Credits
<1>3. LogAccounting'
  BY Zenon, <1>2 DEF Boot, LogAccounting
<1>4. LogFits'
  BY Zenon DEF Boot, LogFits, device
<1>5. CommitExclusive'
  BY Zenon, <1>2 DEF Boot, CommitExclusive
<1> QED
  BY Zenon, <1>1, <1>3, <1>4, <1>5 DEF Boot

\* The replay copies blocks; nothing else runs.
LEMMA ReplayBlockLogInv ==
  ASSUME LogInv, ReplayBlock
  PROVE  LogInv'
<1>1. header[next] \in Blocks /\ next \in LogSlots
  BY LogAssumption
  DEF LogInv, LogFits, FitsLog, ReplayBlock, TypeOK, LogSlots, LoopDone
<1>2. dlog[next] \in Values
  BY Zenon, <1>1 DEF LogInv, TypeOK
<1>3. TypeOK'
  BY <1>1, <1>2 DEF LogInv, ReplayBlock, TypeOK
<1>4. Running' = Running /\ Committers' = Committers
  BY Zenon DEF ReplayBlock, Running, Committers
<1> QED
  BY Zenon, <1>3, <1>4, QuietStep DEF LogInv, LogFits, ReplayBlock

\* The replay leaves an empty log, for which real_use = 0 is right.
LEMMA ReplayDoneLogInv ==
  ASSUME LogInv, ReplayDone
  PROVE  LogInv'
<1> USE DEF LogInv
<1>1. TypeOK'
  BY DEF ReplayDone, TypeOK
<1>2. Running' = Running /\ Committers' = Committers /\ Credits' = Credits
  BY Zenon DEF ReplayDone, Running, Committers, Credits
<1>3. Credits = {} /\ real_use = 0 /\ ~committing
  <2>1. \A t \in Threads : rm[t] = 0
    BY Zenon DEF ReplayDone
  <2> QED
    BY Zenon, <2>1, NoCredits DEF ReplayDone, TypeOK, Credits
<1>4. LogAccounting'
  <2>1. Len(header') = 0 /\ real_use' = 0 /\ ~committing' /\ outstanding' = outstanding
    BY Zenon, <1>3 DEF ReplayDone
  <2> QED
    BY <1>2, <1>3, <2>1, FS_EmptySet DEF LogAccounting
<1>5. LogFits'
  BY Zenon, LogAssumption DEF ReplayDone, LogFits, FitsLog
<1>6. CommitExclusive'
  BY Zenon, <1>2 DEF ReplayDone, CommitExclusive
<1> QED
  BY Zenon, <1>1, <1>4, <1>5, <1>6 DEF ReplayDone

-----------------------------------------------------------------------------

\* No step of the block cache breaks the invariant.
LEMMA LogInvStep ==
  ASSUME LogInv, [Next]_vars
  PROVE  LogInv'
<1>1. CASE \E t \in Threads : BeginOp(t) \/ BeginWait(t)
  BY Zenon, <1>1, BeginOpLogInv, BeginWaitLogInv
<1>2. CASE \E t \in Threads : EndOp(t)
  BY Zenon, <1>2, EndOpCommitLogInv, EndOpLeaveLogInv, EndOpSleepLogInv DEF EndOp
<1>3. CASE \E t \in Threads : Commit(t)
  BY Zenon, <1>3, WriteLogBlockLogInv, WriteHeaderLogInv, InstallBlockLogInv,
     ClearHeaderLogInv, FinishCommitLogInv, PostBeginLogInv, PostEndLogInv
  DEF Commit
<1>4. CASE \E t \in Threads, b \in Blocks, v \in Values : Write(t, b, v)
  BY Zenon, <1>4, WriteLogInv
<1>5. CASE \E t \in Threads, b \in Blocks, v \in Values : SyncPanic(t, b, v)
  BY Zenon, <1>5, SyncPanicLogInv
<1>6. CASE \E b \in Blocks : Load(b) \/ Evict(b)
  BY Zenon, <1>6, CacheTrafficLogInv
<1>7. CASE Crash
  BY Zenon, <1>7, CrashLogInv
<1>8. CASE init_bcache
  BY Zenon, <1>8, BootLogInv, ReplayBlockLogInv, ReplayDoneLogInv DEF init_bcache
<1>9. CASE UNCHANGED vars
  <2>1. TypeOK'
    BY Zenon, <1>9 DEF LogInv, TypeOK, vars, device, memory
  <2>2. Running' = Running /\ Committers' = Committers
    BY Zenon, <1>9 DEF vars, Running, Committers
  <2> QED
    BY Zenon, <1>9, <2>1, <2>2, QuietStep DEF LogInv, LogFits, vars, device, memory
<1> QED
  BY Zenon, <1>1, <1>2, <1>3, <1>4, <1>5, <1>6, <1>7, <1>8, <1>9 DEF Next

\* The inductive invariant holds of cache.c's log whatever the number of
\* threads, blocks and log blocks, and however often the power fails.
THEOREM LogInvariant == Spec => []LogInv
<1>1. Init => LogInv
  BY Zenon, LogInvInit
<1>2. LogInv /\ [Next]_vars => LogInv'
  BY Zenon, LogInvStep
<1> QED
  BY <1>1, <1>2, PTL DEF Spec

\* The types of BlockLog.
THEOREM TypeCorrect == Spec => []TypeOK
<1>1. LogInv => TypeOK
  BY Zenon DEF LogInv
<1> QED
  BY <1>1, LogInvariant, PTL

\* The reservations of begin_op are enough: cache_sync never writes behind
\* block_no[LOG_MAX_SIZE - 1] and a commit or a replay never touches a block
\* behind the log area.
THEOREM LogNeverOverflows == Spec => []LogFits
<1>1. LogInv => LogFits
  BY Zenon DEF LogInv
<1> QED
  BY <1>1, LogInvariant, PTL

\* outstanding and real_use are exact counts of the operations and of the
\* used and reserved log blocks.
THEOREM AccountingExact == Spec => []LogAccounting
<1>1. LogInv => LogAccounting
  BY Zenon DEF LogInv
<1> QED
  BY <1>1, LogInvariant, PTL

\* The commit of cache_end_op, which runs without log.lock, runs alone.
THEOREM CommitRunsAlone == Spec => []CommitExclusive
<1>1. LogInv => CommitExclusive
  BY Zenon DEF LogInv
<1> QED
  BY <1>1, LogInvariant, PTL

-----------------------------------------------------------------------------

\* Neither the search of cache_sync nor a boot puts a block in the log twice.
LEMMA NoDuplicatesStep ==
  ASSUME LogInv, NoDuplicateLogged, [Next]_vars
  PROVE  NoDuplicateLogged'
<1> USE DEF NoDuplicateLogged, NoDuplicates
<1>1. NoDuplicates(<<>>)
  OBVIOUS
<1>2. CASE UNCHANGED <<header, dheader>>
  BY Zenon, <1>2
<1>3. CASE header' \in {<<>>, dheader} /\ dheader' \in {<<>>, dheader}
  BY <1>1, <1>3
<1>4. ASSUME NEW t \in Threads, WriteHeader(t)
      PROVE  header' = header /\ dheader' = header
  BY Zenon, <1>4 DEF WriteHeader, memory
<1>5. ASSUME NEW t \in Threads, NEW b \in Blocks, NEW v \in Values, Write(t, b, v)
      PROVE  NoDuplicateLogged'
  <2>1. dheader' = dheader
    BY Zenon, <1>5 DEF Write, device
  <2>2. CASE header' = header
    BY Zenon, <2>1, <2>2
  <2>3. CASE header' = Append(header, b) /\ b \notin Logged(header)
    BY <2>1, <2>3 DEF Logged, LogInv, TypeOK
  <2> QED
    BY Zenon, <1>5, <2>2, <2>3 DEF Write, Absorbed
<1>6. CASE \E t \in Threads : BeginOp(t) \/ BeginWait(t) \/ EndOp(t)
  BY Zenon, <1>2, <1>6 DEF BeginOp, BeginWait, EndOp, EndOpCommit, EndOpLeave,
     EndOpSleep, device, memory
<1>7. CASE \E t \in Threads : Commit(t)
  <2>1. ASSUME NEW t \in Threads, WriteHeader(t)
        PROVE  NoDuplicateLogged'
    BY Zenon, <1>4, <2>1
  <2>2. ASSUME NEW t \in Threads, ClearHeader(t)
        PROVE  NoDuplicateLogged'
    BY Zenon, <1>3, <2>2 DEF ClearHeader
  <2>3. ASSUME NEW t \in Threads,
               \/ WriteLogBlock(t) \/ InstallBlock(t) \/ FinishCommit(t)
               \/ PostBegin(t) \/ PostEnd(t)
        PROVE  NoDuplicateLogged'
    BY Zenon, <1>2, <2>3 DEF WriteLogBlock, InstallBlock, FinishCommit, PostBegin,
       PostEnd, device, memory
  <2> QED
    BY Zenon, <1>7, <2>1, <2>2, <2>3 DEF Commit
<1>8. CASE \E t \in Threads, b \in Blocks, v \in Values : SyncPanic(t, b, v)
  BY Zenon, <1>2, <1>8 DEF SyncPanic, device
<1>9. CASE \E b \in Blocks : Load(b) \/ Evict(b)
  BY Zenon, <1>2, <1>9 DEF Load, Evict, device
<1>10. CASE Crash
  BY Zenon, <1>3, <1>10 DEF Crash, device
<1>11. CASE init_bcache
  <2>1. CASE Boot
    BY Zenon, <1>3, <2>1 DEF Boot, device
  <2>2. CASE ReplayBlock
    BY Zenon, <1>2, <2>2 DEF ReplayBlock
  <2>3. CASE ReplayDone
    BY Zenon, <1>3, <2>3 DEF ReplayDone
  <2> QED
    BY Zenon, <1>11, <2>1, <2>2, <2>3 DEF init_bcache
<1>12. CASE UNCHANGED vars
  BY Zenon, <1>2, <1>12 DEF vars, device, memory
<1> QED
  BY Zenon, <1>5, <1>6, <1>7, <1>8, <1>9, <1>10, <1>11, <1>12 DEF Next

\* Log absorption: every block is logged once, so the order in which a commit
\* or a replay installs the log does not matter.
THEOREM LoggedOnce == Spec => []NoDuplicateLogged
<1>1. Init => NoDuplicateLogged
  BY DEF Init, NoDuplicateLogged, NoDuplicates
<1>2. LogInv /\ NoDuplicateLogged /\ [Next]_vars => NoDuplicateLogged'
  BY Zenon, NoDuplicatesStep
<1> QED
  BY <1>1, <1>2, LogInvariant, PTL DEF Spec

\* A thread goes to sleep in begin_op only while somebody is left to wake it:
\* if no operation ran and none committed, the log would be empty and nothing
\* reserved, and begin_op would find room.
LEMMA WakerStep ==
  ASSUME LogInv, LogInv', BeginWaiterHasWaker, [Next]_vars
  PROVE  BeginWaiterHasWaker'
<1> USE DEF BeginWaiterHasWaker
<1>1. CASE \E t \in Threads : BeginOp(t)
  <2>1. PICK t \in Threads : BeginOp(t)
    BY Zenon, <1>1
  <2>2. outstanding \in Nat
    BY Zenon DEF LogInv, TypeOK
  <2>3. outstanding' = outstanding + 1
    BY Zenon, <2>1 DEF BeginOp
  <2>4. outstanding' > 0
    BY <2>2, <2>3
  <2> QED
    BY Zenon, <2>4
<1>2. CASE \E t \in Threads : BeginWait(t)
  <2>1. PICK t \in Threads : BeginWait(t)
    BY Zenon, <1>2
  <2>2. UNCHANGED <<outstanding, committing, mode, header, real_use>>
    BY Zenon, <2>1 DEF BeginWait, memory
  <2>3. committing \/ outstanding > 0
    <3>1. CASE LogFull /\ ~committing
      <4>1. real_use > 0 /\ mode = "up"
        <5>1. real_use \in Nat
          BY Zenon DEF LogInv, TypeOK
        <5>2. real_use > 0
          BY <3>1, <5>1, LogAssumption DEF LogFull
        <5> QED
          BY Zenon, <2>1, <5>2 DEF BeginWait
      <4>2. ASSUME outstanding = 0 PROVE FALSE
        <5>1. header = <<>> /\ Running = {}
          BY Zenon, <3>1, <4>1, <4>2, RunningFinite, FS_EmptySet DEF LogInv, LogAccounting
        <5>2. Credits = {}
          BY Zenon, <5>1, NoCredits DEF LogInv, TypeOK, Running, Credits
        <5>3. Len(header) = 0 /\ Cardinality(Credits) = 0
          BY Zenon, <5>1, <5>2, FS_EmptySet
        <5> QED
          <6>1. real_use = Len(header) + Cardinality(Credits)
            BY Zenon, <3>1, <4>1 DEF LogInv, LogAccounting
          <6> QED
            BY <4>1, <5>3, <6>1
      <4> QED
        BY <4>2 DEF LogInv, TypeOK
    <3> QED
      BY Zenon, <2>1, <3>1 DEF BeginWait, MayBegin
  <2> QED
    BY Zenon, <2>2, <2>3
<1>3. CASE \E t \in Threads : EndOp(t)
  <2>1. ASSUME NEW t \in Threads, EndOpCommit(t) PROVE BeginWaiterHasWaker'
    BY Zenon, <2>1 DEF EndOpCommit
  <2>2. ASSUME NEW t \in Threads, EndOpLeave(t) PROVE BeginWaiterHasWaker'
    BY Zenon, <2>2 DEF EndOpLeave, WakeBegin, LogInv, TypeOK
  <2>3. ASSUME NEW t \in Threads, EndOpSleep(t) PROVE BeginWaiterHasWaker'
    BY Zenon, <2>3 DEF EndOpSleep, LogInv, TypeOK, memory
  <2> QED
    BY Zenon, <1>3, <2>1, <2>2, <2>3 DEF EndOp
<1>4. CASE \E t \in Threads : Commit(t)
  <2>1. ASSUME NEW t \in Threads, PostBegin(t) PROVE BeginWaiterHasWaker'
    BY Zenon, <2>1 DEF PostBegin, WakeBegin, LogInv, TypeOK
  <2>2. ASSUME NEW t \in Threads, PostEnd(t) PROVE BeginWaiterHasWaker'
    BY Zenon, <2>2 DEF PostEnd, WakeEnd, LogInv, TypeOK, memory
  <2>3. ASSUME NEW t \in Threads, FinishCommit(t) PROVE BeginWaiterHasWaker'
    BY Zenon, <2>3 DEF FinishCommit, LogInv, TypeOK
  <2>4. ASSUME NEW t \in Threads,
               WriteLogBlock(t) \/ WriteHeader(t) \/ InstallBlock(t) \/ ClearHeader(t)
        PROVE  BeginWaiterHasWaker'
    <3>1. committing /\ committing' = committing
      BY Zenon, <2>4 DEF WriteLogBlock, WriteHeader, InstallBlock, ClearHeader, memory,
         LogInv, CommitExclusive, Committers, CommitPC
    <3> QED
      BY Zenon, <3>1
  <2> QED
    BY Zenon, <1>4, <2>1, <2>2, <2>3, <2>4 DEF Commit
<1>5. CASE \E t \in Threads, b \in Blocks, v \in Values : Write(t, b, v)
  BY <1>5 DEF Write
<1>6. CASE \E t \in Threads, b \in Blocks, v \in Values : SyncPanic(t, b, v)
  BY Zenon, <1>6 DEF SyncPanic
<1>7. CASE \E b \in Blocks : Load(b) \/ Evict(b)
  BY <1>7 DEF Load, Evict
<1>8. CASE Crash
  BY Zenon, <1>8 DEF Crash
<1>9. CASE init_bcache
  BY Zenon, <1>9 DEF init_bcache, Boot, ReplayBlock, ReplayDone, LogInv
<1>10. CASE UNCHANGED vars
  BY Zenon, <1>10 DEF vars, memory
<1> QED
  BY Zenon, <1>1, <1>2, <1>3, <1>4, <1>5, <1>6, <1>7, <1>8, <1>9, <1>10 DEF Next

\* begin_op never strands a thread: whoever sleeps on begin_sem is going to be
\* posted by an operation's end, by a commit, or by a committer in between.
THEOREM BeginWaitersHaveWaker == Spec => []BeginWaiterHasWaker
<1>1. Init => BeginWaiterHasWaker
  BY Zenon DEF Init, BeginWaiterHasWaker
<1>2. LogInv /\ LogInv' /\ BeginWaiterHasWaker /\ [Next]_vars
        => BeginWaiterHasWaker'
  BY Zenon, WakerStep
<1> QED
  BY <1>1, <1>2, LogInvariant, PTL DEF Spec

-----------------------------------------------------------------------------
(***************************************************************************)
(* What a replay computes.                                                 *)
(***************************************************************************)

\* The replay gives a logged block the content of one of its log blocks, and
\* leaves the others alone.
LEMMA ReplayedAt ==
  ASSUME NEW h \in Seq(Blocks), NEW l, NEW d, NEW b \in Blocks
  PROVE  /\ b \notin Logged(h) => Replayed(h, l, d)[b] = d[b]
         /\ b \in Logged(h) =>
              \E k \in 1 .. Len(h) : h[k] = b /\ Replayed(h, l, d)[b] = l[k]
<1>1. ASSUME b \in Logged(h)
      PROVE  \E k \in 1 .. Len(h) : h[k] = b /\ Replayed(h, l, d)[b] = l[k]
  <2> DEFINE j == CHOOSE k \in 1 .. Len(h) : h[k] = b
  <2>1. \E k \in 1 .. Len(h) : h[k] = b
    BY Zenon, <1>1 DEF Logged
  <2>2. j \in 1 .. Len(h) /\ h[j] = b
    BY Zenon, <2>1
  <2>3. Replayed(h, l, d)[b] = l[j]
    BY Zenon, <1>1 DEF Replayed
  <2> QED
    BY Zenon, <2>2, <2>3
<1> QED
  BY Zenon, <1>1 DEF Replayed

\* A content c that agrees with the log blocks of h, and elsewhere with the
\* home blocks, is what the replay produces.
LEMMA ReplayedIs ==
  ASSUME NEW h \in Seq(Blocks), NEW l, NEW d, NEW c \in [Blocks -> Values],
         \A k \in 1 .. Len(h) : l[k] = c[h[k]],
         \A b \in Blocks : b \notin Logged(h) => d[b] = c[b]
  PROVE  Replayed(h, l, d) = c
<1>1. ASSUME NEW b \in Blocks
      PROVE  Replayed(h, l, d)[b] = c[b]
  <2>1. /\ b \notin Logged(h) => Replayed(h, l, d)[b] = d[b]
        /\ b \in Logged(h) =>
             \E k \in 1 .. Len(h) : h[k] = b /\ Replayed(h, l, d)[b] = l[k]
    BY ReplayedAt, SMT
  <2> QED
    BY Zenon, <2>1
<1>2. Replayed(h, l, d) = [b \in Blocks |-> Replayed(h, l, d)[b]]
  BY DEF Replayed
<1>3. c = [b \in Blocks |-> c[b]]
  BY Zenon
<1> QED
  BY Zenon, <1>1, <1>2, <1>3

\* An empty header leaves the home blocks as they are.
LEMMA NothingToReplay ==
  ASSUME NEW l, NEW d \in [Blocks -> Values]
  PROVE  Replayed(<<>>, l, d) = d
BY DEF Replayed, Logged

\* Copying a log block home changes nothing that a replay would produce.
LEMMA InstallKeeps ==
  ASSUME NEW h \in Seq(Blocks), NEW l, NEW d \in [Blocks -> Values],
         NEW k \in 1 .. Len(h)
  PROVE  Replayed(h, l, [d EXCEPT ![h[k]] = l[k]]) = Replayed(h, l, d)
BY DEF Replayed, Logged

-----------------------------------------------------------------------------
(***************************************************************************)
(* DurableInv is preserved by every step.                                  *)
(***************************************************************************)

\* What the proofs below start from.
RefinementInv == LogInv /\ NoDuplicateLogged /\ DurableInv

\* A fresh image: nothing is cached, pinned or logged.
LEMMA DurableInit == Init => DurableInv
BY Zenon DEF Init, DurableInv, DirtyIsPinned, Content

\* A step that changes no content, nothing on the device and nothing about the
\* log, and moves no thread into or out of the two loops of a commit.
LEMMA DurableQuiet ==
  ASSUME DurableInv,
         UNCHANGED <<disk, dlog, dheader, pinned, header, next, mode>>,
         \A b \in Blocks : Content(b)' = Content(b),
         header \in Seq(Blocks),
         \A t \in Threads :
           \/ pc'[t] = pc[t]
           \/ pc'[t] \notin {"write_log", "install"}
              /\ pc[t] \notin {"write_log", "install"}
  PROVE  DurableInv'
<1>1. DirtyIsPinned'
  BY Zenon DEF DurableInv, DirtyIsPinned
<1>2. \A k \in 1 .. Len(header) : header[k] \in Blocks
  OBVIOUS
<1>3. /\ \A n : CopiedToLog(n) => CopiedToLog(n)'
      /\ \A n : CopiedHome(n) => CopiedHome(n)'
  BY Zenon, <1>2 DEF CopiedToLog, CopiedHome
<1> QED
  BY Zenon, <1>1, <1>3 DEF DurableInv

\* The steps that only count or wait: those of begin_op, end_op and the end of a commit.
LEMMA DurableControl ==
  ASSUME RefinementInv, NEW t \in Threads,
         \/ BeginOp(t) \/ BeginWait(t) \/ EndOpLeave(t) \/ EndOpSleep(t)
         \/ FinishCommit(t) \/ PostBegin(t) \/ PostEnd(t)
  PROVE  DurableInv'
<1>1. UNCHANGED <<disk, dlog, dheader, cached, pinned, header, next, mode>>
  BY Zenon DEF BeginOp, BeginWait, EndOpLeave, EndOpSleep, FinishCommit, PostBegin,
     PostEnd, device, memory
<1>2. pc \in [Threads -> PCs]
  BY Zenon DEF RefinementInv, LogInv, TypeOK
<1>3. \A u \in Threads :
        \/ pc'[u] = pc[u]
        \/ pc'[u] \notin {"write_log", "install"}
           /\ pc[u] \notin {"write_log", "install"}
  BY Zenon, <1>2 DEF BeginOp, BeginWait, EndOpLeave, EndOpSleep, FinishCommit,
     PostBegin, PostEnd, WakeBegin, WakeEnd
<1> QED
  BY Zenon, <1>1, <1>3, DurableQuiet DEF RefinementInv, LogInv, TypeOK, Content

\* A miss of cache_acquire, and the eviction of a block that is not pinned,
\* show the same content afterwards.
LEMMA TrafficContent ==
  ASSUME RefinementInv, NEW c \in Blocks, Load(c) \/ Evict(c)
  PROVE  \A b \in Blocks : Content(b)' = Content(b)
<1>1. cached \in [Blocks -> Values \cup {NotCached}] /\ disk \in [Blocks -> Values]
  BY Zenon DEF RefinementInv, LogInv, TypeOK
<1>2. CASE Load(c)
  BY Zenon, <1>1, <1>2, LogAssumption DEF Load, Content, device
<1>3. CASE Evict(c)
  <2>1. Content(c) = disk[c]
    BY Zenon, <1>3 DEF Evict, RefinementInv, DurableInv, DirtyIsPinned
  <2> QED
    BY Zenon, <1>1, <1>3, <2>1 DEF Evict, Content, device
<1> QED
  BY Zenon, <1>2, <1>3

\* Hence neither disturbs the invariant.
LEMMA DurableTraffic ==
  ASSUME RefinementInv, NEW c \in Blocks, Load(c) \/ Evict(c)
  PROVE  DurableInv'
<1>1. UNCHANGED <<disk, dlog, dheader, pinned, header, next, mode, pc>>
  BY Zenon DEF Load, Evict, device
<1> QED
  BY Zenon, <1>1, TrafficContent, DurableQuiet DEF RefinementInv, LogInv, TypeOK

\* While an operation runs nobody is in a commit, and a thread in one of the
\* loops of a commit is alone there.
LEMMA CommitAlone ==
  ASSUME RefinementInv, NEW t \in Threads, NEW u \in Threads
  PROVE  /\ pc[t] = "op" => pc[u] \notin CommitPC
         /\ pc[t] \in CommitPC /\ pc[u] \in CommitPC => t = u
BY Zenon DEF RefinementInv, LogInv, CommitExclusive, Committers, Running

\* cache_sync: the block it changes is pinned and in the log afterwards.
LEMMA DurableWrite ==
  ASSUME RefinementInv, NEW t \in Threads, NEW c \in Blocks, NEW v \in Values,
         Write(t, c, v)
  PROVE  DurableInv'
<1>1. /\ mode = "up" /\ mode' = "up" /\ pc' = pc /\ disk' = disk
      /\ dheader' = dheader /\ pc[t] = "op"
      /\ cached' = [cached EXCEPT ![c] = v]
      /\ pinned' = [pinned EXCEPT ![c] = TRUE]
  BY Zenon DEF Write, Pin, device
<1>2. \A u \in Threads : pc[u] \notin CommitPC
  BY Zenon, <1>1, CommitAlone
<1>3. Logged(header) \cup {c} \subseteq Logged(header')
  <2>1. header \in Seq(Blocks)
    BY Zenon DEF RefinementInv, LogInv, TypeOK
  <2>2. CASE header' = header /\ Absorbed(c)
    BY Zenon, <2>2 DEF Absorbed
  <2>3. CASE header' = Append(header, c)
    <3>1. /\ Len(header') = Len(header) + 1 /\ header'[Len(header) + 1] = c
          /\ \A k \in 1 .. Len(header) : header'[k] = header[k]
      BY <2>1, <2>3
    <3> QED
      BY <2>1, <3>1 DEF Logged
  <2> QED
    BY Zenon, <2>2, <2>3 DEF Write
<1>4. DirtyIsPinned'
  <2> SUFFICES ASSUME NEW b \in Blocks
               PROVE  /\ Content(b)' # disk'[b] => pinned'[b]
                      /\ pinned'[b] => b \in Logged(header')
    BY Zenon DEF DirtyIsPinned
  <2>1. cached \in [Blocks -> Values \cup {NotCached}] /\ pinned \in [Blocks -> BOOLEAN]
    BY Zenon DEF RefinementInv, LogInv, TypeOK
  <2>2. CASE b = c
    BY Zenon, <1>1, <1>3, <2>1, <2>2
  <2>3. CASE b # c
    <3>1. Content(b)' = Content(b) /\ pinned'[b] = pinned[b]
      BY Zenon, <1>1, <2>1, <2>3 DEF Content
    <3> QED
      BY Zenon, <1>1, <1>3, <3>1 DEF RefinementInv, DurableInv, DirtyIsPinned
  <2> QED
    BY Zenon, <2>2, <2>3
<1> QED
  BY Zenon, <1>1, <1>2, <1>4 DEF RefinementInv, DurableInv, CommitPC

\* The last end_op starts a commit with its loop index at the first block.
LEMMA DurableEndOpCommit ==
  ASSUME RefinementInv, NEW t \in Threads, EndOpCommit(t)
  PROVE  DurableInv'
<1>1. /\ UNCHANGED <<disk, dlog, dheader, cached, pinned, header, mode>>
      /\ mode = "up" /\ pc[t] = "op" /\ next' = 1
      /\ pc' = [pc EXCEPT ![t] = "write_log"]
  BY Zenon DEF EndOpCommit, device
<1>2. \A u \in Threads : pc[u] \notin CommitPC
  BY Zenon, <1>1, CommitAlone
<1>3. pc \in [Threads -> PCs] /\ header \in Seq(Blocks)
  BY Zenon DEF RefinementInv, LogInv, TypeOK
<1>4. \A u \in Threads : pc'[u] # "install" /\ pc[u] # "install"
  BY Zenon, <1>1, <1>2, <1>3 DEF CommitPC
<1>5. CopiedToLog(next)'
  BY <1>1, <1>3 DEF CopiedToLog
<1>6. DirtyIsPinned'
  BY Zenon, <1>1 DEF RefinementInv, DurableInv, DirtyIsPinned, Content
<1> QED
  BY Zenon, <1>1, <1>4, <1>5, <1>6 DEF RefinementInv, DurableInv

\* The first loop of a commit copies one block more.
LEMMA DurableWriteLogBlock ==
  ASSUME RefinementInv, NEW t \in Threads, WriteLogBlock(t)
  PROVE  DurableInv'
<1>1. /\ UNCHANGED <<disk, dheader, cached, pinned, header, mode, pc>>
      /\ mode = "up" /\ pc[t] = "write_log" /\ next' = next + 1
      /\ dlog' = [dlog EXCEPT ![next] = Content(header[next])]
  BY Zenon DEF WriteLogBlock, memory
<1>2. /\ header \in Seq(Blocks) /\ next \in Nat \ {0} /\ dlog \in [LogSlots -> Values]
      /\ next <= Len(header) /\ Len(header) <= NumLogBlocks - 1
  BY DEF RefinementInv, LogInv, TypeOK, LogFits, FitsLog, WriteLogBlock, LoopDone
<1>3. \A u \in Threads : pc[u] # "install"
  BY Zenon, <1>1, CommitAlone DEF CommitPC
<1>4. CopiedToLog(next)'
  <2> SUFFICES ASSUME NEW k \in 1 .. Len(header), k < next + 1
               PROVE  dlog'[k] = Content(header[k])'
    BY Zenon, <1>1 DEF CopiedToLog
  <2>1. Content(header[k])' = Content(header[k])
    BY Zenon, <1>1 DEF Content
  <2>2. k \in LogSlots
    BY <1>2, LogAssumption DEF LogSlots
  <2>3. CASE k = next
    BY Zenon, <1>1, <1>2, <2>1, <2>2, <2>3
  <2>4. CASE k < next
    <3>1. dlog[k] = Content(header[k])
      BY Zenon, <1>1, <2>4 DEF RefinementInv, DurableInv, CopiedToLog
    <3> QED
      BY Zenon, <1>1, <1>2, <2>1, <2>2, <2>4, <3>1
  <2> QED
    BY <1>2, <2>3, <2>4
<1>5. DirtyIsPinned'
  BY Zenon, <1>1 DEF RefinementInv, DurableInv, DirtyIsPinned, Content
<1> QED
  BY Zenon, <1>1, <1>3, <1>4, <1>5 DEF RefinementInv, DurableInv

\* write_header: every logged block is in the log on the device by now.
LEMMA DurableWriteHeader ==
  ASSUME RefinementInv, NEW t \in Threads, WriteHeader(t)
  PROVE  DurableInv'
<1>1. /\ UNCHANGED <<disk, dlog, cached, pinned, header, mode>>
      /\ mode = "up" /\ pc[t] = "write_log" /\ next' = 1 /\ dheader' = header
      /\ pc' = [pc EXCEPT ![t] = "install"]
      /\ next > Len(header)
  BY Zenon DEF WriteHeader, memory, LoopDone
<1>2. /\ header \in Seq(Blocks) /\ next \in Nat /\ pc \in [Threads -> PCs]
  BY Zenon DEF RefinementInv, LogInv, TypeOK
<1>3. \A u \in Threads : u # t => pc'[u] \notin CommitPC
  BY Zenon, <1>1, <1>2, CommitAlone DEF CommitPC
<1>4. \A k \in 1 .. Len(header) : dlog[k] = Content(header[k])
  BY <1>1, <1>2 DEF RefinementInv, DurableInv, CopiedToLog
<1>5. CopiedToLog(Len(header) + 1)'
  BY Zenon, <1>1, <1>4 DEF CopiedToLog, Content
<1>6. CopiedHome(next)'
  BY <1>1, <1>2 DEF CopiedHome
<1>7. DirtyIsPinned'
  BY Zenon, <1>1 DEF RefinementInv, DurableInv, DirtyIsPinned, Content
<1>8. pc'[t] = "install"
  BY Zenon, <1>1, <1>2
<1> QED
  BY Zenon, <1>1, <1>3, <1>5, <1>6, <1>7, <1>8 DEF DurableInv, CommitPC

\* The second loop of a commit copies one block more home and unpins it; no
\* other entry of the header names that block.
LEMMA DurableInstallBlock ==
  ASSUME RefinementInv, NEW t \in Threads, InstallBlock(t)
  PROVE  DurableInv' /\ \A b \in Blocks : Content(b)' = Content(b)
<1>1. /\ header \in Seq(Blocks) /\ next \in 1 .. Len(header)
      /\ Len(header) <= NumLogBlocks - 1
      /\ dlog \in [LogSlots -> Values] /\ disk \in [Blocks -> Values]
      /\ cached \in [Blocks -> Values \cup {NotCached}]
      /\ pinned \in [Blocks -> BOOLEAN]
  BY DEF RefinementInv, LogInv, TypeOK, LogFits, FitsLog, InstallBlock, LoopDone
<1>2. PICK c \in Blocks : c = header[next]
  BY <1>1
<1>3. /\ UNCHANGED <<dlog, dheader, header, mode, pc>>
      /\ mode = "up" /\ pc[t] = "install" /\ next' = next + 1
      /\ disk' = [disk EXCEPT ![c] = dlog[next]]
      /\ cached' = [cached EXCEPT ![c] = dlog[next]]
      /\ pinned' = [pinned EXCEPT ![c] = FALSE]
  BY Zenon, <1>2 DEF InstallBlock
<1>4. dlog[next] \in Values /\ dlog[next] # NotCached
  BY <1>1, LogAssumption DEF LogSlots
<1>5. \A u \in Threads : pc[u] # "write_log"
  BY Zenon, <1>3, CommitAlone DEF CommitPC
<1>6. /\ dheader = header /\ CopiedToLog(Len(header) + 1) /\ CopiedHome(next)
  BY Zenon, <1>3 DEF RefinementInv, DurableInv
<1>7. \A k \in 1 .. Len(header) : dlog[k] = Content(header[k])
  BY <1>1, <1>6 DEF CopiedToLog
<1>8. Content(c)' = dlog[next] /\ disk'[c] = dlog[next] /\ ~pinned'[c]
  BY Zenon, <1>1, <1>3, <1>4 DEF Content
<1>9. \A b \in Blocks : b # c =>
        /\ Content(b)' = Content(b) /\ disk'[b] = disk[b] /\ pinned'[b] = pinned[b]
  BY Zenon, <1>1, <1>3, <1>4 DEF Content
<1>10. \A b \in Blocks : Content(b)' = Content(b)
  BY Zenon, <1>1, <1>2, <1>7, <1>8, <1>9
<1>11. DirtyIsPinned'
  BY Zenon, <1>3, <1>8, <1>9 DEF RefinementInv, DurableInv, DirtyIsPinned
<1>12. CopiedToLog(Len(header) + 1)'
  BY <1>1, <1>3, <1>7, <1>10 DEF CopiedToLog
<1>13. CopiedHome(next)'
  <2> SUFFICES ASSUME NEW k \in 1 .. Len(header), k < next + 1
               PROVE  disk'[header[k]] = dlog[k] /\ ~pinned'[header[k]]
    BY Zenon, <1>3 DEF CopiedHome
  <2>1. CASE k = next
    BY Zenon, <1>2, <1>8, <2>1
  <2>2. CASE k < next
    <3>1. header[k] \in Blocks /\ header[k] # c
      BY <1>1, <1>2, <2>2 DEF RefinementInv, NoDuplicateLogged, NoDuplicates
    <3>2. disk[header[k]] = dlog[k] /\ ~pinned[header[k]]
      BY Zenon, <1>6, <2>2 DEF CopiedHome
    <3> QED
      BY Zenon, <1>9, <3>1, <3>2
  <2> QED
    BY <1>1, <2>1, <2>2
<1> QED
  BY Zenon, <1>3, <1>5, <1>6, <1>10, <1>11, <1>12, <1>13 DEF DurableInv

\* Emptying the log after the second loop: everything is home and unpinned.
LEMMA DurableClearHeader ==
  ASSUME RefinementInv, NEW t \in Threads, ClearHeader(t)
  PROVE  DurableInv' /\ \A k \in 1 .. Len(dheader) : disk[dheader[k]] = dlog[k]
<1>1. /\ UNCHANGED <<disk, dlog, cached, pinned, mode>>
      /\ mode = "up" /\ pc[t] = "install" /\ next > Len(header)
      /\ header' = <<>> /\ dheader' = <<>>
      /\ pc' = [pc EXCEPT ![t] = "finish"]
  BY Zenon DEF ClearHeader, LoopDone
<1>2. header \in Seq(Blocks) /\ next \in Nat /\ pc \in [Threads -> PCs]
  BY Zenon DEF RefinementInv, LogInv, TypeOK
<1>3. \A u \in Threads : pc'[u] \notin {"write_log", "install"}
  BY Zenon, <1>1, <1>2, CommitAlone DEF CommitPC
<1>4. dheader = header /\ CopiedHome(next)
  BY Zenon, <1>1 DEF RefinementInv, DurableInv
<1>5. \A k \in 1 .. Len(header) : disk[header[k]] = dlog[k] /\ ~pinned[header[k]]
  BY <1>1, <1>2, <1>4 DEF CopiedHome
<1>6. \A b \in Blocks : ~pinned[b]
  BY <1>1, <1>5 DEF RefinementInv, DurableInv, DirtyIsPinned, Logged
<1>7. DirtyIsPinned'
  BY Zenon, <1>1, <1>6 DEF RefinementInv, DurableInv, DirtyIsPinned, Content
<1> QED
  BY Zenon, <1>1, <1>3, <1>4, <1>5, <1>7 DEF DurableInv

\* A power failure loses the memory, hence every pin and every copy.
LEMMA DurableCrash ==
  ASSUME RefinementInv, Crash
  PROVE  DurableInv'
BY Zenon DEF Crash, DurableInv, DirtyIsPinned, Content

\* read_header: the replay starts from the header on the device.
LEMMA DurableBoot ==
  ASSUME RefinementInv, Boot
  PROVE  DurableInv'
<1>1. /\ UNCHANGED <<disk, dlog, dheader, cached, pinned>>
      /\ mode = "down" /\ mode' = "replay" /\ next' = 1 /\ header' = dheader
  BY Zenon DEF Boot, device
<1>2. dheader \in Seq(Blocks)
  BY Zenon DEF RefinementInv, LogInv, TypeOK
<1>3. CopiedHome(next)'
  BY <1>1, <1>2 DEF CopiedHome
<1> QED
  BY Zenon, <1>1, <1>3 DEF RefinementInv, DurableInv, DirtyIsPinned, Content

\* The replay copies one block more home.
LEMMA DurableReplayBlock ==
  ASSUME RefinementInv, ReplayBlock
  PROVE  DurableInv'
<1>1. /\ header \in Seq(Blocks) /\ next \in 1 .. Len(header)
      /\ Len(header) <= NumLogBlocks - 1
      /\ dlog \in [LogSlots -> Values] /\ disk \in [Blocks -> Values]
      /\ cached \in [Blocks -> Values \cup {NotCached}]
  BY DEF RefinementInv, LogInv, TypeOK, LogFits, FitsLog, ReplayBlock, LoopDone
<1>2. PICK c \in Blocks : c = header[next]
  BY <1>1
<1>3. /\ UNCHANGED <<dlog, dheader, header, mode, pinned>>
      /\ mode = "replay" /\ next' = next + 1
      /\ disk' = [disk EXCEPT ![c] = dlog[next]]
      /\ cached' = [cached EXCEPT ![c] = dlog[next]]
  BY Zenon, <1>2 DEF ReplayBlock
<1>4. dlog[next] \in Values /\ dlog[next] # NotCached
  BY <1>1, LogAssumption DEF LogSlots
<1>5. /\ header = dheader /\ CopiedHome(next)
      /\ \A b \in Blocks : ~pinned[b] /\ Content(b) = disk[b]
  BY Zenon, <1>3 DEF RefinementInv, DurableInv
<1>6. disk'[c] = dlog[next] /\ \A b \in Blocks : b # c => disk'[b] = disk[b]
  BY Zenon, <1>1, <1>3
<1>7. \A b \in Blocks : Content(b)' = disk'[b]
  BY Zenon, <1>1, <1>3, <1>4, <1>5, <1>6 DEF Content
<1>8. CopiedHome(next)'
  <2> SUFFICES ASSUME NEW k \in 1 .. Len(header), k < next + 1
               PROVE  disk'[header[k]] = dlog[k] /\ ~pinned[header[k]]
    BY Zenon, <1>3 DEF CopiedHome
  <2>1. header[k] \in Blocks
    BY <1>1
  <2>2. CASE k = next
    BY Zenon, <1>2, <1>5, <1>6, <2>2
  <2>3. CASE k < next
    <3>1. header[k] # c
      BY <1>1, <1>2, <2>3 DEF RefinementInv, NoDuplicateLogged, NoDuplicates
    <3>2. disk[header[k]] = dlog[k] /\ ~pinned[header[k]]
      BY Zenon, <1>5, <2>3 DEF CopiedHome
    <3> QED
      BY Zenon, <1>6, <2>1, <3>1, <3>2
  <2> QED
    BY <1>1, <2>2, <2>3
<1> QED
  BY Zenon, <1>3, <1>5, <1>7, <1>8 DEF DurableInv, DirtyIsPinned

\* The end of the replay: every logged block is home.
LEMMA DurableReplayDone ==
  ASSUME RefinementInv, ReplayDone
  PROVE  /\ DurableInv'
         /\ \A k \in 1 .. Len(dheader) : disk[dheader[k]] = dlog[k]
         /\ \A b \in Blocks : Content(b)' = disk[b]
<1>1. /\ UNCHANGED <<disk, dlog, cached, pinned, pc>>
      /\ mode = "replay" /\ mode' = "up" /\ next > Len(header)
      /\ header' = <<>> /\ dheader' = <<>>
  BY Zenon DEF ReplayDone, LoopDone
<1>2. header \in Seq(Blocks) /\ next \in Nat
  BY Zenon DEF RefinementInv, LogInv, TypeOK
<1>3. \A t \in Threads : pc[t] = "idle"
  BY Zenon, <1>1 DEF RefinementInv, LogInv
<1>4. /\ header = dheader /\ CopiedHome(next)
      /\ \A b \in Blocks : ~pinned[b] /\ Content(b) = disk[b]
  BY Zenon, <1>1 DEF RefinementInv, DurableInv
<1>5. \A k \in 1 .. Len(dheader) : disk[dheader[k]] = dlog[k]
  BY <1>1, <1>2, <1>4 DEF CopiedHome
<1>6. \A b \in Blocks : Content(b)' = disk[b]
  BY Zenon, <1>1, <1>4 DEF Content
<1> QED
  BY Zenon, <1>1, <1>3, <1>4, <1>5, <1>6 DEF DurableInv, DirtyIsPinned

\* No step of the block cache breaks the invariant.
LEMMA DurableStep ==
  ASSUME RefinementInv, [Next]_vars
  PROVE  DurableInv'
<1>1. CASE \E t \in Threads : BeginOp(t) \/ BeginWait(t)
  BY Zenon, <1>1, DurableControl
<1>2. CASE \E t \in Threads : EndOp(t)
  BY Zenon, <1>2, DurableControl, DurableEndOpCommit DEF EndOp
<1>3. CASE \E t \in Threads : Commit(t)
  BY Zenon, <1>3, DurableControl, DurableWriteLogBlock, DurableWriteHeader,
     DurableInstallBlock, DurableClearHeader DEF Commit
<1>4. CASE \E t \in Threads, b \in Blocks, v \in Values : Write(t, b, v)
  BY Zenon, <1>4, DurableWrite
<1>5. CASE \E t \in Threads, b \in Blocks, v \in Values : SyncPanic(t, b, v)
  BY Zenon, <1>5 DEF SyncPanic, DurableInv, DirtyIsPinned
<1>6. CASE \E b \in Blocks : Load(b) \/ Evict(b)
  BY Zenon, <1>6, DurableTraffic
<1>7. CASE Crash
  BY Zenon, <1>7, DurableCrash
<1>8. CASE init_bcache
  BY Zenon, <1>8, DurableBoot, DurableReplayBlock, DurableReplayDone DEF init_bcache
<1>9. CASE UNCHANGED vars
  BY Zenon, <1>9, DurableQuiet
  DEF vars, device, memory, Content, RefinementInv, LogInv, TypeOK
<1> QED
  BY Zenon, <1>1, <1>2, <1>3, <1>4, <1>5, <1>6, <1>7, <1>8, <1>9 DEF Next

\* At every step of cache_end_op and init_bcache, the device and the memory are
\* as far as the loop indices say, and nothing that exists only in memory may
\* be evicted.
THEOREM CommitProgress == Spec => []DurableInv
<1>1. Init => DurableInv
  BY Zenon, DurableInit
<1>2. LogInv /\ NoDuplicateLogged /\ DurableInv /\ [Next]_vars => DurableInv'
  BY Zenon, DurableStep DEF RefinementInv
<1> QED
  BY <1>1, <1>2, LogInvariant, LoggedOnce, PTL DEF Spec

-----------------------------------------------------------------------------
(***************************************************************************)
(* Every step of BlockLog is a step of AtomicDisk or changes nothing there. *)
(***************************************************************************)

\* A fresh image is what its replay produces.
LEMMA AbstractInit == Init => Abstract!Init
<1> SUFFICES ASSUME Init PROVE Abstract!Init
  BY Zenon
<1>1. Recovered = disk
  BY Zenon, NothingToReplay DEF Init, Recovered
<1> QED
  BY Zenon, <1>1 DEF Init, Abstract!Init, Current, Open

\* Steps that leave the device alone, change no content and move no thread into
\* or out of an operation are invisible.
LEMMA AbstractStutter ==
  ASSUME UNCHANGED <<disk, dlog, dheader, mode>>,
         \A b \in Blocks : Content(b)' = Content(b)
  PROVE  /\ Recovered' = Recovered /\ Seen' = Seen /\ Current' = Current
         /\ Running' = Running => UNCHANGED Abstract!vars
<1>1. Recovered' = Recovered
  BY Zenon DEF Recovered
<1>2. Seen' = Seen
  BY Zenon DEF Seen
<1> QED
  BY Zenon, <1>1, <1>2 DEF Current, Open, Abstract!vars

\* The operations begin and end when their threads do.
LEMMA AbstractOperations ==
  ASSUME RefinementInv, NEW t \in Threads, BeginOp(t) \/ BeginWait(t) \/ EndOp(t)
  PROVE  Abstract!Next \/ UNCHANGED Abstract!vars
<1>1. /\ UNCHANGED <<disk, dlog, dheader, cached, mode>> /\ mode = "up"
  BY Zenon DEF BeginOp, BeginWait, EndOp, EndOpCommit, EndOpLeave, EndOpSleep, device, memory
<1>2. \A b \in Blocks : Content(b)' = Content(b)
  BY Zenon, <1>1 DEF Content
<1>3. Current' = Current /\ Recovered' = Recovered
  BY Zenon, <1>1, <1>2, AbstractStutter
<1>4. pc \in [Threads -> PCs]
  BY Zenon DEF RefinementInv, LogInv, TypeOK
<1>5. CASE BeginOp(t)
  <2>1. Running' = Running \cup {t} /\ t \notin Running
    BY Zenon, <1>4, <1>5 DEF BeginOp, Running
  <2>2. Abstract!Begin(t)
    BY Zenon, <1>1, <1>3, <2>1 DEF Abstract!Begin, Open
  <2> QED
    BY Zenon, <2>2 DEF Abstract!Next
<1>6. CASE EndOpCommit(t) \/ EndOpLeave(t)
  <2>1. Running' = Running \ {t} /\ t \in Running
    BY Zenon, <1>4, <1>6 DEF EndOpCommit, EndOpLeave, WakeBegin, Running
  <2>2. Abstract!End(t)
    BY Zenon, <1>1, <1>3, <2>1 DEF Abstract!End, Open
  <2> QED
    BY Zenon, <2>2 DEF Abstract!Next
<1>7. CASE BeginWait(t) \/ EndOpSleep(t)
  <2>1. Running' = Running
    BY Zenon, <1>4, <1>7 DEF BeginWait, EndOpSleep, Running
  <2> QED
    BY Zenon, <1>1, <1>2, <2>1, AbstractStutter
<1> QED
  BY Zenon, <1>5, <1>6, <1>7 DEF EndOp

\* cache_sync is a modification by a running operation.
LEMMA AbstractWrite ==
  ASSUME RefinementInv, NEW t \in Threads, NEW c \in Blocks, NEW v \in Values,
         Write(t, c, v)
  PROVE  Abstract!Next
<1>1. /\ UNCHANGED <<disk, dlog, dheader, pc, mode>> /\ mode = "up" /\ pc[t] = "op"
      /\ cached' = [cached EXCEPT ![c] = v]
  BY Zenon DEF Write, device
<1>2. cached \in [Blocks -> Values \cup {NotCached}] /\ v # NotCached
  BY Zenon, LogAssumption DEF RefinementInv, LogInv, TypeOK
<1>3. Seen' = [Seen EXCEPT ![c] = v]
  BY Zenon, <1>1, <1>2 DEF Seen, Content
<1>4. Recovered' = Recovered /\ Running' = Running /\ t \in Running
  BY Zenon, <1>1 DEF Recovered, Running
<1>5. Abstract!Modify(t, c, v)
  BY Zenon, <1>1, <1>3, <1>4 DEF Abstract!Modify, Current, Open
<1> QED
  BY Zenon, <1>5 DEF Abstract!Next

\* The writes to the log blocks change nothing: the header on the device, which
\* is empty, does not name them yet.
LEMMA AbstractWriteLogBlock ==
  ASSUME RefinementInv, NEW t \in Threads, WriteLogBlock(t)
  PROVE  UNCHANGED Abstract!vars
<1>1. /\ UNCHANGED <<disk, dheader, cached, pc, mode>>
      /\ mode = "up" /\ pc[t] = "write_log"
  BY Zenon DEF WriteLogBlock, memory
<1>2. \A u \in Threads : pc[u] # "install"
  BY Zenon, <1>1, CommitAlone DEF CommitPC
<1>3. dheader = <<>> /\ disk \in [Blocks -> Values]
  BY Zenon, <1>1, <1>2 DEF RefinementInv, DurableInv, LogInv, TypeOK
<1>4. Recovered = disk /\ Recovered' = disk
  BY Zenon, <1>1, <1>3, NothingToReplay DEF Recovered
<1> QED
  BY Zenon, <1>1, <1>4 DEF Abstract!vars, Current, Open, Seen, Content, Running

\* write_header is the checkpoint: from here on a replay produces exactly what
\* the file system sees, and no operation is running.
LEMMA AbstractWriteHeader ==
  ASSUME RefinementInv, NEW t \in Threads, WriteHeader(t)
  PROVE  Abstract!Next
<1>1. /\ UNCHANGED <<disk, dlog, cached, mode>> /\ dheader' = header
      /\ mode = "up" /\ pc[t] = "write_log" /\ next > Len(header)
      /\ pc' = [pc EXCEPT ![t] = "install"]
  BY Zenon DEF WriteHeader, memory, LoopDone
<1>2. /\ header \in Seq(Blocks) /\ next \in Nat /\ pc \in [Threads -> PCs]
      /\ disk \in [Blocks -> Values] /\ cached \in [Blocks -> Values \cup {NotCached}]
  BY Zenon DEF RefinementInv, LogInv, TypeOK
<1>3. Running = {} /\ Running' = {}
  BY Zenon, <1>1, <1>2, CommitAlone DEF Running, CommitPC
<1>4. Seen \in [Blocks -> Values]
  BY Zenon, <1>2 DEF Seen, Content
<1>5. \A k \in 1 .. Len(header) : dlog[k] = Content(header[k])
  BY <1>1, <1>2 DEF RefinementInv, DurableInv, CopiedToLog
<1>6. \A k \in 1 .. Len(header) : dlog[k] = Seen[header[k]]
  BY <1>2, <1>5 DEF Seen
<1>7. \A b \in Blocks : b \notin Logged(header) => disk[b] = Seen[b]
  BY Zenon, <1>1 DEF RefinementInv, DurableInv, DirtyIsPinned, Seen
<1>8. Replayed(header, dlog, disk) = Seen
  BY <1>2, <1>4, <1>6, <1>7, ReplayedIs
<1>9. Recovered' = Seen
  BY Zenon, <1>1, <1>8 DEF Recovered
<1>10. Seen' = Seen
  BY Zenon, <1>1 DEF Seen, Content
<1>11. Abstract!Checkpoint
  BY Zenon, <1>1, <1>3, <1>9, <1>10 DEF Abstract!Checkpoint, Current, Open
<1> QED
  BY Zenon, <1>11 DEF Abstract!Next

\* Copying a log block home changes neither what is seen nor what a replay of
\* the same log produces.
LEMMA AbstractInstallBlock ==
  ASSUME RefinementInv, NEW t \in Threads, InstallBlock(t)
  PROVE  UNCHANGED Abstract!vars
<1>1. /\ UNCHANGED <<dlog, dheader, header, mode, pc>>
      /\ mode = "up" /\ pc[t] = "install"
      /\ disk' = [disk EXCEPT ![header[next]] = dlog[next]]
  BY Zenon DEF InstallBlock
<1>2. /\ header \in Seq(Blocks) /\ next \in 1 .. Len(header)
      /\ disk \in [Blocks -> Values]
  BY DEF RefinementInv, LogInv, TypeOK, InstallBlock, LoopDone
<1>3. dheader = header
  BY Zenon, <1>1 DEF RefinementInv, DurableInv
<1>4. Recovered' = Recovered
  <2>1. Replayed(header, dlog, [disk EXCEPT ![header[next]] = dlog[next]])
          = Replayed(header, dlog, disk)
    BY <1>2, InstallKeeps
  <2> QED
    BY Zenon, <1>1, <1>3, <2>1 DEF Recovered
<1>5. Seen' = Seen
  BY Zenon, DurableInstallBlock DEF Seen
<1> QED
  BY Zenon, <1>1, <1>4, <1>5 DEF Abstract!vars, Current, Open, Running

\* When every logged block is home, the log may go.
LEMMA EmptyLogKeeps ==
  ASSUME RefinementInv,
         dheader' = <<>>, UNCHANGED <<disk, dlog>>,
         \A k \in 1 .. Len(dheader) : disk[dheader[k]] = dlog[k]
  PROVE  Recovered = disk /\ Recovered' = disk
<1>1. dheader \in Seq(Blocks) /\ disk \in [Blocks -> Values]
  BY Zenon DEF RefinementInv, LogInv, TypeOK
<1>2. Replayed(dheader, dlog, disk) = disk
  BY <1>1, ReplayedIs
<1>3. Replayed(<<>>, dlog, disk) = disk
  BY Zenon, <1>1, NothingToReplay
<1> QED
  BY Zenon, <1>2, <1>3 DEF Recovered

\* The rest of a commit is invisible.
LEMMA AbstractFinish ==
  ASSUME RefinementInv, NEW t \in Threads,
         ClearHeader(t) \/ FinishCommit(t) \/ PostBegin(t) \/ PostEnd(t)
  PROVE  UNCHANGED Abstract!vars
<1>1. UNCHANGED <<disk, dlog, cached, mode>> /\ mode = "up"
  BY Zenon DEF ClearHeader, FinishCommit, PostBegin, PostEnd, device, memory
<1>2. pc \in [Threads -> PCs]
  BY Zenon DEF RefinementInv, LogInv, TypeOK
<1>3. Running' = Running
  BY Zenon, <1>2 DEF ClearHeader, FinishCommit, PostBegin, PostEnd, WakeBegin, WakeEnd, Running
<1>4. Seen' = Seen
  BY Zenon, <1>1 DEF Seen, Content
<1>5. Recovered' = Recovered
  <2>1. CASE ClearHeader(t)
    <3>1. dheader' = <<>> /\ \A k \in 1 .. Len(dheader) : disk[dheader[k]] = dlog[k]
      BY Zenon, <2>1, DurableClearHeader DEF ClearHeader
    <3> QED
      BY Zenon, <1>1, <3>1, EmptyLogKeeps
  <2>2. CASE FinishCommit(t) \/ PostBegin(t) \/ PostEnd(t)
    BY Zenon, <2>2 DEF FinishCommit, PostBegin, PostEnd, device, Recovered
  <2> QED
    BY Zenon, <2>1, <2>2
<1> QED
  BY Zenon, <1>1, <1>3, <1>4, <1>5 DEF Abstract!vars, Current, Open

\* Losing the memory, and a PANIC of cache_sync, are power failures, or nothing
\* if the machine was not up.
LEMMA AbstractPowerFailure ==
  ASSUME mode' \in {"down", "panic"}, UNCHANGED <<disk, dlog, dheader>>
  PROVE  Abstract!Next
<1>1. Recovered' = Recovered
  BY Zenon DEF Recovered
<1>2. Abstract!PowerFailure
  BY Zenon, <1>1 DEF Abstract!PowerFailure, Current, Open
<1> QED
  BY Zenon, <1>2 DEF Abstract!Next

\* The replay is invisible, and so is its end: what the file system sees then
\* is what the replay produced.
LEMMA AbstractReplay ==
  ASSUME RefinementInv, init_bcache
  PROVE  UNCHANGED Abstract!vars
<1>1. CASE Boot
  BY Zenon, <1>1 DEF Boot, device, Abstract!vars, Current, Open, Recovered
<1>2. CASE ReplayBlock
  <2>1. /\ UNCHANGED <<dlog, dheader, mode>> /\ mode = "replay"
        /\ disk' = [disk EXCEPT ![header[next]] = dlog[next]]
    BY Zenon, <1>2 DEF ReplayBlock
  <2>2. /\ header \in Seq(Blocks) /\ next \in 1 .. Len(header)
        /\ disk \in [Blocks -> Values]
    BY <1>2 DEF RefinementInv, LogInv, TypeOK, ReplayBlock, LoopDone
  <2>3. header = dheader
    BY Zenon, <2>1 DEF RefinementInv, DurableInv
  <2>4. Recovered' = Recovered
    <3>1. Replayed(header, dlog, [disk EXCEPT ![header[next]] = dlog[next]])
            = Replayed(header, dlog, disk)
      BY Zenon, <2>2, InstallKeeps
    <3> QED
      BY Zenon, <2>1, <2>3, <3>1 DEF Recovered
  <2> QED
    BY Zenon, <2>1, <2>4 DEF Abstract!vars, Current, Open
<1>3. CASE ReplayDone
  <2>1. /\ UNCHANGED <<disk, dlog, cached, pc>> /\ mode = "replay" /\ mode' = "up"
        /\ dheader' = <<>>
    BY Zenon, <1>3 DEF ReplayDone
  <2>2. Recovered = disk /\ Recovered' = disk
    BY Zenon, <1>3, <2>1, DurableReplayDone, EmptyLogKeeps
  <2>3. disk \in [Blocks -> Values] /\ \A t \in Threads : pc[t] = "idle"
    BY Zenon, <2>1 DEF RefinementInv, LogInv, TypeOK
  <2>4. Seen' = disk
    BY Zenon, <1>3, <2>3, DurableReplayDone DEF Seen
  <2>5. Running' = {}
    BY Zenon, <2>1, <2>3 DEF Running
  <2> QED
    BY Zenon, <2>1, <2>2, <2>4, <2>5 DEF Abstract!vars, Current, Open
<1> QED
  BY Zenon, <1>1, <1>2, <1>3 DEF init_bcache

\* One case per action of cache.c.
LEMMA AbstractStep ==
  ASSUME RefinementInv, [Next]_vars
  PROVE  [Abstract!Next]_(Abstract!vars)
<1>1. CASE \E t \in Threads : BeginOp(t) \/ BeginWait(t) \/ EndOp(t)
  BY Zenon, <1>1, AbstractOperations
<1>2. CASE \E t \in Threads : Commit(t)
  BY Zenon, <1>2, AbstractWriteLogBlock, AbstractWriteHeader, AbstractInstallBlock,
     AbstractFinish DEF Commit
<1>3. CASE \E t \in Threads, b \in Blocks, v \in Values : Write(t, b, v)
  BY Zenon, <1>3, AbstractWrite
<1>4. CASE \E t \in Threads, b \in Blocks, v \in Values : SyncPanic(t, b, v)
  BY Zenon, <1>4, AbstractPowerFailure DEF SyncPanic, device
<1>5. CASE \E b \in Blocks : Load(b) \/ Evict(b)
  <2>1. UNCHANGED <<disk, dlog, dheader, mode, pc>>
    BY Zenon, <1>5 DEF Load, Evict, device
  <2>2. \A b \in Blocks : Content(b)' = Content(b)
    BY Zenon, <1>5, TrafficContent
  <2>3. Running' = Running
    BY Zenon, <2>1 DEF Running
  <2> QED
    BY Zenon, <2>1, <2>2, <2>3, AbstractStutter
<1>6. CASE Crash
  BY Zenon, <1>6, AbstractPowerFailure DEF Crash, device
<1>7. CASE init_bcache
  BY Zenon, <1>7, AbstractReplay
<1>8. CASE UNCHANGED vars
  BY Zenon, <1>8, AbstractStutter DEF vars, device, memory, Content, Running
<1> QED
  BY Zenon, <1>1, <1>2, <1>3, <1>4, <1>5, <1>6, <1>7, <1>8 DEF Next

\* Crash atomicity of cache.c's log, for any number of threads, blocks, log
\* blocks and power failures: what cache_acquire shows and what a power failure
\* leaves behave as an atomic disk, whose checkpoint is write_header.
THEOREM CrashAtomicity == Spec => ImplementsAtomicDisk
<1>1. Init => Abstract!Init
  BY Zenon, AbstractInit
<1>2. LogInv /\ NoDuplicateLogged /\ DurableInv /\ [Next]_vars
        => [Abstract!Next]_(Abstract!vars)
  BY Zenon, AbstractStep DEF RefinementInv
<1> QED
  BY <1>1, <1>2, LogInvariant, LoggedOnce, CommitProgress, PTL
  DEF Spec, ImplementsAtomicDisk, Abstract!Spec

\* cache_sync delays the write: only a commit or a replay writes a home block,
\* and no operation is running then.
THEOREM WritesAreDelayed == Spec => WritebackDelayed
<1>1. ASSUME LogInv, [Next]_vars,
             NEW b \in Blocks, NEW t \in Threads, pc[t] = "op"
      PROVE  disk'[b] = disk[b]
  <2>1. ~committing
    BY Zenon, <1>1 DEF LogInv, CommitExclusive, Running
  <2>2. \A u \in Threads : ~InstallBlock(u)
    BY Zenon, <2>1, <1>1 DEF InstallBlock, LogInv, CommitExclusive, Committers, CommitPC
  <2>3. ~ReplayBlock
    BY Zenon, <1>1 DEF ReplayBlock, LogInv
  <2>4. disk' = disk
    BY <1>1, <2>2, <2>3
    DEF Next, BeginOp, BeginWait, EndOp, EndOpCommit, EndOpLeave, EndOpSleep,
        Commit, WriteLogBlock, WriteHeader, ClearHeader, FinishCommit, PostBegin,
        PostEnd, Write, SyncPanic, Load, Evict, Crash, init_bcache, Boot,
        ReplayDone, vars, device
  <2> QED
    BY Zenon, <2>4
<1>2. LogInv /\ [Next]_vars =>
        [\A b \in Blocks, t \in Threads :
           pc[t] = "op" /\ b \in unsaved[t] => disk'[b] = disk[b]]_vars
  BY Zenon, <1>1
<1> QED
  BY <1>2, LogInvariant, PTL DEF Spec, WritebackDelayed

=============================================================================
