------------------------------ MODULE BlockLog ------------------------------
(***************************************************************************)
(* The write-ahead log of the block cache (src/fs/cache.c): begin_op,      *)
(* sync, end_op with its group commit, and the replay done by init_bcache  *)
(* after a crash.  Threads are kernel processes that run file-system       *)
(* operations, one OpContext each.                                         *)
(*                                                                         *)
(* A critical section under log.lock is one step.  begin_sem and end_sem   *)
(* are only ever used through _wait_sem and post_all_sem, so each of them  *)
(* is the set of threads asleep on it (pc "begin_wait" and "end_wait").    *)
(* acquire-modify-sync-release of one block is one step because the block  *)
(* is locked throughout; BlockCache models that lock and the LRU list.     *)
(***************************************************************************)
EXTENDS Integers, Sequences, FiniteSets

CONSTANTS
  Threads,            \* processes that call the block cache
  Blocks,             \* the block numbers file-system operations write
  Values,             \* contents of a block
  Zero,               \* the content of a block of a fresh image
  NotCached,          \* the block has no copy in the block cache
  OP_MAX_NUM_BLOCKS,  \* cache.h: log blocks reserved by one operation
  LOG_MAX_SIZE,       \* defines.h: entries of LogHeader.block_no
  NumLogBlocks,       \* sblock->num_log_blocks, the header block included
  MaxCrashes          \* bound on the number of power failures

ASSUME LogAssumption ==
  /\ IsFiniteSet(Threads)
  /\ Zero \in Values
  /\ NotCached \notin Values
  /\ OP_MAX_NUM_BLOCKS \in Nat \ {0}
  /\ LOG_MAX_SIZE \in Nat
  /\ NumLogBlocks \in Nat
  /\ OP_MAX_NUM_BLOCKS <= LOG_MAX_SIZE
  /\ OP_MAX_NUM_BLOCKS <= NumLogBlocks - 1
  /\ MaxCrashes \in Nat

VARIABLES
  disk,         \* home location of every block, on the device
  dlog,         \* blocks log_start+1.. of the device
  dheader,      \* block_no[0..num_blocks-1] of the header block on the device
  cached,       \* content of the in-memory Block, or NotCached
  pinned,       \* Block.pinned
  header,       \* the static LogHeader: its block_no[0..num_blocks-1]
  outstanding,  \* log.outstanding
  committing,   \* log.committing
  real_use,     \* log.real_use
  rm,           \* ctx->rm of each thread's OpContext
  pc,           \* where each thread is in begin_op / end_op
  next,         \* loop index i of a commit or of a replay, from 1
  mode,         \* of the machine: "down", "replay", "up", "panic"
  crashes,      \* number of power failures so far
  unsaved       \* history: blocks synced by a thread's last operation that no
                \* header write has made durable yet

device == <<disk, dlog, dheader>>
memory == <<cached, pinned, header, outstanding, committing, real_use>>
vars == <<device, memory, rm, pc, next, mode, crashes, unsaved>>

LogSlots == 1 .. (NumLogBlocks - 1)

\* Positions of a thread inside the commit that starts at cache.c:221.
CommitPC == {"write_log", "install", "finish"}
PCs == {"idle", "begin", "begin_wait", "op", "end_unlocked", "end_wait",
        "post_begin", "post_end"} \cup CommitPC

Logged(hdr) == {hdr[k] : k \in 1 .. Len(hdr)}

\* What cache_acquire(b) returns the content of: the cached copy if there is
\* one, otherwise what device_read loads.
Content(b) == IF cached[b] = NotCached THEN disk[b] ELSE cached[b]

(***************************************************************************)
(* Power-on: a fresh image, nothing in memory.                             *)
(***************************************************************************)
Init ==
  /\ disk \in [Blocks -> Values]
  /\ dlog = [k \in LogSlots |-> Zero]
  /\ dheader = <<>>
  /\ cached = [b \in Blocks |-> NotCached]
  /\ pinned = [b \in Blocks |-> FALSE]
  /\ header = <<>>
  /\ outstanding = 0
  /\ committing = FALSE
  /\ real_use = 0
  /\ rm = [t \in Threads |-> 0]
  /\ pc = [t \in Threads |-> "idle"]
  /\ next = 1
  /\ mode = "down"
  /\ crashes = 0
  /\ unsaved = [t \in Threads |-> {}]

(***************************************************************************)
(* cache_begin_op                                                          *)
(***************************************************************************)
LogFull ==
  \/ real_use + OP_MAX_NUM_BLOCKS > NumLogBlocks - 1
  \/ real_use + OP_MAX_NUM_BLOCKS > LOG_MAX_SIZE

\* Mutant: an operation may start during a commit.
MayBeginInCommit == ~LogFull

MayBegin == ~committing /\ ~LogFull

\* One turn of the loop that finds room: the operation starts.
BeginOp(t) ==
  /\ mode = "up"
  /\ pc[t] \in {"idle", "begin"}
  /\ MayBegin
  /\ outstanding' = outstanding + 1
  /\ rm' = [rm EXCEPT ![t] = OP_MAX_NUM_BLOCKS]
  /\ real_use' = real_use + OP_MAX_NUM_BLOCKS
  /\ pc' = [pc EXCEPT ![t] = "op"]
  /\ unsaved' = [unsaved EXCEPT ![t] = {}]
  /\ UNCHANGED <<device, cached, pinned, header, committing, next, mode, crashes>>

\* A turn that does not: the lock of begin_sem is taken before log.lock is
\* released, so the thread is on the sleep list when log.lock is free again.
BeginWait(t) ==
  /\ mode = "up"
  /\ pc[t] \in {"idle", "begin"}
  /\ ~MayBegin
  /\ pc' = [pc EXCEPT ![t] = "begin_wait"]
  /\ UNCHANGED <<device, memory, rm, next, mode, crashes, unsaved>>

(***************************************************************************)
(* cache_sync, between the cache_acquire and the cache_release of b        *)
(***************************************************************************)

Absorbed(b) == b \in Logged(header)

HasRoom(t) == rm[t] > 0

\* Mutant: block->pinned is not set.
PinForgotten(b) == UNCHANGED pinned

Pin(b) == pinned' = [pinned EXCEPT ![b] = TRUE]

Write(t, b, v) ==
  /\ mode = "up"
  /\ pc[t] = "op"
  /\ cached' = [cached EXCEPT ![b] = v]
  /\ Pin(b)
  /\ \/ /\ Absorbed(b)
        /\ UNCHANGED <<header, rm>>
     \/ /\ ~Absorbed(b)
        /\ HasRoom(t)
        /\ header' = Append(header, b)
        /\ rm' = [rm EXCEPT ![t] = rm[t] - 1]
  /\ unsaved' = [unsaved EXCEPT ![t] = unsaved[t] \cup {b}]
  /\ UNCHANGED <<device, outstanding, committing, real_use, pc, next, mode, crashes>>

\* sync of a block that is not in the log by an operation with no room left.
\* PANIC leaves log.lock and LRUcache.lock held, so that no other CPU gets any
\* further in the block cache before it stops.  The number of the block has been
\* written past header.num_blocks by then, where nothing reads it: header stands for
\* the entries below num_blocks.
SyncPanic(t, b, v) ==
  /\ mode = "up"
  /\ pc[t] = "op"
  /\ cached' = [cached EXCEPT ![b] = v]
  /\ Pin(b)
  /\ ~Absorbed(b)
  /\ ~HasRoom(t)
  /\ mode' = "panic"
  /\ UNCHANGED <<device, header, outstanding, committing, real_use, rm, pc, next,
                 crashes, unsaved>>

\* cache_acquire loads a block that is not cached; an acquire that misses may
\* free any cached block that is neither pinned nor locked.
Load(b) ==
  /\ mode = "up"
  /\ cached[b] = NotCached
  /\ cached' = [cached EXCEPT ![b] = disk[b]]
  /\ UNCHANGED <<device, pinned, header, outstanding, committing, real_use,
                 rm, pc, next, mode, crashes, unsaved>>

Evict(b) ==
  /\ mode \in {"up", "replay"}
  /\ cached[b] # NotCached
  /\ ~pinned[b]
  /\ cached' = [cached EXCEPT ![b] = NotCached]
  /\ UNCHANGED <<device, pinned, header, outstanding, committing, real_use,
                 rm, pc, next, mode, crashes, unsaved>>

(***************************************************************************)
(* cache_end_op                                                            *)
(***************************************************************************)

\* Mutant: end_op gives back the whole reservation.
UnusedWhole(t) == OP_MAX_NUM_BLOCKS

\* What end_op gives back.  The context is dead afterwards: its rm counts as 0.
Unused(t) == rm[t]

\* Mutant: the threads that wait in begin_op are not posted.
WakeBeginForgotten(p) == p

\* post_all_sem: every thread asleep there leaves its _wait_sem.
WakeBegin(p) == [t \in Threads |-> IF p[t] = "begin_wait" THEN "begin" ELSE p[t]]
WakeEnd(p) == [t \in Threads |-> IF p[t] = "end_wait" THEN "idle" ELSE p[t]]

\* The last outstanding operation ends: its thread commits for the group.
EndOpCommit(t) ==
  /\ mode = "up"
  /\ pc[t] = "op"
  /\ outstanding = 1
  /\ outstanding' = 0
  /\ real_use' = real_use - Unused(t)
  /\ rm' = [rm EXCEPT ![t] = 0]
  /\ committing' = TRUE
  /\ pc' = [pc EXCEPT ![t] = "write_log"]
  /\ next' = 1
  /\ UNCHANGED <<device, cached, pinned, header, mode, crashes, unsaved>>

\* Others are still running: wake the threads that wait for room, release
\* log.lock (261), and only then lock end_sem and sleep (262).
EndOpLeave(t) ==
  /\ mode = "up"
  /\ pc[t] = "op"
  /\ outstanding > 1
  /\ outstanding' = outstanding - 1
  /\ real_use' = real_use - Unused(t)
  /\ rm' = [rm EXCEPT ![t] = 0]
  /\ pc' = WakeBegin([pc EXCEPT ![t] = "end_unlocked"])
  /\ UNCHANGED <<device, cached, pinned, header, committing, next, mode, crashes, unsaved>>

EndOpSleep(t) ==
  /\ mode = "up"
  /\ pc[t] = "end_unlocked"
  /\ pc' = [pc EXCEPT ![t] = "end_wait"]
  /\ UNCHANGED <<device, memory, rm, next, mode, crashes, unsaved>>

\* Mutant: the loops over the logged blocks leave out the last one.
LoopDoneEarly == next >= Len(header)

\* The loops of a commit and of the replay run i over header.num_blocks.
LoopDone == next > Len(header)

\* Loop 225-232: copy a logged block to its log block, and that to the device.
WriteLogBlock(t) ==
  /\ mode = "up"
  /\ pc[t] = "write_log"
  /\ ~LoopDone
  /\ dlog' = [dlog EXCEPT ![next] = Content(header[next])]
  /\ next' = next + 1
  /\ UNCHANGED <<disk, dheader, memory, rm, pc, mode, crashes, unsaved>>

\* write_header (234): the commit point.  No operation is running here.
WriteHeader(t) ==
  /\ mode = "up"
  /\ pc[t] = "write_log"
  /\ LoopDone
  /\ dheader' = header
  /\ pc' = [pc EXCEPT ![t] = "install"]
  /\ next' = 1
  /\ unsaved' = [u \in Threads |-> {}]
  /\ UNCHANGED <<disk, dlog, memory, rm, mode, crashes>>

\* Loop 237-245: copy a log block home, and unpin.
InstallBlock(t) ==
  /\ mode = "up"
  /\ pc[t] = "install"
  /\ ~LoopDone
  /\ disk' = [disk EXCEPT ![header[next]] = dlog[next]]
  /\ cached' = [cached EXCEPT ![header[next]] = dlog[next]]
  /\ pinned' = [pinned EXCEPT ![header[next]] = FALSE]
  /\ next' = next + 1
  /\ UNCHANGED <<dlog, dheader, header, outstanding, committing, real_use,
                 rm, pc, mode, crashes, unsaved>>

\* 247-248: empty the log, in memory and on the device.
ClearHeader(t) ==
  /\ mode = "up"
  /\ pc[t] = "install"
  /\ LoopDone
  /\ header' = <<>>
  /\ dheader' = <<>>
  /\ pc' = [pc EXCEPT ![t] = "finish"]
  /\ UNCHANGED <<disk, dlog, cached, pinned, outstanding, committing, real_use,
                 rm, next, mode, crashes, unsaved>>

\* 251-254, under log.lock.
FinishCommit(t) ==
  /\ mode = "up"
  /\ pc[t] = "finish"
  /\ committing' = FALSE
  /\ real_use' = 0
  /\ pc' = [pc EXCEPT ![t] = "post_begin"]
  /\ UNCHANGED <<device, cached, pinned, header, outstanding, rm, next, mode,
                 crashes, unsaved>>

\* 256 and 257, after log.lock has been released.
PostBegin(t) ==
  /\ mode = "up"
  /\ pc[t] = "post_begin"
  /\ pc' = WakeBegin([pc EXCEPT ![t] = "post_end"])
  /\ UNCHANGED <<device, memory, rm, next, mode, crashes, unsaved>>

PostEnd(t) ==
  /\ mode = "up"
  /\ pc[t] = "post_end"
  /\ pc' = WakeEnd([pc EXCEPT ![t] = "idle"])
  /\ UNCHANGED <<device, memory, rm, next, mode, crashes, unsaved>>

(***************************************************************************)
(* Power failure or reset, and init_bcache at the next boot                *)
(***************************************************************************)
Crash ==
  /\ \/ /\ crashes < MaxCrashes
        /\ crashes' = crashes + 1
     \/ /\ mode = "panic"   \* every CPU stops: the machine is reset
        /\ UNCHANGED crashes
  /\ mode' = "down"
  /\ cached' = [b \in Blocks |-> NotCached]
  /\ pinned' = [b \in Blocks |-> FALSE]
  /\ header' = <<>>
  /\ outstanding' = 0
  /\ committing' = FALSE
  /\ real_use' = 0
  /\ rm' = [t \in Threads |-> 0]
  /\ pc' = [t \in Threads |-> "idle"]
  /\ next' = 1
  /\ unsaved' = [t \in Threads |-> {}]
  /\ UNCHANGED device

\* init_LRUcache, init_log, the semaphores, read_header.
Boot ==
  /\ mode = "down"
  /\ header' = dheader
  /\ next' = 1
  /\ mode' = "replay"
  /\ UNCHANGED <<device, cached, pinned, outstanding, committing, real_use,
                 rm, pc, crashes, unsaved>>

ReplayBlock ==
  /\ mode = "replay"
  /\ ~LoopDone
  /\ disk' = [disk EXCEPT ![header[next]] = dlog[next]]
  /\ cached' = [cached EXCEPT ![header[next]] = dlog[next]]
  /\ next' = next + 1
  /\ UNCHANGED <<dlog, dheader, pinned, header, outstanding, committing,
                 real_use, rm, pc, mode, crashes, unsaved>>

ReplayDone ==
  /\ mode = "replay"
  /\ LoopDone
  /\ header' = <<>>
  /\ dheader' = <<>>
  /\ mode' = "up"
  /\ UNCHANGED <<disk, dlog, cached, pinned, outstanding, committing, real_use,
                 rm, pc, next, crashes, unsaved>>

(***************************************************************************)
(* The specification                                                       *)
(***************************************************************************)
Commit(t) ==
  \/ WriteLogBlock(t)
  \/ WriteHeader(t)
  \/ InstallBlock(t)
  \/ ClearHeader(t)
  \/ FinishCommit(t)
  \/ PostBegin(t)
  \/ PostEnd(t)

EndOp(t) == EndOpCommit(t) \/ EndOpLeave(t) \/ EndOpSleep(t)

init_bcache == Boot \/ ReplayBlock \/ ReplayDone

Next ==
  \/ \E t \in Threads : BeginOp(t) \/ BeginWait(t) \/ EndOp(t) \/ Commit(t)
  \/ \E t \in Threads, b \in Blocks, v \in Values : Write(t, b, v) \/ SyncPanic(t, b, v)
  \/ \E b \in Blocks : Load(b) \/ Evict(b)
  \/ Crash
  \/ init_bcache

Spec == Init /\ [][Next]_vars

\* A kernel process that is inside end_op, inside a commit, or awake in the
\* loop of begin_op keeps running, and every operation that begins ends.
\* Nobody has to begin an operation.
Fairness ==
  \A t \in Threads :
    /\ WF_vars(EndOp(t))
    /\ WF_vars(Commit(t))
    /\ WF_vars(pc[t] = "begin" /\ (BeginOp(t) \/ BeginWait(t)))

FairSpec == Spec /\ Fairness

(***************************************************************************)
(* Properties                                                              *)
(***************************************************************************)

\* Types of the variables of cache.c.
TypeOK ==
  /\ disk \in [Blocks -> Values]
  /\ dlog \in [LogSlots -> Values]
  /\ dheader \in Seq(Blocks)
  /\ cached \in [Blocks -> Values \cup {NotCached}]
  /\ pinned \in [Blocks -> BOOLEAN]
  /\ header \in Seq(Blocks)
  /\ outstanding \in Nat
  /\ committing \in BOOLEAN
  /\ real_use \in Nat
  /\ rm \in [Threads -> 0 .. OP_MAX_NUM_BLOCKS]
  /\ pc \in [Threads -> PCs]
  /\ next \in Nat \ {0}
  /\ mode \in {"down", "replay", "up", "panic"}
  /\ crashes \in 0 .. MaxCrashes
  /\ unsaved \in [Threads -> SUBSET Blocks]

Running == {t \in Threads : pc[t] = "op"}
Committers == {t \in Threads : pc[t] \in CommitPC}

\* The log blocks that running operations have reserved and not used: the
\* k-th one of thread t is the pair <<t, k>>.
CreditsOf(r) == {c \in Threads \X (1 .. OP_MAX_NUM_BLOCKS) : c[2] <= r[c[1]]}
Credits == CreditsOf(rm)

\* log.outstanding counts the running operations, and log.real_use is exactly
\* the used log blocks plus the reserved ones, except inside a commit, where
\* nothing is reserved and real_use still covers the blocks being written.
LogAccounting ==
  /\ outstanding = Cardinality(Running)
  /\ mode = "up" /\ ~committing =>
       real_use = Len(header) + Cardinality(Credits)
  /\ committing => Credits = {} /\ Len(header) <= real_use

FitsLog(hdr) == Len(hdr) <= LOG_MAX_SIZE /\ Len(hdr) <= NumLogBlocks - 1

\* cache_sync never fills the header beyond block_no[LOG_MAX_SIZE - 1], and a
\* commit never writes a log block beyond the log area of the device.
LogFits == FitsLog(header) /\ FitsLog(dheader)

\* committing excludes running operations and a second committer, although
\* lines 222-251 of cache_end_op run without log.lock.
CommitExclusive ==
  /\ committing <=> Committers # {}
  /\ committing => Running = {}
  /\ \A t, u \in Committers : t = u

NoDuplicates(hdr) == \A j, k \in 1 .. Len(hdr) : hdr[j] = hdr[k] => j = k

\* An absorbed block has one log block, in memory and in the header that a
\* replay would read: cache_sync's search of the header.
NoDuplicateLogged == NoDuplicates(header) /\ NoDuplicates(dheader)

\* The inductive invariant behind LogAccounting, LogFits and CommitExclusive:
\* they hold together with the types, real_use never exceeds either bound that
\* begin_op tests, only a running operation has anything reserved, the log is
\* empty when real_use is reset and while no operation runs and none commits,
\* and between a power failure and the end of the replay nothing runs.
LogInv ==
  /\ TypeOK
  /\ LogAccounting
  /\ LogFits
  /\ CommitExclusive
  /\ real_use <= LOG_MAX_SIZE /\ real_use <= NumLogBlocks - 1
  /\ \A t \in Threads :
       /\ pc[t] # "op" => rm[t] = 0
       /\ pc[t] = "finish" => header = <<>>
  /\ mode = "up" /\ ~committing /\ outstanding = 0 => header = <<>>
  /\ mode \in {"down", "replay"} =>
       real_use = 0 /\ ~committing /\ \A t \in Threads : pc[t] = "idle"

\* A block whose copy differs from its home location is pinned, so that no
\* eviction loses it, and pinned exactly while the log holds it uninstalled.
DirtyIsPinned ==
  mode = "up" =>
    \A b \in Blocks :
      /\ Content(b) # disk[b] => pinned[b]
      /\ pinned[b] => b \in Logged(header)

\* A thread asleep in begin_op always has somebody who is going to post
\* begin_sem: a running operation, a commit, or a committer about to post.
BeginWaiterHasWaker ==
  mode = "up" =>
    \A t \in Threads :
      pc[t] = "begin_wait" =>
        \/ outstanding > 0
        \/ committing
        \/ \E u \in Threads : pc[u] = "post_begin"

\* sync with a context delays the write to the home location until end_op:
\* no step changes a block on the device while an operation that synced it
\* is still running (cache.h:75-76).
WritebackDelayed ==
  [][\A b \in Blocks, t \in Threads :
       pc[t] = "op" /\ b \in unsaved[t] => disk'[b] = disk[b]]_vars

\* A thread that waits in begin_op for room or for a commit is woken.
BeginOpWakes ==
  \A t \in Threads :
    pc[t] = "begin_wait" ~> (pc[t] # "begin_wait" \/ mode = "panic")

\* end_op "returns when all associated blocks are persisted to disk"
\* (cache.h:84), as safety: when it returns, no block of the operation is
\* waiting for a header write.
EndOpDurable ==
  [][\A t \in Threads :
       pc[t] \in {"end_wait", "post_end"} /\ pc'[t] = "idle" /\ mode' = "up"
         => unsaved[t] = {}]_vars

\* The same sentence as liveness: end_op does return.
EndOpReturns ==
  \A t \in Threads :
    pc[t] \in {"end_unlocked", "end_wait"} ~> (pc[t] = "idle" \/ mode = "panic")
=============================================================================
