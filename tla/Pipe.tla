-------------------------------- MODULE Pipe --------------------------------
(* One pipe (fs/pipe.c): readers and writers that share its two ends after a  *)
(* fork, its spinlock, and the two semaphores they sleep on.                  *)
(*                                                                            *)
(* pi->lock makes each pass of a loop one step.  A thread that must sleep     *)
(* keeps the semaphore's lock, releases pi->lock and only then runs           *)
(* _wait_sem, whose decrement and insertion are steps of their own: pipeClose *)
(* calls _post_sem without the semaphore's lock, so its ++val, read and write *)
(* apart, may fall between any two of them.                                   *)
EXTENDS ListOps, FiniteSets

CONSTANTS Readers, Writers,
          Bytes,
          PipeSize,   \* PIPESIZE
          U32,        \* 2^32, the modulus of nread and nwrite
          Counts,     \* the n of a read or write in the model
          MaxKills,   \* bound of the model on the threads killed
          NoOne       \* no holder of a lock

ASSUME PipeAssumption ==
    /\ PipeSize \in Nat \ {0} /\ U32 \in Nat /\ U32 % PipeSize = 0 /\ U32 > PipeSize
    /\ Bytes # {} /\ Readers \cap Writers = {} /\ Counts \subseteq Nat \ {0} /\ MaxKills \in Nat
    /\ NoOne \notin Readers \cup Writers

VARIABLES
    data, nread, nwrite,
    pilock,     \* holder of pi->lock
    val,        \* val of rlock ("r") and wlock ("w")
    semlock,    \* holder of the lock of each semaphore
    sleeplist,  \* threads on each sleeplist, newest first
    tpc, left,  \* where a thread is in its call and the bytes it still wants to move
    reg,        \* the value of val a thread has read and not yet written back
    twoken,     \* the thread's WaitData has up = true
    open,       \* threads that still hold their descriptor
    tkilled,    \* proc->killed
    panicked    \* an ASSERT failed: the kernel has stopped

pipevars == <<data, nread, nwrite, pilock, val, semlock, sleeplist, tpc, left, reg,
              twoken, open, tkilled, panicked>>

PipeThreads == Readers \cup Writers
Ends == {"r", "w"}
SemOf(t) == IF t \in Readers THEN "r" ELSE "w"      \* what the thread sleeps on
OtherSem(t) == IF t \in Readers THEN "w" ELSE "r"   \* what it wakes
PipePcs == {"idle", "loop", "copy", "dec", "dec2", "ins", "asleep", "back", "relock", "close", "close2"}

Full == (nread + PipeSize) % U32 = nwrite
Empty == nread = nwrite
\* readopen and writeopen: fileclose reaches pipeClose when the last descriptor
\* of an end goes, and pipeClose clears the flag before it posts.
EndOpen(e) ==
    \E t \in IF e = "r" THEN Readers ELSE Writers : t \in open

PipeInit ==
    /\ data = [i \in 0 .. PipeSize - 1 |-> CHOOSE b \in Bytes : TRUE]
    /\ nread = 0 /\ nwrite = 0
    /\ pilock = NoOne
    /\ val = [e \in Ends |-> 0]
    /\ semlock = [e \in Ends |-> NoOne]
    /\ sleeplist = [e \in Ends |-> <<>>]
    /\ tpc = [t \in PipeThreads |-> "idle"]
    /\ left = [t \in PipeThreads |-> 0]
    /\ reg = [t \in PipeThreads |-> 0]
    /\ twoken = [t \in PipeThreads |-> FALSE]
    /\ open = PipeThreads
    /\ tkilled = [t \in PipeThreads |-> FALSE]
    /\ panicked = FALSE

Goto(t, where) == tpc' = [tpc EXCEPT ![t] = where]

\* post_all_sem: every sleeper is woken and the semaphore is left at 0 (or where
\* it stood, if positive).
PostAllWakes(e) ==
    /\ twoken' = [t \in PipeThreads |-> twoken[t] \/ t \in Listed(sleeplist[e])]
    /\ sleeplist' = [sleeplist EXCEPT ![e] = <<>>]

\* A read or write begins and returns; in between it holds pi->lock or sleeps.
PipeCall(t) ==
    /\ tpc[t] = "idle" /\ t \in open /\ pilock = NoOne
    /\ pilock' = t
    /\ \E n \in Counts : left' = [left EXCEPT ![t] = n]
    /\ Goto(t, "loop")
    /\ UNCHANGED <<data, nread, nwrite, val, semlock, sleeplist, reg, twoken, open,
                   tkilled, panicked>>

Return(t) == Goto(t, "idle") /\ pilock' = NoOne /\ left' = [left EXCEPT ![t] = 0]

\* The call fails: the other end is closed (a write) or the caller was killed.
PipeFail(t) ==
    /\ tpc[t] = "loop" /\ left[t] > 0
    /\ \/ t \in Writers /\ (~EndOpen("r") \/ tkilled[t])
       \/ t \in Readers /\ Empty /\ EndOpen("w") /\ tkilled[t]
    /\ Return(t)
    /\ UNCHANGED <<data, nread, nwrite, val, semlock, sleeplist, reg, twoken, open,
                   tkilled, panicked>>

\* Mutant of PipeBlock: a writer that finds the pipe full does not wake the readers.
PipeBlockSilently(t) ==
    LET e == SemOf(t) IN
    /\ tpc[t] = "loop" /\ left[t] > 0 /\ ~tkilled[t]
    /\ semlock[e] = NoOne
    /\ \/ /\ t \in Writers /\ EndOpen("r") /\ Full
          /\ semlock["r"] = NoOne
          /\ UNCHANGED <<twoken, sleeplist>>
       \/ /\ t \in Readers /\ EndOpen("w") /\ Empty
          /\ UNCHANGED <<twoken, sleeplist>>
    /\ val' = [x \in Ends |-> IF x = e THEN (IF val[e] > 0 THEN 0 ELSE val[e])
                              ELSE val[x]]
    /\ semlock' = [semlock EXCEPT ![e] = t]
    /\ pilock' = NoOne
    /\ Goto(t, "dec")
    /\ UNCHANGED <<data, nread, nwrite, left, reg, open, tkilled, panicked>>

\* The pipe is full (a write) or empty (a read): a writer first wakes the readers;
\* then get_all_sem, _lock_sem and the release of pi->lock.
PipeBlock(t) ==
    LET e == SemOf(t) IN
    /\ tpc[t] = "loop" /\ left[t] > 0 /\ ~tkilled[t]
    /\ semlock[e] = NoOne
    /\ \/ /\ t \in Writers /\ EndOpen("r") /\ Full
          /\ semlock["r"] = NoOne
          /\ PostAllWakes("r")
       \/ /\ t \in Readers /\ EndOpen("w") /\ Empty
          /\ UNCHANGED <<twoken, sleeplist>>
    /\ val' = [x \in Ends |-> IF x = e THEN (IF val[e] > 0 THEN 0 ELSE val[e])
                              ELSE IF t \in Writers /\ val[x] < 0 THEN 0 ELSE val[x]]
    /\ semlock' = [semlock EXCEPT ![e] = t]
    /\ pilock' = NoOne
    /\ Goto(t, "dec")
    /\ UNCHANGED <<data, nread, nwrite, left, reg, open, tkilled, panicked>>

\* Mutant of PutByte: the room left is not looked at.
PutByteAnyway(t) ==
    /\ tpc[t] = "loop" /\ t \in Writers /\ left[t] > 0
    /\ EndOpen("r") /\ ~tkilled[t]
    /\ \E b \in Bytes : data' = [data EXCEPT ![nwrite % PipeSize] = b]
    /\ nwrite' = (nwrite + 1) % U32
    /\ left' = [left EXCEPT ![t] = @ - 1]
    /\ UNCHANGED <<nread, pilock, val, semlock, sleeplist, tpc, reg, twoken, open,
                   tkilled, panicked>>

\* pi->data[pi->nwrite++ % PIPESIZE] = byte; the last byte ends the write, which
\* then wakes every reader.
PutByte(t) ==
    /\ tpc[t] = "loop" /\ t \in Writers /\ left[t] > 0
    /\ EndOpen("r") /\ ~tkilled[t] /\ ~Full
    /\ \E b \in Bytes : data' = [data EXCEPT ![nwrite % PipeSize] = b]
    /\ nwrite' = (nwrite + 1) % U32
    /\ left' = [left EXCEPT ![t] = @ - 1]
    /\ UNCHANGED <<nread, pilock, val, semlock, sleeplist, tpc, reg, twoken, open,
                   tkilled, panicked>>

\* Past its waiting loop a read takes bytes until it has enough or none is left.  The
\* byte it copies is data[nread % PIPESIZE], the first of Contents below.
GetByte(t) ==
    /\ tpc[t] \in {"loop", "copy"} /\ t \in Readers /\ left[t] > 0 /\ ~Empty
    /\ nread' = (nread + 1) % U32
    /\ left' = [left EXCEPT ![t] = @ - 1]
    /\ Goto(t, "copy")
    /\ UNCHANGED <<data, nwrite, pilock, val, semlock, sleeplist, reg, twoken, open,
                   tkilled, panicked>>

\* Mutant of PipeDone: a write that ends wakes nobody.
PipeDoneSilently(t) ==
    LET x == OtherSem(t) IN
    /\ \/ t \in Writers /\ tpc[t] = "loop" /\ left[t] = 0
       \/ tpc[t] = "copy" /\ (left[t] = 0 \/ Empty)
       \/ t \in Readers /\ tpc[t] = "loop" /\ Empty /\ ~EndOpen("w")
    /\ semlock[x] = NoOne
    /\ IF t \in Readers THEN PostAllWakes(x) ELSE UNCHANGED <<twoken, sleeplist>>
    /\ val' = [val EXCEPT ![x] = IF t \in Readers /\ @ < 0 THEN 0 ELSE @]
    /\ Return(t)
    /\ UNCHANGED <<data, nread, nwrite, semlock, reg, open, tkilled, panicked>>

\* The end of a read or write: post_all_sem on the other side, then return.
PipeDone(t) ==
    LET x == OtherSem(t) IN
    /\ \/ t \in Writers /\ tpc[t] = "loop" /\ left[t] = 0
       \/ tpc[t] = "copy" /\ (left[t] = 0 \/ Empty)
       \/ t \in Readers /\ tpc[t] = "loop" /\ Empty /\ ~EndOpen("w")
    /\ semlock[x] = NoOne
    /\ PostAllWakes(x)
    /\ val' = [val EXCEPT ![x] = IF @ < 0 THEN 0 ELSE @]
    /\ Return(t)
    /\ UNCHANGED <<data, nread, nwrite, semlock, reg, open, tkilled, panicked>>

-----------------------------------------------------------------------------
(* _wait_sem(.., false), entered with the semaphore's lock.                   *)

DecRead(t) ==
    /\ tpc[t] = "dec"
    /\ reg' = [reg EXCEPT ![t] = val[SemOf(t)]]
    /\ Goto(t, "dec2")
    /\ UNCHANGED <<data, nread, nwrite, pilock, val, semlock, sleeplist, left, twoken,
                   open, tkilled, panicked>>

DecWrite(t) ==
    LET e == SemOf(t)  v == reg[t] - 1 IN
    /\ tpc[t] = "dec2"
    /\ val' = [val EXCEPT ![e] = v]
    /\ reg' = [reg EXCEPT ![t] = 0]
    /\ semlock' = IF v >= 0 THEN [semlock EXCEPT ![e] = NoOne] ELSE semlock
    /\ Goto(t, IF v >= 0 THEN "relock" ELSE "ins")
    /\ UNCHANGED <<data, nread, nwrite, pilock, sleeplist, left, twoken, open, tkilled,
                   panicked>>

\* The insertion, then the switch: the semaphore's lock is given up with the
\* scheduler's lock held.  A killed thread comes straight back.
InsertAndSleep(t) ==
    LET e == SemOf(t) IN
    /\ tpc[t] = "ins"
    /\ sleeplist' = [sleeplist EXCEPT ![e] = <<t>> \o @]
    /\ twoken' = [twoken EXCEPT ![t] = FALSE]
    /\ semlock' = [semlock EXCEPT ![e] = NoOne]
    /\ Goto(t, IF tkilled[t] THEN "back" ELSE "asleep")
    /\ UNCHANGED <<data, nread, nwrite, pilock, val, left, reg, open, tkilled, panicked>>

\* The thread runs again.  If it was killed before it could sleep and nobody has
\* posted, _wait_sem returns false and the ASSERT around it fails.
Resume(t) ==
    LET e == SemOf(t) IN
    /\ semlock[e] = NoOne
    /\ (tpc[t] = "asleep" /\ twoken[t]) \/ tpc[t] = "back"
    /\ panicked' = ~twoken[t]
    /\ twoken' = [twoken EXCEPT ![t] = FALSE]
    /\ Goto(t, "relock")
    /\ UNCHANGED <<data, nread, nwrite, pilock, val, semlock, sleeplist, left, reg, open,
                   tkilled>>

Relock(t) ==
    /\ tpc[t] = "relock" /\ pilock = NoOne
    /\ pilock' = t
    /\ Goto(t, "loop")
    /\ UNCHANGED <<data, nread, nwrite, val, semlock, sleeplist, left, reg, twoken, open,
                   tkilled, panicked>>

-----------------------------------------------------------------------------
(* fileclose on the last descriptor of an end: pipeClose.                     *)

CloseEnd(t) ==
    LET last == ~\E u \in PipeThreads \ {t} : u \in open /\ SemOf(u) = SemOf(t) IN
    /\ tpc[t] = "idle" /\ t \in open
    /\ open' = open \ {t}
    /\ IF last THEN pilock = NoOne /\ pilock' = t /\ Goto(t, "close")
               ELSE UNCHANGED <<pilock, tpc>>
    /\ UNCHANGED <<data, nread, nwrite, val, semlock, sleeplist, left, reg, twoken,
                   tkilled, panicked>>

CloseRead(t) ==
    /\ tpc[t] = "close"
    /\ reg' = [reg EXCEPT ![t] = val[OtherSem(t)]]
    /\ Goto(t, "close2")
    /\ UNCHANGED <<data, nread, nwrite, pilock, val, semlock, sleeplist, left, twoken,
                   open, tkilled, panicked>>

\* The rest of _post_sem wakes one thread, the oldest; val <= 0 with nobody on
\* the list fails its ASSERT.
CloseWrite(t) ==
    LET x == OtherSem(t)  v == reg[t] + 1  q == sleeplist[x] IN
    /\ tpc[t] = "close2"
    /\ val' = [val EXCEPT ![x] = v]
    /\ panicked' = (v <= 0 /\ q = <<>>)
    /\ IF v <= 0 /\ q # <<>>
       THEN /\ twoken' = [twoken EXCEPT ![q[Len(q)]] = TRUE]
            /\ sleeplist' = [sleeplist EXCEPT ![x] = WithoutLast(q)]
       ELSE UNCHANGED <<twoken, sleeplist>>
    /\ pilock' = NoOne
    /\ reg' = [reg EXCEPT ![t] = 0]
    /\ Goto(t, "idle")
    /\ UNCHANGED <<data, nread, nwrite, semlock, left, open, tkilled>>

\* kill: these sleeps are not alertable, so only the flag changes.
KillThread(t) ==
    /\ ~tkilled[t] /\ Cardinality({u \in PipeThreads : tkilled[u]}) < MaxKills
    /\ tkilled' = [tkilled EXCEPT ![t] = TRUE]
    /\ UNCHANGED <<data, nread, nwrite, pilock, val, semlock, sleeplist, tpc, left, reg,
                   twoken, open, panicked>>

\* What a thread that is inside a call, or awake after a sleep, goes on to do.
PipeContinue(t) ==
    \/ PipeFail(t) \/ PipeBlock(t) \/ PutByte(t) \/ GetByte(t) \/ PipeDone(t)
    \/ DecRead(t) \/ DecWrite(t) \/ InsertAndSleep(t) \/ Resume(t) \/ Relock(t)
    \/ CloseRead(t) \/ CloseWrite(t)

PipeNext ==
    /\ ~panicked
    /\ \E t \in PipeThreads : PipeCall(t) \/ PipeContinue(t) \/ CloseEnd(t) \/ KillThread(t)

PipeSpec == PipeInit /\ [][PipeNext]_pipevars
\* A thread in a call or awake goes on; the locks are held for a few steps only.
PipeFairness == \A t \in PipeThreads : WF_pipevars(~panicked /\ PipeContinue(t))
PipeFairSpec == PipeSpec /\ PipeFairness

-----------------------------------------------------------------------------
(* Properties.                                                                *)

\* Type invariant; nread and nwrite are u32 and wrap.
PipeTypeOK ==
    /\ data \in [0 .. PipeSize - 1 -> Bytes]
    /\ nread \in 0 .. U32 - 1 /\ nwrite \in 0 .. U32 - 1
    /\ pilock \in PipeThreads \cup {NoOne}
    /\ val \in [Ends -> Int] /\ semlock \in [Ends -> PipeThreads \cup {NoOne}]
    /\ sleeplist \in [Ends -> Seq(PipeThreads)]
    /\ tpc \in [PipeThreads -> PipePcs] /\ left \in [PipeThreads -> Nat]
    /\ reg \in [PipeThreads -> Int] /\ twoken \in [PipeThreads -> BOOLEAN]
    /\ open \subseteq PipeThreads /\ tkilled \in [PipeThreads -> BOOLEAN]
    /\ panicked \in BOOLEAN

\* The bytes in the pipe: nwrite - nread of them, with both counters wrapping.
Contents ==
    [i \in 1 .. (nwrite - nread) % U32 |-> data[((nread + i - 1) % U32) % PipeSize]]

Fifo == INSTANCE BoundedFifo WITH fifo <- Contents, Capacity <- PipeSize

\* Each step of pipeRead and pipeWrite puts one byte at the end of a bounded queue,
\* takes the first one, or changes nothing, also when the counters wrap around.  It
\* speaks of the buffer, not of the memory of the reader that the byte is copied to.
PipeIsFifo == Fifo!FifoSpec

\* A thread that sleeps, or is about to, while the other end is open has a reason
\* to: a reader finds the pipe empty and a writer finds it full, or a thread of
\* the other side holds pi->lock and wakes it before letting go (pipe.c:83, 97, 132).
\* A writer killed half way through a write returns without waking anyone
\* (pipe.c:78), so this is said of a pipe whose other side was not killed.
GoingToSleep(t) == tpc[t] \in {"dec", "dec2", "ins"} \/ (tpc[t] = "asleep" /\ ~twoken[t])
Undisturbed(t) ==
    EndOpen(OtherSem(t)) /\ \A u \in PipeThreads : SemOf(u) = OtherSem(t) => ~tkilled[u]
SleepersHaveReason ==
    \A t \in PipeThreads : GoingToSleep(t) /\ Undisturbed(t) =>
        \/ IF t \in Readers THEN Empty ELSE Full
        \/ \E u \in PipeThreads : SemOf(u) = OtherSem(t) /\ tpc[u] \in {"loop", "copy"}

\* Whenever pi->lock is free or held, the counters and lists have their types and
\* nobody sleeps without a reason (pipe.c:64-143).
PipeInv == PipeTypeOK /\ SleepersHaveReason

\* A reader asleep while there is something to read is woken, unless the writers
\* leave, one of them is killed or an ASSERT stops the kernel.
DataWakesReader ==
    \A t \in Readers : (tpc[t] = "asleep" /\ ~twoken[t] /\ ~Empty) ~>
        (twoken[t] \/ panicked \/ ~Undisturbed(t))

\* "如果`pipe`为空并且writeopen不为0，则sleep，否则读完pipe" (pipe.c:105): with the
\* write end closed no read stays asleep.
EofWakesReaders ==
    \A t \in Readers : (tpc[t] = "asleep" /\ ~EndOpen("w")) ~> (twoken[t] \/ tpc[t] # "asleep" \/ panicked)
=============================================================================
