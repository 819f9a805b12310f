----------------------------- MODULE SleepLock -----------------------------
(***************************************************************************)
(* The sleep locks of blocks and inodes (src/common/sem.h): a semaphore    *)
(* that starts at 1, where only a process that holds the lock posts.       *)
(***************************************************************************)
EXTENDS Semaphore

ASSUME SleepLockAssumption == InitVal = 1 /\ MaxVal >= 1   \* init_sleeplock

VARIABLE holders   \* processes between a successful wait and their post

lockvars == <<vars, holders>>

LockInit == Init /\ holders = {}

\* acquire_sleeplock and unalertable_acquire_sleeplock.
AcquireFree(p) ==
  /\ p \notin holders
  /\ \E alertable \in BOOLEAN : WaitTake(p, alertable)
  /\ holders' = holders \cup {p}

AcquireWait(p) ==
  /\ p \notin holders
  /\ \E alertable \in BOOLEAN : WaitEnqueue(p, alertable)
  /\ UNCHANGED holders

AcquireSleep(p) == Sleep(p) /\ UNCHANGED holders

\* Mutant: the result of the wait is not looked at.
AcquireReturnIgnoresResult(p) == WaitReturn(p) /\ holders' = holders \cup {p}

\* Mutant: a process that was posted and killed takes the wait for a failure.
AcquireReturnKilledFails(p) ==
  /\ WaitReturn(p)
  /\ holders' = IF up[p] /\ ~killed[p] THEN holders \cup {p} ELSE holders

AcquireReturn(p) ==
  /\ WaitReturn(p)
  /\ holders' = IF up[p] THEN holders \cup {p} ELSE holders

\* release_sleeplock.
Release(p) ==
  /\ p \in holders
  /\ Post
  /\ holders' = holders \ {p}

LockKill(p) == Kill(p) /\ UNCHANGED holders

LockNext ==
  \E p \in Procs :
    \/ AcquireFree(p)
    \/ AcquireWait(p)
    \/ AcquireSleep(p)
    \/ AcquireReturn(p)
    \/ Release(p)
    \/ LockKill(p)

LockSpec == LockInit /\ [][LockNext]_lockvars

\* Every holder releases the lock, and a process that may run does.  Release is
\* strongly fair because it spins for the scheduler lock, which others take and
\* free again and again: it is assumed that the spinner gets it some time.
LockFairness ==
  \A p \in Procs :
    /\ WF_lockvars(AcquireSleep(p))
    /\ WF_lockvars(AcquireReturn(p))
    /\ SF_lockvars(Release(p))

LockFairSpec == LockSpec /\ LockFairness

(***************************************************************************)
(* Properties                                                              *)
(***************************************************************************)

\* The inductive invariant behind mutual exclusion: units are conserved, and a
\* process holds the lock exactly while it owes the unit it has taken.
LockInv ==
  /\ SemInv
  /\ UnitsConserved
  /\ holders \in SUBSET Procs
  /\ balance = -Cardinality(holders)
  /\ \A p \in holders : pc[p] = "idle"

\* At most one process is between acquire_sleeplock and release_sleeplock,
\* whatever waiters are killed while the lock is handed over.
MutualExclusion == \A p, q \in holders : p = q

\* A lock that nobody holds, and that no posted waiter is about to get, is
\* free: no sequence of kills and posts loses the lock.
LockNotLost == holders = {} /\ Posted = {} => val = 1

\* Nobody starves: the lock is handed over in the order of the sleep list, and
\* a newcomer cannot take it while there is a waiter.
AcquireReturns == \A p \in Procs : pc[p] # "idle" ~> pc[p] = "idle"
=============================================================================
