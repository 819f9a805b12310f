------------------------------- MODULE InodeSem -------------------------------
(* The lock of one inode.  inode_lock waits on its semaphore the way every    *)
(* sleep lock does, under sem->lock.  inode_unlock calls _post_sem without    *)
(* sem->lock (fs/inode.c), so the accesses to sem->val and to the list of the *)
(* two interleave: here a step is one of these accesses, and the scheduler    *)
(* lock, which both take, makes going to sleep and activation one step each.  *)
EXTENDS ListOps, FiniteSets

CONSTANT LockUsers  \* processes that lock and unlock the inode

VARIABLES
    ival,    \* inode->lock.val
    ilist,   \* inode->lock.sleeplist, the oldest waiter first
    ispin,   \* who holds inode->lock.lock, as a set
    at,      \* where each process is
    reg,     \* the value of val it has loaded
    iup,     \* wait->up
    awake    \* it can run: not DEEPSLEEPING

ivars == <<ival, ilist, ispin, at, reg, iup, awake>>

InodeSemInit ==
    /\ ival = 1 /\ ilist = <<>> /\ ispin = {}
    /\ at = [p \in LockUsers |-> "idle"] /\ reg = [p \in LockUsers |-> 0]
    /\ iup = [p \in LockUsers |-> FALSE] /\ awake = [p \in LockUsers |-> TRUE]

-----------------------------------------------------------------------------
(* inode_lock: --sem->val, and the wait, under sem->lock.                     *)
LockLoad(p) ==
    /\ at[p] = "idle" /\ ispin = {}
    /\ ispin' = {p} /\ reg' = [reg EXCEPT ![p] = ival] /\ at' = [at EXCEPT ![p] = "dec"]
    /\ UNCHANGED <<ival, ilist, iup, awake>>
LockStore(p) ==
    /\ at[p] = "dec"
    /\ ival' = reg[p] - 1
    /\ IF reg[p] - 1 >= 0 THEN ispin' = {} /\ at' = [at EXCEPT ![p] = "inside"]
                          ELSE ispin' = ispin /\ at' = [at EXCEPT ![p] = "insert"]
    /\ UNCHANGED <<ilist, reg, iup, awake>>
LockInsert(p) ==
    /\ at[p] = "insert"
    /\ ilist' = Append(ilist, p) /\ iup' = [iup EXCEPT ![p] = FALSE]
    /\ at' = [at EXCEPT ![p] = "sched"]
    /\ UNCHANGED <<ival, ispin, reg, awake>>
LockSleep(p) ==
    /\ at[p] = "sched"
    /\ ispin' = {} /\ awake' = [awake EXCEPT ![p] = FALSE] /\ at' = [at EXCEPT ![p] = "asleep"]
    /\ UNCHANGED <<ival, ilist, reg, iup>>
LockWoken(p) ==
    /\ at[p] = "asleep" /\ awake[p] /\ iup[p] /\ ispin = {}
    /\ at' = [at EXCEPT ![p] = "inside"]
    /\ UNCHANGED <<ival, ilist, ispin, reg, iup, awake>>

(* inode_unlock: _post_sem, without sem->lock.                                *)
UnlockLoad(p) ==
    /\ at[p] = "inside"
    /\ reg' = [reg EXCEPT ![p] = ival] /\ at' = [at EXCEPT ![p] = "inc"]
    /\ UNCHANGED <<ival, ilist, ispin, iup, awake>>
UnlockStore(p) ==
    /\ at[p] = "inc"
    /\ ival' = reg[p] + 1
    /\ at' = [at EXCEPT ![p] = IF reg[p] + 1 <= 0 THEN "wake" ELSE "idle"]
    /\ UNCHANGED <<ilist, ispin, reg, iup, awake>>
UnlockWake(p) ==
    /\ at[p] = "wake" /\ ilist # <<>>
    /\ iup' = [iup EXCEPT ![ilist[1]] = TRUE] /\ ilist' = Detach(ilist, ilist[1])
    /\ awake' = [awake EXCEPT ![ilist[1]] = TRUE]
    /\ at' = [at EXCEPT ![p] = "idle"]
    /\ UNCHANGED <<ival, ispin, reg>>

InodeSemNext ==
    \E p \in LockUsers :
        \/ LockLoad(p) \/ LockStore(p) \/ LockInsert(p) \/ LockSleep(p) \/ LockWoken(p)
        \/ UnlockLoad(p) \/ UnlockStore(p) \/ UnlockWake(p)

InodeSemSpec == InodeSemInit /\ [][InodeSemNext]_ivars

-----------------------------------------------------------------------------
\* What _post_sem asserts when it finds val negative (sem.c:95): somebody is on
\* the list.  It needs the lock of the semaphore: a waiter that has taken val below
\* zero and is not on the list yet makes the assertion fail.
PostFindsWaiter == \A p \in LockUsers : at[p] = "wake" => ilist # <<>>
=============================================================================
