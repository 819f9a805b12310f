------------------------------ MODULE MCLocks -------------------------------
(* A sleep lock, and wait in a small process tree: what a process that is   *)
(* killed or posted to must leave; part says which.                         *)
EXTENDS SleepLock, ProcTree

VARIABLE part

LocksInit == part \in {"lock", "wait"} /\ LockInit /\ ProcInit
LocksNext ==
  \/ part = "lock" /\ LockNext /\ UNCHANGED <<procvars, part>>
  \/ part = "wait" /\ ProcNext /\ UNCHANGED <<lockvars, part>>
\* The fairness of each part; its actions are disabled while the other one runs.
LocksSpec ==
  /\ LocksInit /\ [][LocksNext]_<<lockvars, procvars, part>>
  /\ LockFairness /\ ProcFairness
=============================================================================
