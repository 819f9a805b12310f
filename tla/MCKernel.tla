------------------------------ MODULE MCKernel ------------------------------
(* The process tree, the scheduler and the semaphore, each by itself: part   *)
(* says which.                                                               *)
EXTENDS ProcTree, Sched, Semaphore, TLC

CONSTANTS p1, p2, p3, g0, g1, g2
VARIABLE part

\* One process beside a group that holds a group: p2 in g1, p3 in g2 inside g1.
MCGroupOf == p1 :> g0 @@ p2 :> g1 @@ p3 :> g2 @@ g1 :> g0 @@ g2 :> g1

KernelInit == part \in {"tree", "sched", "sem"} /\ ProcInit /\ SchedInit /\ Init
KernelNext ==
  \/ part = "tree" /\ ProcNext /\ UNCHANGED <<schedvars, vars, part>>
  \/ part = "sched" /\ SchedNext /\ UNCHANGED <<procvars, vars, part>>
  \/ part = "sem" /\ Next /\ UNCHANGED <<procvars, schedvars, part>>
KernelSpec == KernelInit /\ [][KernelNext]_<<procvars, schedvars, vars, part>>

\* Slots other than that of root_proc, and the users of the semaphore, differ
\* only in name.
KernelSymmetry == Permutations(Slots \ {RootProc}) \cup Permutations(Procs)
=============================================================================
