----------------------------- MODULE MCServices -----------------------------
(* The allocator, the address spaces, the console, the tree of timers and    *)
(* the message queues, each by itself: part says which one runs.             *)
EXTENDS PageAlloc, UserMemory, Console, RbTree, MsgQueue

VARIABLE part

\* Segments that begin and end inside of pages, a data segment with nothing in the
\* file, and a segment that execve does not load.
MCImages ==
  LET seg(flags, va, off, filesz, memsz) ==
        [type |-> "load", flags |-> flags, va |-> va, off |-> off, filesz |-> filesz, memsz |-> memsz]
  IN  {<<seg("rx", 3, 1, 4, 4), seg("rw", 9, 5, 2, 6)>>,
       <<[seg("rw", 0, 1, 1, 1) EXCEPT !.type = "note"], seg("rw", 4, 1, 0, 1)>>,
       <<seg("rx", 2, 1, 1, 1), [seg("rw", 5, 1, 1, 1) EXCEPT !.flags = "r"]>>}

MCRcvTypes == {-2, 0, 1}

ServicesInit ==
  /\ part \in {"memory", "user", "console", "timers", "msg"}
  /\ MemInit /\ UserInit /\ ConInit /\ RbInit /\ MsgInit
ServicesNext ==
  /\ UNCHANGED part
  /\ \/ part = "memory" /\ MemNext /\ UNCHANGED <<uservars, convars, rbvars, msgvars>>
     \/ part = "user" /\ UserNext /\ UNCHANGED <<memvars, convars, rbvars, msgvars>>
     \/ part = "console" /\ ConNext /\ UNCHANGED <<memvars, uservars, rbvars, msgvars>>
     \/ part = "timers" /\ RbNext /\ UNCHANGED <<memvars, uservars, convars, msgvars>>
     \/ part = "msg" /\ MsgNext /\ UNCHANGED <<memvars, uservars, convars, rbvars>>
ServicesSpec == ServicesInit /\ [][ServicesNext]_<<memvars, uservars, convars, rbvars, msgvars, part>>

\* The CPUs that allocate, the processes at the console and those that exchange
\* messages differ only in name.
ServicesSymmetry == Permutations(KCpus)
=============================================================================
