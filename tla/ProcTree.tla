------------------------------ MODULE ProcTree ------------------------------
(* The process tree of kernel/proc.c, its process ids (kernel/pid.c) and the  *)
(* containers that adopt orphans (kernel/container.c).                        *)
(*                                                                            *)
(* A process is a slot: the memory kalloc gave create_proc.  Only the tree    *)
(* lock plock and the semaphore childexit order the steps of different        *)
(* processes, so each step below is one critical section of plock (or of the  *)
(* semaphore's lock).  Page tables, files and the working directory, which    *)
(* fork copies and exit releases, are in other modules: of exit's release of  *)
(* them only the time it takes, with plock held, is here.                     *)
EXTENDS Integers, FiniteSets, FiniteSetsExt

CONSTANTS Slots,      \* struct proc objects; the kernel's root_proc is one of them
          RootProc,   \* root_proc
          Containers, \* containers, root_container among them
          RootCont,   \* root_container
          PidMax,     \* PID_MAX: ids are 1 .. PidMax - 1
          None        \* NULL

ASSUME ProcAssumption ==
    /\ RootProc \in Slots /\ RootCont \in Containers
    /\ None \notin Slots /\ None \notin Containers
    /\ IsFiniteSet(Slots) /\ PidMax \in Nat /\ PidMax > 1

VARIABLES
    pstate,     \* FREE (no such object), UNUSED, READY (runnable or running), SLEEPING, ZOMBIE
    ppc,        \* where the process stands in a system call
    parent,     \* proc->parent; the children list of p is the set of c with parent[c] = p
    container,  \* proc->container
    rootproc,   \* container->rootproc, None while the container does not exist
    pid,        \* proc->pid, -1 when there was none left
    localpid,   \* proc->localpid, 0 before start_proc, -1 when there was none left
    pidmap,     \* bits set in the global map
    localmap,   \* bits set in each container's localpidmap
    childexit,  \* the semaphore's val
    woken,      \* the sleeper on childexit was posted to
    pkilled,    \* proc->killed
    plock,      \* holder of plock between two steps
    making,     \* the child a process is creating
    foundNone   \* processes whose wait took a unit and returned 0

procvars == <<pstate, ppc, parent, container, rootproc, pid, localpid, pidmap,
              localmap, childexit, woken, pkilled, plock, making, foundNone>>

PStates == {"FREE", "UNUSED", "READY", "SLEEPING", "ZOMBIE"}
PPcs == {"user", "link", "start", "sem", "asleep", "reap", "closing", "exiting"}

Children(p) == {c \in Slots \ {RootProc} : parent[c] = p}
IsRootProc(p) == \E c \in Containers : rootproc[c] = p

\* What alloc_pid returns: the lowest clear bit from 1 on, -1 when there is none
\* (free_num starts at PID_MAX, one above the number of ids, and is never 0); and
\* the map it leaves.  No caller looks at the -1: it becomes the id, and free_pid of
\* it clears a bit of free_num, the word before the map, that is not set.
AllocPid(map) ==
    LET free == (1 .. PidMax - 1) \ map IN IF free = {} THEN -1 ELSE Min(free)
AllocMap(map) == map \cup ({AllocPid(map)} \ {-1})

ProcInit ==
    /\ pstate = [p \in Slots |-> IF p = RootProc THEN "READY" ELSE "FREE"]
    /\ ppc = [p \in Slots |-> "user"]
    /\ parent = [p \in Slots |-> IF p = RootProc THEN RootProc ELSE None]
    /\ container = [p \in Slots |-> RootCont]
    /\ rootproc = [c \in Containers |-> IF c = RootCont THEN RootProc ELSE None]
    /\ pid = [p \in Slots |-> IF p = RootProc THEN 1 ELSE 0]
    /\ localpid = [p \in Slots |-> IF p = RootProc THEN 1 ELSE 0]
    /\ pidmap = {1}
    /\ localmap = [c \in Containers |-> IF c = RootCont THEN {1} ELSE {}]
    /\ childexit = [p \in Slots |-> 0]
    /\ woken = [p \in Slots |-> FALSE]
    /\ pkilled = [p \in Slots |-> FALSE]
    /\ plock = None
    /\ making = [p \in Slots |-> None]
    /\ foundNone = {}

\* A process in user mode runs its next system call; the trap handler sends a
\* killed one to exit instead, except the kernel threads at the container roots.
MayCall(p) ==
    /\ pstate[p] = "READY" /\ ppc[p] = "user"
    /\ ~pkilled[p] \/ IsRootProc(p)

-----------------------------------------------------------------------------
(* fork and create_container: create_proc, then the tree, then start_proc.    *)

\* create_proc and init_proc, for p, on a slot that kalloc returns; the child will
\* be in container k and has its parent's killed flag or not.
CreateProc(p, k, kill) ==
    /\ MayCall(p)
    /\ \E c \in Slots :
        /\ pstate[c] = "FREE"
        /\ pstate' = [pstate EXCEPT ![c] = "UNUSED"]
        /\ pid' = [pid EXCEPT ![c] = AllocPid(pidmap)]
        /\ pidmap' = AllocMap(pidmap)
        /\ localpid' = [localpid EXCEPT ![c] = 0]
        /\ childexit' = [childexit EXCEPT ![c] = 0]
        /\ pkilled' = [pkilled EXCEPT ![c] = kill]
        /\ container' = [container EXCEPT ![c] = k]
        /\ rootproc' = [rootproc EXCEPT ![k] = IF @ = None THEN c ELSE @]
        /\ ppc' = [ppc EXCEPT ![p] = "link", ![c] = "user"]
        /\ making' = [making EXCEPT ![p] = c]
    /\ UNCHANGED <<parent, localmap, woken, plock, foundNone>>

\* fork (and create_user_proc) stays in the container, and copies killed.
Fork(p) == CreateProc(p, container[p], pkilled[p])

\* create_container makes the container whose rootproc the child will be.  Its only
\* callers are kernel threads that are themselves a rootproc.
CreateContainer(p) ==
    IsRootProc(p) /\ \E k \in Containers : rootproc[k] = None /\ CreateProc(p, k, FALSE)

SetParentToThis(p) ==
    /\ ppc[p] = "link" /\ plock = None
    /\ parent' = [parent EXCEPT ![making[p]] = p]
    /\ ppc' = [ppc EXCEPT ![p] = "start"]
    /\ UNCHANGED <<pstate, container, rootproc, pid, localpid, pidmap, localmap,
                   childexit, woken, pkilled, plock, making, foundNone>>

\* A child that nobody has linked goes to root_proc.
StartProc(p) ==
    /\ ppc[p] = "start"
    /\ LET c == making[p]
           k == container[c] IN
        /\ localpid' = [localpid EXCEPT ![c] = AllocPid(localmap[k])]
        /\ localmap' = [localmap EXCEPT ![k] = AllocMap(@)]
        /\ pstate' = [pstate EXCEPT ![c] = "READY"]
        /\ parent' = [parent EXCEPT ![c] = IF @ = None THEN RootProc ELSE @]
    /\ making' = [making EXCEPT ![p] = None]
    /\ ppc' = [ppc EXCEPT ![p] = "user"]
    /\ UNCHANGED <<container, rootproc, pid, pidmap, childexit, woken, pkilled, plock,
                   foundNone>>

-----------------------------------------------------------------------------
(* exit, wait and kill.                                                       *)

\* post_sem on the childexit of each q, n[q] times: the units, and the wake-up of
\* q if q sleeps on it.
Sleeps(q) == ppc[q] = "asleep" /\ ~woken[q]

PostChildexit(n) ==
    /\ childexit' = [q \in Slots |-> childexit[q] + n[q]]
    /\ woken' = [q \in Slots |-> woken[q] \/ (n[q] > 0 /\ Sleeps(q))]
    /\ pstate' = [q \in Slots |->
                    IF Sleeps(q) /\ woken'[q] /\ pstate[q] = "SLEEPING" THEN "READY" ELSE pstate[q]]

\* Mutant of ExitBegin: plock released before the state changes.
ExitUnlocksEarly(p) ==
    LET heir(c) == rootproc[container[c]]
        news(q) == Cardinality({c \in Children(p) : heir(c) = q /\ pstate[c] = "ZOMBIE"})
    IN  /\ pstate[p] = "READY" /\ ppc[p] = "user" /\ ~IsRootProc(p) /\ plock = None
        /\ parent' = [c \in Slots |-> IF c \in Children(p) THEN heir(c) ELSE parent[c]]
        /\ PostChildexit([q \in Slots |-> news(q)])
        /\ ppc' = [ppc EXCEPT ![p] = "closing"]
        /\ plock' = None
        /\ UNCHANGED <<container, rootproc, pid, localpid, pidmap, localmap, pkilled,
                       making, foundNone>>

\* exit as far as the files: the children go to the rootproc of their own
\* container, which is told of those that are zombies; plock stays held.
ExitBegin(p) ==
    LET heir(c) == rootproc[container[c]]
        news(q) == Cardinality({c \in Children(p) : heir(c) = q /\ pstate[c] = "ZOMBIE"})
    IN  /\ pstate[p] = "READY" /\ ppc[p] = "user" /\ ~IsRootProc(p) /\ plock = None
        /\ parent' = [c \in Slots |-> IF c \in Children(p) THEN heir(c) ELSE parent[c]]
        /\ PostChildexit([q \in Slots |-> news(q)])
        /\ ppc' = [ppc EXCEPT ![p] = "closing"]
        /\ plock' = p
        /\ UNCHANGED <<container, rootproc, pid, localpid, pidmap, localmap, pkilled,
                       making, foundNone>>

\* The files and the working directory are released, which sleeps under plock; for
\* a killed process it may fail an ASSERT (its unalertable waits return at once) or
\* not return at all, so nothing says that this step comes.  Then the parent is told.
ExitPost(p) ==
    /\ ppc[p] = "closing"
    /\ PostChildexit([q \in Slots |-> IF q = parent[p] THEN 1 ELSE 0])
    /\ ppc' = [ppc EXCEPT ![p] = "exiting"]
    /\ UNCHANGED <<parent, container, rootproc, pid, localpid, pidmap, localmap, pkilled,
                   plock, making, foundNone>>

\* _sched(ZOMBIE): plock is released only once the scheduler's lock is held.
ExitSched(p) ==
    /\ ppc[p] = "exiting"
    /\ pstate' = [pstate EXCEPT ![p] = "ZOMBIE"]
    /\ plock' = None
    /\ ppc' = [ppc EXCEPT ![p] = "user"]
    /\ UNCHANGED <<parent, container, rootproc, pid, localpid, pidmap, localmap,
                   childexit, woken, pkilled, making, foundNone>>

\* wait looks at its children list without plock; with none it returns -1.
WaitCall(p) ==
    /\ MayCall(p)
    /\ Children(p) # {}
    /\ ppc' = [ppc EXCEPT ![p] = "sem"]
    /\ UNCHANGED <<pstate, parent, container, rootproc, pid, localpid, pidmap, localmap,
                   childexit, woken, pkilled, plock, making, foundNone>>

\* Mutant of WaitSem: a process killed before it sleeps goes to sleep all the same.
WaitSemSleepsKilled(p) ==
    /\ ppc[p] = "sem"
    /\ childexit' = [childexit EXCEPT ![p] = @ - 1]
    /\ woken' = [woken EXCEPT ![p] = FALSE]
    /\ IF childexit[p] > 0
       THEN ppc' = [ppc EXCEPT ![p] = "reap"] /\ UNCHANGED pstate
       ELSE /\ ppc' = [ppc EXCEPT ![p] = "asleep"]
            /\ pstate' = [pstate EXCEPT ![p] = "SLEEPING"]
    /\ UNCHANGED <<parent, container, rootproc, pid, localpid, pidmap, localmap,
                   pkilled, plock, making, foundNone>>

\* wait_sem(&this->childexit): a killed process is not put to sleep.
WaitSem(p) ==
    /\ ppc[p] = "sem"
    /\ childexit' = [childexit EXCEPT ![p] = @ - 1]
    /\ woken' = [woken EXCEPT ![p] = FALSE]
    /\ IF childexit[p] > 0
       THEN ppc' = [ppc EXCEPT ![p] = "reap"] /\ UNCHANGED pstate
       ELSE /\ ppc' = [ppc EXCEPT ![p] = "asleep"]
            /\ pstate' = [pstate EXCEPT ![p] = IF pkilled[p] THEN "READY" ELSE "SLEEPING"]
    /\ UNCHANGED <<parent, container, rootproc, pid, localpid, pidmap, localmap,
                   pkilled, plock, making, foundNone>>

\* wait_sem returns: posted to, or alerted by kill.
WaitWake(p) ==
    /\ ppc[p] = "asleep" /\ pstate[p] = "READY"
    /\ ppc' = [ppc EXCEPT ![p] = IF woken[p] THEN "reap" ELSE "user"]
    /\ childexit' = [childexit EXCEPT ![p] = IF woken[p] THEN @ ELSE @ + 1]
    /\ woken' = [woken EXCEPT ![p] = FALSE]
    /\ UNCHANGED <<pstate, parent, container, rootproc, pid, localpid, pidmap, localmap,
                   pkilled, plock, making, foundNone>>

\* kfree: what the object held means nothing any more.
Free(c) ==
    /\ pstate' = [pstate EXCEPT ![c] = "FREE"]
    /\ pid' = [pid EXCEPT ![c] = 0]
    /\ localpid' = [localpid EXCEPT ![c] = 0]
    /\ container' = [container EXCEPT ![c] = RootCont]
    /\ childexit' = [childexit EXCEPT ![c] = 0]
    /\ pkilled' = [pkilled EXCEPT ![c] = FALSE]

\* Mutant of WaitReap: the container's map keeps the id.
WaitReapKeepsLocal(p) ==
    LET zombies == {c \in Children(p) : pstate[c] = "ZOMBIE"} IN
    /\ ppc[p] = "reap" /\ plock = None
    /\ ppc' = [ppc EXCEPT ![p] = "user"]
    /\ \/ /\ zombies = {}
          /\ foundNone' = foundNone \cup {p}
          /\ UNCHANGED <<pstate, parent, pid, localpid, pidmap, localmap, container, childexit, pkilled>>
       \/ \E c \in zombies :
            /\ UNCHANGED localmap
            /\ pidmap' = pidmap \ {pid[c]}
            /\ parent' = [parent EXCEPT ![c] = None]
            /\ Free(c)
            /\ UNCHANGED foundNone
    /\ UNCHANGED <<rootproc, woken, plock, making>>

\* The rest of wait: the first zombie of the children list (any one of them
\* here) gives back both its ids and its memory; 0 is returned if there is none.
WaitReap(p) ==
    LET zombies == {c \in Children(p) : pstate[c] = "ZOMBIE"} IN
    /\ ppc[p] = "reap" /\ plock = None
    /\ ppc' = [ppc EXCEPT ![p] = "user"]
    /\ \/ /\ zombies = {}
          /\ foundNone' = foundNone \cup {p}
          /\ UNCHANGED <<pstate, parent, pid, localpid, pidmap, localmap, container, childexit, pkilled>>
       \/ \E c \in zombies :
            /\ localmap' = [localmap EXCEPT ![container[c]] = @ \ {localpid[c]}]
            /\ pidmap' = pidmap \ {pid[c]}
            /\ parent' = [parent EXCEPT ![c] = None]
            /\ Free(c)
            /\ UNCHANGED foundNone
    /\ UNCHANGED <<rootproc, woken, plock, making>>

\* traverse_proc descends the children lists from root_proc: it finds t when the
\* parents of t lead up to root_proc (which is its own parent).
TraverseFinds(t) ==
    LET Parent(q) == IF q = None THEN None ELSE parent[q]
        above[n \in Nat] == IF n = 0 THEN t ELSE Parent(above[n - 1])
    IN  t # RootProc /\ above[Cardinality(Slots)] = RootProc

\* kill finds the process in the tree; alert_proc wakes it from SLEEPING only.
KillProc(t) ==
    /\ plock = None
    /\ TraverseFinds(t) /\ pstate[t] # "UNUSED"
    /\ pkilled' = [pkilled EXCEPT ![t] = TRUE]
    /\ pstate' = [pstate EXCEPT ![t] = IF @ = "SLEEPING" THEN "READY" ELSE @]
    /\ UNCHANGED <<ppc, parent, container, rootproc, pid, localpid, pidmap, localmap,
                   childexit, woken, plock, making, foundNone>>

ProcStep(p) ==
    \/ Fork(p) \/ CreateContainer(p) \/ SetParentToThis(p) \/ StartProc(p)
    \/ ExitBegin(p) \/ ExitPost(p) \/ ExitSched(p)
    \/ WaitCall(p) \/ WaitSem(p) \/ WaitWake(p) \/ WaitReap(p)

ProcNext == \E p \in Slots : ProcStep(p) \/ KillProc(p)

ProcSpec == ProcInit /\ [][ProcNext]_procvars

\* Every ready process is scheduled, and a spinning plock waiter gets a lock that
\* is free again and again.  ExitPost has no fairness.
ProcFairness ==
    \A p \in Slots :
        /\ WF_procvars(StartProc(p) \/ ExitSched(p) \/ WaitSem(p) \/ WaitWake(p))
        /\ SF_procvars(SetParentToThis(p) \/ WaitReap(p) \/ (pkilled[p] /\ ExitBegin(p)))

ProcFairSpec == ProcSpec /\ ProcFairness
-----------------------------------------------------------------------------
(* Properties.                                                                *)

\* Type invariant; alloc_pid hands out ids within the map (pid.c:12).
ProcTypeOK ==
    /\ pstate \in [Slots -> PStates] /\ ppc \in [Slots -> PPcs]
    /\ parent \in [Slots -> Slots \cup {None}]
    /\ container \in [Slots -> Containers]
    /\ rootproc \in [Containers -> Slots \cup {None}]
    /\ pid \in [Slots -> -1 .. PidMax - 1] /\ localpid \in [Slots -> -1 .. PidMax - 1]
    /\ pidmap \subseteq 1 .. PidMax - 1
    /\ localmap \in [Containers -> SUBSET (1 .. PidMax - 1)]
    /\ childexit \in [Slots -> Int]
    /\ woken \in [Slots -> BOOLEAN] /\ pkilled \in [Slots -> BOOLEAN]
    /\ plock \in Slots \cup {None} /\ making \in [Slots -> Slots \cup {None}]
    /\ foundNone \subseteq Slots

\* The units of childexit are the children still to be reaped: exit (proc.c:62
\* and 82) posts once for each child that becomes, or is handed over as, a
\* zombie, and a wait that took a unit (or is about to be given one) reaps one.
\* A process asleep in wait has no zombie child.
ChildexitCountsZombies ==
    \A p \in Slots : pstate[p] \notin {"FREE", "ZOMBIE"} /\ ppc[p] \notin {"closing", "exiting"} =>
        LET dead == {c \in Children(p) : pstate[c] = "ZOMBIE" \/ ppc[c] = "exiting"} IN
        /\ Cardinality(dead) = childexit[p] + (IF ppc[p] \in {"asleep", "reap"} THEN 1 ELSE 0)
        /\ Sleeps(p) => dead = {}

\* A wait whose wait_sem succeeded finds a zombie: it never returns 0
\* (proc.c:109), although exit posts before the state becomes ZOMBIE.
WaitFindsZombie == foundNone = {}

\* The global map holds exactly the ids of the existing processes and the map of
\* each container those of its started processes, and no id is used twice: wait
\* gives back both ids of the zombie before its memory (proc.c:126).  The processes
\* made while no id was left are outside it: they share the -1 that alloc_pid
\* returned (pid.c:28) and that fork, start_proc and wait pass on unchecked.
IdsExact ==
    LET live == {p \in Slots : pstate[p] # "FREE"}
        numbered == {p \in live : pid[p] # -1}
        started(k) == {p \in live : container[p] = k /\ pstate[p] # "UNUSED" /\ localpid[p] # -1} IN
    /\ pidmap = {pid[p] : p \in numbered} /\ Cardinality(pidmap) = Cardinality(numbered)
    /\ \A k \in Containers :
        /\ localmap[k] = {localpid[p] : p \in started(k)}
        /\ Cardinality(localmap[k]) = Cardinality(started(k))

\* kill's walk reaches every started process: whatever exits, the children lists
\* still lead from root_proc to each of them (proc.c:52 hands orphans over under
\* plock).  kill stops at the first process with the id it looks for, which is the
\* one meant unless the id is the -1 that IdsExact leaves out.
EveryProcReachable ==
    \A p \in Slots \ {RootProc} : pstate[p] \in {"READY", "SLEEPING", "ZOMBIE"} => TraverseFinds(p)

\* wait and exit agree on the zombies, by number and by what the woken parent finds.
ZombiesAwaited == WaitFindsZombie /\ ChildexitCountsZombies

\* The process tree as every step of fork, start, kill, exit and wait leaves it:
\* types, ids and reachability together.
ProcTreeInv == ProcTypeOK /\ IdsExact /\ EveryProcReachable

\* As long as plock keeps being released, a killed process that is not a
\* container's root becomes a zombie (or has been reaped): a sleep in wait, or one
\* it was about to begin, is cut short (sched.c:241).  The condition is one on exit:
\* a process that fails an ASSERT of cache.c:165-262 or hangs in end_op while it
\* releases its files (proc.c:67-80) keeps plock, and then nobody can exit.
KilledDies ==
    []<>(plock = None) =>
        \A p \in Slots : (pkilled[p] /\ ~IsRootProc(p) /\ pstate[p] \notin {"FREE", "UNUSED"})
                            ~> (pstate[p] \in {"ZOMBIE", "FREE"})
=============================================================================
