--------------------------- MODULE ProcTreeProofs ---------------------------
(***************************************************************************)
(* The inductive invariant of the process tree: kill, exit, wait, fork and *)
(* the creation of containers keep it, for any number of processes and     *)
(* containers; what it means for wait and for kill's walk up the tree.     *)
(***************************************************************************)
EXTENDS ProcTree, DataLemmas

Alive(p) == pstate[p] \in {"READY", "SLEEPING"} /\ ppc[p] \notin {"closing", "exiting"}
Creating(p) == ppc[p] \in {"link", "start"}

\* A process is in a system call only while it can run or sleeps in it.
CallsMatchStates ==
    \A p \in Slots :
        /\ pstate[p] \in {"FREE", "UNUSED", "ZOMBIE"} => ppc[p] = "user"
        /\ pstate[p] = "SLEEPING" => ppc[p] = "asleep" /\ ~woken[p]
        /\ woken[p] => ppc[p] = "asleep"

\* exit holds plock from its first look at the tree until the process is a zombie.
ExitHoldsLock == \A p \in Slots : ppc[p] \in {"closing", "exiting"} <=> plock = p

\* The child being created belongs to one creator, is not started, and has no
\* parent before set_parent_to_this and its creator after it.
ChildrenInTheMaking ==
    /\ \A p \in Slots : Creating(p) =>
        /\ making[p] \in Slots \ {RootProc} /\ pstate[making[p]] = "UNUSED"
        /\ parent[making[p]] = IF ppc[p] = "link" THEN None ELSE p
        /\ IsRootProc(making[p]) => IsRootProc(p)
    /\ \A p, q \in Slots : Creating(p) /\ Creating(q) /\ making[p] = making[q] => p = q

\* A container that exists has a root process, in it, that never exits; whoever
\* else is in the container was forked after the root process was started.  The
\* parents of root processes are root processes.
RootsStay ==
    /\ rootproc[RootCont] = RootProc
    /\ \A k \in Containers : rootproc[k] # None =>
        /\ container[rootproc[k]] = k
        /\ pstate[rootproc[k]] \in {"UNUSED", "READY", "SLEEPING"} /\ ppc[rootproc[k]] \notin {"closing", "exiting"}
    /\ \A p \in Slots : pstate[p] # "FREE" =>
        /\ rootproc[container[p]] # None
        /\ p # rootproc[container[p]] => Alive(rootproc[container[p]])
    /\ \A p \in Slots : IsRootProc(p) /\ parent[p] # None => IsRootProc(parent[p])

\* A parent is alive: exit has handed every child over.
ParentsAlive ==
    /\ parent[RootProc] = RootProc /\ Alive(RootProc)
    /\ \A p \in Slots : parent[p] # None => Alive(parent[p]) /\ pstate[p] # "FREE"
    /\ \A p \in Slots : pstate[p] \in {"READY", "SLEEPING", "ZOMBIE"} => parent[p] # None

\* From any set of processes without root_proc some parent leads out.
NoCycle == \A S \in SUBSET (Slots \ {RootProc}) : S # {} => \E p \in S : parent[p] \notin S

\* The ids in the maps are those of the processes that got one, each of one process.
Live == {p \in Slots : pstate[p] # "FREE" /\ pid[p] # -1}
StartedIn(k) == {p \in Slots : pstate[p] # "FREE" /\ container[p] = k /\ pstate[p] # "UNUSED" /\ localpid[p] # -1}
IdsDistinct ==
    /\ pidmap = {pid[p] : p \in Live}
    /\ \A p, q \in Live : pid[p] = pid[q] => p = q
    /\ \A k \in Containers :
        /\ localmap[k] = {localpid[p] : p \in StartedIn(k)}
        /\ \A p, q \in StartedIn(k) : localpid[p] = localpid[q] => p = q

\* A wait that has its unit, or has been posted to, has a zombie to find.
UnitForReaper == \A p \in Slots : ppc[p] = "reap" \/ woken[p] => childexit[p] >= 0

TreeShape ==
    /\ ExitHoldsLock /\ ChildrenInTheMaking /\ RootsStay /\ ParentsAlive /\ NoCycle /\ IdsDistinct

TreeInd ==
    /\ ProcTypeOK /\ CallsMatchStates /\ TreeShape
    /\ UnitForReaper /\ WaitFindsZombie /\ ChildexitCountsZombies

-----------------------------------------------------------------------------
(* The steps of wait and kill that leave the tree alone.                      *)

\* The children of a process that its wait will find, or are about to be zombies.
Dead(p) == {c \in Children(p) : pstate[c] = "ZOMBIE" \/ ppc[c] = "exiting"}
Counted(p) ==
    /\ Cardinality(Dead(p)) = childexit[p] + (IF ppc[p] \in {"asleep", "reap"} THEN 1 ELSE 0)
    /\ Sleeps(p) => Dead(p) = {}

\* ChildexitCountsZombies, said of each process by Counted.
LEMMA CountsAre ==
  ChildexitCountsZombies <=>
    \A p \in Slots : pstate[p] \notin {"FREE", "ZOMBIE"} /\ ppc[p] \notin {"closing", "exiting"} => Counted(p)
BY Zenon DEF ChildexitCountsZombies, Counted, Dead

\* A step of wait or kill: only who runs, and how far its wait has come, changes.
Quiet ==
    /\ UNCHANGED <<parent, container, rootproc, pid, localpid, pidmap, localmap, plock, making>>
    /\ pstate' \in [Slots -> PStates] /\ ppc' \in [Slots -> PPcs]
    /\ \A q \in Slots :
        /\ pstate'[q] = pstate[q] \/ {pstate[q], pstate'[q]} \subseteq {"READY", "SLEEPING"}
        /\ ppc'[q] = ppc[q] \/ {ppc[q], ppc'[q]} \subseteq {"user", "sem", "asleep", "reap"}

\* Such a step leaves the tree, its lock, the ids and the children to reap as they are.
LEMMA QuietKeepsShape ==
  ASSUME TreeShape, ProcTypeOK, Quiet
  PROVE  TreeShape' /\ \A q \in Slots : Dead(q)' = Dead(q)
<1>1. \A q \in Slots : /\ Alive(q)' <=> Alive(q)
                       /\ Creating(q)' <=> Creating(q)
                       /\ pstate'[q] = "FREE" <=> pstate[q] = "FREE"
                       /\ pstate'[q] = "UNUSED" <=> pstate[q] = "UNUSED"
                       /\ pstate'[q] = "ZOMBIE" <=> pstate[q] = "ZOMBIE"
                       /\ ppc'[q] = "closing" <=> ppc[q] = "closing"
                       /\ ppc'[q] = "exiting" <=> ppc[q] = "exiting"
                       /\ ppc'[q] = "link" <=> ppc[q] = "link"
  BY Zenon DEF Quiet, Alive, Creating, ProcTypeOK
<1>2. /\ parent' = parent /\ container' = container /\ rootproc' = rootproc
      /\ plock' = plock /\ making' = making /\ pid' = pid /\ localpid' = localpid
      /\ pidmap' = pidmap /\ localmap' = localmap
  BY Zenon DEF Quiet
<1>3. \A q \in Slots : IsRootProc(q)' <=> IsRootProc(q)
  BY Zenon, <1>2 DEF IsRootProc
<1>4. ExitHoldsLock'
  BY Zenon, <1>1, <1>2 DEF TreeShape, ExitHoldsLock
<1>5. ChildrenInTheMaking'
  BY Zenon, <1>1, <1>2, <1>3 DEF TreeShape, ChildrenInTheMaking
<1>6. RootsStay'
  <2>1. RootsStay /\ container \in [Slots -> Containers] /\ rootproc \in [Containers -> Slots \cup {None}]
    BY Zenon DEF TreeShape, ProcTypeOK
  <2>2. \A q \in Slots : pstate'[q] \in {"UNUSED", "READY", "SLEEPING"} <=> pstate[q] \in {"UNUSED", "READY", "SLEEPING"}
    BY Zenon, <1>1 DEF Quiet, ProcTypeOK
  <2>3. \A k \in Containers : rootproc[k] # None => rootproc[k] \in Slots
    BY Zenon, <2>1
  <2>4. \A q \in Slots : container[q] \in Containers
    BY Zenon, <2>1
  <2>5. \A q \in Slots : IsRootProc(q)' /\ parent'[q] # None => IsRootProc(parent[q])'
    BY Zenon, <1>2, <1>3, <2>1 DEF RootsStay, IsRootProc
  <2> QED
    BY <1>1, <1>2, <2>1, <2>2, <2>3, <2>4, <2>5 DEF RootsStay
<1>7. ParentsAlive'
  <2>1. ParentsAlive /\ RootProc \in Slots /\ \A q \in Slots : parent[q] # None => parent[q] \in Slots
    BY Zenon, ProcAssumption DEF TreeShape, ProcTypeOK
  <2>2. \A q \in Slots : pstate'[q] \in {"READY", "SLEEPING", "ZOMBIE"} <=> pstate[q] \in {"READY", "SLEEPING", "ZOMBIE"}
    BY Zenon, <1>1 DEF Quiet, ProcTypeOK
  <2>3. Alive(RootProc)' /\ parent'[RootProc] = RootProc
    BY Zenon, <1>1, <1>2, <2>1 DEF ParentsAlive
  <2>4. \A q \in Slots : parent'[q] # None => Alive(parent[q])' /\ pstate'[q] # "FREE"
    BY Zenon, <1>1, <1>2, <2>1 DEF ParentsAlive
  <2> QED
    BY Zenon, <1>2, <2>1, <2>2, <2>3, <2>4 DEF ParentsAlive
<1>8. NoCycle'
  BY Zenon, <1>2 DEF TreeShape, NoCycle
<1>9. IdsDistinct'
  <2>1. Live' = Live
    BY Zenon, <1>1, <1>2 DEF Live
  <2>2. \A k : StartedIn(k)' = StartedIn(k)
    BY Zenon, <1>1, <1>2 DEF StartedIn
  <2> QED
    BY <1>2, <2>1, <2>2 DEF TreeShape, IdsDistinct
<1>10. \A q \in Slots : Dead(q)' = Dead(q)
  BY Zenon, <1>1, <1>2 DEF Dead, Children
<1> QED
  BY Zenon, <1>4, <1>5, <1>6, <1>7, <1>8, <1>9, <1>10 DEF TreeShape

\* wait, its wait_sem and the return from it.
LEMMA WaitCallKeeps == ASSUME TreeInd, NEW p \in Slots, WaitCall(p) PROVE TreeInd'
<1> USE DEF TreeInd
<1>1. ppc' = [ppc EXCEPT ![p] = "sem"] /\ ppc[p] = "user" /\ pstate[p] = "READY"
  BY Zenon DEF WaitCall, MayCall
<1>2. ProcTypeOK'
  BY Zenon, <1>1 DEF ProcTypeOK, WaitCall, PPcs
<1>3. Quiet
  BY Zenon, <1>1, <1>2 DEF Quiet, WaitCall, ProcTypeOK
<1>4. TreeShape' /\ \A q \in Slots : Dead(q)' = Dead(q)
  BY Zenon, <1>3, QuietKeepsShape
<1>5. CallsMatchStates'
  BY Zenon, <1>1 DEF CallsMatchStates, WaitCall, ProcTypeOK
<1>6. UnitForReaper' /\ WaitFindsZombie'
  BY Zenon, <1>1 DEF UnitForReaper, WaitFindsZombie, WaitCall, ProcTypeOK
<1>7. ChildexitCountsZombies'
  <2>1. ASSUME NEW q \in Slots, pstate'[q] \notin {"FREE", "ZOMBIE"} /\ ppc'[q] \notin {"closing", "exiting"} PROVE Counted(q)'
    <3>1. pstate[q] \notin {"FREE", "ZOMBIE"} /\ ppc[q] \notin {"closing", "exiting"}
      BY Zenon, <1>1, <2>1 DEF WaitCall, ProcTypeOK
    <3>2. Counted(q)
      BY Zenon, <3>1, CountsAre
    <3> QED
      BY Zenon, <1>1, <1>4, <3>2 DEF Counted, WaitCall, ProcTypeOK, Sleeps
  <2> QED
    BY Zenon, <2>1, CountsAre DEF ChildexitCountsZombies, Counted, Dead
<1> QED
  BY Zenon, <1>2, <1>4, <1>5, <1>6, <1>7

\* The unit is taken or the process sleeps; it finds no zombie child then.
LEMMA WaitSemKeeps == ASSUME TreeInd, NEW p \in Slots, WaitSem(p) PROVE TreeInd'
<1> USE DEF TreeInd
<1>1. ppc[p] = "sem" /\ pstate[p] = "READY"
  <2>1. ppc[p] = "sem"
    BY Zenon DEF WaitSem
  <2> QED
    BY Zenon, <2>1 DEF CallsMatchStates, ProcTypeOK, PStates
<1>2. /\ childexit' = [childexit EXCEPT ![p] = @ - 1] /\ woken' = [woken EXCEPT ![p] = FALSE]
      /\ \/ childexit[p] > 0 /\ ppc' = [ppc EXCEPT ![p] = "reap"] /\ pstate' = pstate
         \/ /\ ~(childexit[p] > 0) /\ ppc' = [ppc EXCEPT ![p] = "asleep"]
            /\ \E s \in {"READY", "SLEEPING"} : pstate' = [pstate EXCEPT ![p] = s]
      /\ UNCHANGED <<parent, container, rootproc, pid, localpid, pidmap, localmap, pkilled, plock, making, foundNone>>
  BY Zenon DEF WaitSem
<1>3. ProcTypeOK'
  <2>1. pstate' \in [Slots -> PStates] /\ ppc' \in [Slots -> PPcs]
    BY Zenon, <1>2 DEF ProcTypeOK, PStates, PPcs
  <2>2. childexit' \in [Slots -> Int]
    BY <1>2 DEF ProcTypeOK
  <2>3. woken' \in [Slots -> BOOLEAN]
    BY Zenon, <1>2 DEF ProcTypeOK
  <2> QED
    BY Zenon, <1>2, <2>1, <2>2, <2>3 DEF ProcTypeOK
<1>4. Quiet
  <2>1. \A q \in Slots : q # p => pstate'[q] = pstate[q] /\ ppc'[q] = ppc[q]
    BY Zenon, <1>2 DEF ProcTypeOK
  <2>2. pstate'[p] \in {"READY", "SLEEPING"} /\ ppc'[p] \in {"asleep", "reap"}
    BY Zenon, <1>1, <1>2 DEF ProcTypeOK
  <2> QED
    BY Zenon, <1>1, <1>2, <1>3, <2>1, <2>2 DEF Quiet, ProcTypeOK
<1>5. TreeShape' /\ \A q \in Slots : Dead(q)' = Dead(q)
  BY Zenon, <1>4, QuietKeepsShape
<1>6. CallsMatchStates'
  <2>1. \A q \in Slots : q # p => pstate'[q] = pstate[q] /\ ppc'[q] = ppc[q] /\ woken'[q] = woken[q]
    BY <1>2 DEF ProcTypeOK
  <2>2. pstate'[p] \in {"READY", "SLEEPING"} /\ (pstate'[p] = "SLEEPING" => ppc'[p] = "asleep") /\ ~woken'[p]
    BY Zenon, <1>1, <1>2 DEF ProcTypeOK
  <2> QED
    BY Zenon, <2>1, <2>2 DEF CallsMatchStates
<1>7. UnitForReaper' /\ WaitFindsZombie'
  <2>1. \A q \in Slots : q # p => ppc'[q] = ppc[q] /\ woken'[q] = woken[q] /\ childexit'[q] = childexit[q]
    BY <1>2 DEF ProcTypeOK
  <2>2. ppc'[p] = "reap" => childexit'[p] >= 0
    BY <1>2 DEF ProcTypeOK
  <2>3. ~woken'[p]
    BY Zenon, <1>2 DEF ProcTypeOK
  <2> QED
    BY Zenon, <1>2, <2>1, <2>2, <2>3 DEF UnitForReaper, WaitFindsZombie
<1>8. ChildexitCountsZombies'
  <2>1. ASSUME NEW q \in Slots, pstate'[q] \notin {"FREE", "ZOMBIE"} /\ ppc'[q] \notin {"closing", "exiting"} PROVE Counted(q)'
    <3>1. pstate[q] \notin {"FREE", "ZOMBIE"} /\ ppc[q] \notin {"closing", "exiting"}
      BY Zenon, <1>1, <1>2, <2>1 DEF ProcTypeOK
    <3>2. Counted(q)
      BY Zenon, <3>1, CountsAre
    <3>3. CASE q # p
      BY Zenon, <1>2, <1>5, <3>2, <3>3 DEF Counted, ProcTypeOK, Sleeps
    <3>4. CASE q = p
      <4>1. Cardinality(Dead(p)) = childexit[p] /\ childexit[p] \in Int
        BY <1>1, <3>2, <3>4 DEF Counted, ProcTypeOK
      <4>2. childexit'[p] = childexit[p] - 1 /\ ppc'[p] \in {"asleep", "reap"}
        BY Zenon, <1>2 DEF ProcTypeOK
      <4>3. Dead(p) \in SUBSET Slots /\ IsFiniteSet(Dead(p))
        <5>1. Dead(p) \in SUBSET Slots
          BY Zenon DEF Dead, Children
        <5> QED
          BY Zenon, <5>1, ProcAssumption, FS_Subset
      <4>4. ppc'[p] = "asleep" => Dead(p) = {}
        <5>1. ppc'[p] = "asleep" => childexit[p] <= 0
          BY <1>2, <4>1 DEF ProcTypeOK
        <5>2. Cardinality(Dead(p)) \in Nat
          BY Zenon, <4>3, FS_CardinalityType
        <5>3. ppc'[p] = "asleep" => Cardinality(Dead(p)) = 0
          BY <4>1, <5>1, <5>2
        <5> QED
          BY Zenon, <4>3, <5>3, FS_EmptySet
      <4> QED
        BY <1>5, <3>4, <4>1, <4>2, <4>4 DEF Counted, Sleeps
    <3> QED
      BY Zenon, <3>3, <3>4
  <2> QED
    BY Zenon, <2>1, CountsAre DEF ChildexitCountsZombies, Counted, Dead
<1> QED
  BY Zenon, <1>3, <1>5, <1>6, <1>7, <1>8

\* wait_sem returns; an alerted process gives the unit it never got back.
LEMMA WaitWakeKeeps == ASSUME TreeInd, NEW p \in Slots, WaitWake(p) PROVE TreeInd'
<1> USE DEF TreeInd
<1>1. /\ ppc[p] = "asleep" /\ pstate[p] = "READY"
      /\ \/ woken[p] /\ ppc' = [ppc EXCEPT ![p] = "reap"] /\ childexit' = [childexit EXCEPT ![p] = @]
         \/ ~woken[p] /\ ppc' = [ppc EXCEPT ![p] = "user"] /\ childexit' = [childexit EXCEPT ![p] = @ + 1]
      /\ woken' = [woken EXCEPT ![p] = FALSE]
      /\ UNCHANGED <<pstate, parent, container, rootproc, pid, localpid, pidmap, localmap,
                     pkilled, plock, making, foundNone>>
  BY Zenon DEF WaitWake
<1>2. ProcTypeOK'
  <2>1. ppc' \in [Slots -> PPcs] /\ childexit' \in [Slots -> Int]
    BY <1>1 DEF ProcTypeOK, PPcs
  <2>2. woken' \in [Slots -> BOOLEAN]
    BY Zenon, <1>1 DEF ProcTypeOK
  <2> QED
    BY Zenon, <1>1, <2>1, <2>2 DEF ProcTypeOK
<1>3. \A q \in Slots : q # p => ppc'[q] = ppc[q] /\ woken'[q] = woken[q] /\ childexit'[q] = childexit[q]
  BY <1>1 DEF ProcTypeOK
<1>4. /\ ~woken'[p] /\ pstate' = pstate /\ childexit[p] \in Int
      /\ \/ woken[p] /\ ppc'[p] = "reap" /\ childexit'[p] = childexit[p]
         \/ ~woken[p] /\ ppc'[p] = "user" /\ childexit'[p] = childexit[p] + 1
  BY Zenon, <1>1 DEF ProcTypeOK
<1>5. Quiet
  BY Zenon, <1>1, <1>2, <1>3, <1>4 DEF Quiet, ProcTypeOK
<1>6. TreeShape' /\ \A q \in Slots : Dead(q)' = Dead(q)
  BY Zenon, <1>5, QuietKeepsShape
<1>7. CallsMatchStates'
  BY <1>1, <1>3, <1>4 DEF CallsMatchStates
<1>8. UnitForReaper' /\ WaitFindsZombie'
  BY Zenon, <1>1, <1>3, <1>4 DEF UnitForReaper, WaitFindsZombie
<1>9. ChildexitCountsZombies'
  <2>1. ASSUME NEW q \in Slots, pstate'[q] \notin {"FREE", "ZOMBIE"} /\ ppc'[q] \notin {"closing", "exiting"} PROVE Counted(q)'
    <3>1. pstate[q] \notin {"FREE", "ZOMBIE"} /\ ppc[q] \notin {"closing", "exiting"}
      BY Zenon, <1>1, <1>3, <1>4, <2>1
    <3>2. Counted(q)
      BY Zenon, <3>1, CountsAre
    <3>3. CASE q # p
      BY Zenon, <1>3, <1>6, <3>2, <3>3 DEF Counted, Sleeps
    <3>4. CASE q = p
      <4>1. Cardinality(Dead(p)) = childexit[p] + 1
        BY Zenon, <1>1, <3>2, <3>4 DEF Counted
      <4>2. ppc'[p] # "asleep"
        BY Zenon, <1>4
      <4>3. Cardinality(Dead(p)) = childexit'[p] + (IF ppc'[p] \in {"asleep", "reap"} THEN 1 ELSE 0)
        BY <1>4, <4>1
      <4> QED
        BY Zenon, <1>6, <3>4, <4>2, <4>3 DEF Counted, Sleeps
    <3> QED
      BY Zenon, <3>3, <3>4
  <2> QED
    BY Zenon, <2>1, CountsAre DEF ChildexitCountsZombies, Counted, Dead
<1> QED
  BY Zenon, <1>2, <1>6, <1>7, <1>8, <1>9

\* kill marks a process and wakes it from its sleep.
LEMMA KillKeeps == ASSUME TreeInd, NEW p \in Slots, KillProc(p) PROVE TreeInd'
<1> USE DEF TreeInd
<1>1. /\ pkilled' = [pkilled EXCEPT ![p] = TRUE]
      /\ pstate' = [pstate EXCEPT ![p] = IF @ = "SLEEPING" THEN "READY" ELSE @]
      /\ UNCHANGED <<ppc, parent, container, rootproc, pid, localpid, pidmap, localmap,
                     childexit, woken, plock, making, foundNone>>
  BY Zenon DEF KillProc
<1>2. ProcTypeOK'
  <2>1. pstate' \in [Slots -> PStates]
    BY Zenon, <1>1 DEF ProcTypeOK, PStates
  <2>2. pkilled' \in [Slots -> BOOLEAN]
    BY Zenon, <1>1 DEF ProcTypeOK
  <2> QED
    BY Zenon, <1>1, <2>1, <2>2 DEF ProcTypeOK
<1>3. \A q \in Slots : pstate'[q] = IF q = p /\ pstate[q] = "SLEEPING" THEN "READY" ELSE pstate[q]
  BY Zenon, <1>1 DEF ProcTypeOK
<1>4. Quiet
  BY Zenon, <1>1, <1>2, <1>3 DEF Quiet, ProcTypeOK
<1>5. TreeShape' /\ \A q \in Slots : Dead(q)' = Dead(q)
  BY Zenon, <1>4, QuietKeepsShape
<1>6. CallsMatchStates'
  BY <1>1, <1>3 DEF CallsMatchStates
<1>7. UnitForReaper' /\ WaitFindsZombie'
  BY Zenon, <1>1 DEF UnitForReaper, WaitFindsZombie
<1>8. ChildexitCountsZombies'
  <2>1. ASSUME NEW q \in Slots, pstate'[q] \notin {"FREE", "ZOMBIE"} /\ ppc'[q] \notin {"closing", "exiting"} PROVE Counted(q)'
    <3>1. pstate[q] \notin {"FREE", "ZOMBIE"} /\ ppc[q] \notin {"closing", "exiting"}
      BY Zenon, <1>1, <1>3, <2>1
    <3>2. Counted(q)
      BY Zenon, <3>1, CountsAre
    <3> QED
      BY Zenon, <1>1, <1>5, <3>2 DEF Counted, Sleeps
  <2> QED
    BY Zenon, <2>1, CountsAre DEF ChildexitCountsZombies, Counted, Dead
<1> QED
  BY Zenon, <1>2, <1>5, <1>6, <1>7, <1>8

-----------------------------------------------------------------------------
(* exit.                                                                      *)

\* The process that exits is a zombie before plock is free again.
LEMMA ExitSchedKeeps == ASSUME TreeInd, NEW p \in Slots, ExitSched(p) PROVE TreeInd'
<1> USE DEF TreeInd
<1>1. /\ ppc[p] = "exiting" /\ pstate' = [pstate EXCEPT ![p] = "ZOMBIE"]
      /\ plock' = None /\ ppc' = [ppc EXCEPT ![p] = "user"]
      /\ UNCHANGED <<parent, container, rootproc, pid, localpid, pidmap, localmap,
                     childexit, woken, pkilled, making, foundNone>>
  BY Zenon DEF ExitSched
<1>2. /\ parent' = parent /\ container' = container /\ rootproc' = rootproc /\ making' = making
      /\ pid' = pid /\ localpid' = localpid /\ pidmap' = pidmap /\ localmap' = localmap
      /\ childexit' = childexit /\ woken' = woken /\ foundNone' = foundNone
  BY Zenon, <1>1
<1>3. pstate[p] = "READY" /\ plock = p /\ ~woken[p]
  <2>1. plock = p
    BY Zenon, <1>1 DEF TreeShape, ExitHoldsLock
  <2> QED
    BY Zenon, <1>1, <2>1 DEF CallsMatchStates, ProcTypeOK, PStates
<1>4. ProcTypeOK'
  <2>1. pstate' \in [Slots -> PStates] /\ ppc' \in [Slots -> PPcs]
    BY Zenon, <1>1 DEF ProcTypeOK, PStates, PPcs
  <2> QED
    BY Zenon, <1>1, <2>1 DEF ProcTypeOK
<1>5. /\ \A q \in Slots : q # p => pstate'[q] = pstate[q] /\ ppc'[q] = ppc[q]
      /\ pstate'[p] = "ZOMBIE" /\ ppc'[p] = "user"
  BY Zenon, <1>1 DEF ProcTypeOK
<1>6. \A q \in Slots : IsRootProc(q)' <=> IsRootProc(q)
  BY Zenon, <1>2 DEF IsRootProc
<1>7. \A q \in Slots : /\ Alive(q)' <=> Alive(q)
                       /\ Creating(q)' <=> Creating(q)
  BY Zenon, <1>1, <1>5 DEF Alive, Creating
<1>8. ExitHoldsLock'
  BY Zenon, <1>1, <1>3, <1>5, ProcAssumption DEF TreeShape, ExitHoldsLock
<1>9. ChildrenInTheMaking'
  <2>1. \A q \in Slots : Creating(q) => q # p /\ making[q] # p /\ making[q] \in Slots
    BY Zenon, <1>1, <1>3 DEF Creating, TreeShape, ChildrenInTheMaking
  <2> QED
    BY <1>2, <1>5, <1>6, <1>7, <2>1 DEF TreeShape, ChildrenInTheMaking
<1>10. RootsStay'
  <2>1. RootsStay /\ container \in [Slots -> Containers] /\ rootproc \in [Containers -> Slots \cup {None}]
    BY Zenon DEF TreeShape, ProcTypeOK
  <2>2. \A k \in Containers : rootproc[k] # None => rootproc[k] \in Slots \ {p}
    BY Zenon, <1>1, <2>1 DEF RootsStay
  <2>3. \A q \in Slots : container[q] \in Containers
    BY Zenon, <2>1
  <2>4. \A q \in Slots : IsRootProc(q)' /\ parent'[q] # None => IsRootProc(parent[q])'
    BY Zenon, <1>2, <1>6, <2>1 DEF RootsStay, IsRootProc
  <2> QED
    BY <1>2, <1>3, <1>5, <1>7, <2>1, <2>2, <2>3, <2>4 DEF RootsStay
<1>11. ParentsAlive'
  <2>1. ParentsAlive /\ RootProc \in Slots /\ \A q \in Slots : parent[q] # None => parent[q] \in Slots
    BY Zenon, ProcAssumption DEF TreeShape, ProcTypeOK
  <2>2. Alive(RootProc)' /\ parent'[RootProc] = RootProc
    BY Zenon, <1>2, <1>7, <2>1 DEF ParentsAlive
  <2>3. \A q \in Slots : parent'[q] # None => Alive(parent[q])' /\ pstate'[q] # "FREE"
    BY Zenon, <1>2, <1>5, <1>7, <2>1 DEF ParentsAlive
  <2>4. \A q \in Slots : pstate'[q] \in {"READY", "SLEEPING", "ZOMBIE"} => parent'[q] # None
    BY Zenon, <1>2, <1>3, <1>5, <2>1 DEF ParentsAlive
  <2> QED
    BY Zenon, <1>2, <2>2, <2>3, <2>4 DEF ParentsAlive
<1>12. NoCycle'
  BY Zenon, <1>2 DEF TreeShape, NoCycle
<1>13. IdsDistinct'
  <2>1. Live' = Live
    BY Zenon, <1>2, <1>3, <1>5 DEF Live
  <2>2. \A k : StartedIn(k)' = StartedIn(k)
    BY Zenon, <1>2, <1>3, <1>5 DEF StartedIn
  <2> QED
    BY <1>2, <2>1, <2>2 DEF TreeShape, IdsDistinct
<1>14. \A q \in Slots : Dead(q)' = Dead(q)
  BY Zenon, <1>1, <1>2, <1>5 DEF Dead, Children
<1>15. CallsMatchStates'
  BY Zenon, <1>2, <1>3, <1>5 DEF CallsMatchStates
<1>16. UnitForReaper' /\ WaitFindsZombie'
  BY Zenon, <1>2, <1>5 DEF UnitForReaper, WaitFindsZombie
<1>17. ChildexitCountsZombies'
  <2>1. ASSUME NEW q \in Slots, pstate'[q] \notin {"FREE", "ZOMBIE"} /\ ppc'[q] \notin {"closing", "exiting"} PROVE Counted(q)'
    <3>1. q # p /\ pstate[q] \notin {"FREE", "ZOMBIE"} /\ ppc[q] \notin {"closing", "exiting"}
      BY Zenon, <1>5, <2>1
    <3>2. Counted(q)
      BY Zenon, <3>1, CountsAre
    <3> QED
      BY Zenon, <1>2, <1>5, <1>14, <3>1, <3>2 DEF Counted, Sleeps
  <2> QED
    BY Zenon, <2>1, CountsAre DEF ChildexitCountsZombies, Counted, Dead
<1> QED
  BY Zenon, <1>4, <1>8, <1>9, <1>10, <1>11, <1>12, <1>13, <1>15, <1>16, <1>17 DEF TreeShape

Heir(c) == rootproc[container[c]]
HandedOver(p, q) == {c \in Children(p) : Heir(c) = q /\ pstate[c] = "ZOMBIE"}
Posts(p, q) == Cardinality(HandedOver(p, q))

\* What exit does under plock, process by process.
LEMMA ExitBeginFacts ==
  ASSUME TreeInd, NEW p \in Slots, ExitBegin(p)
  PROVE  /\ pstate[p] = "READY" /\ ppc[p] = "user" /\ ~IsRootProc(p) /\ plock = None /\ plock' = p
         /\ parent' = [c \in Slots |-> IF c \in Children(p) THEN Heir(c) ELSE parent[c]]
         /\ childexit' = [q \in Slots |-> childexit[q] + Posts(p, q)]
         /\ woken' = [q \in Slots |-> woken[q] \/ (Posts(p, q) > 0 /\ Sleeps(q))]
         /\ pstate' = [q \in Slots |->
                         IF Sleeps(q) /\ woken'[q] /\ pstate[q] = "SLEEPING" THEN "READY" ELSE pstate[q]]
         /\ ppc' = [ppc EXCEPT ![p] = "closing"]
         /\ UNCHANGED <<container, rootproc, pid, localpid, pidmap, localmap, pkilled, making, foundNone>>
BY Zenon DEF ExitBegin, PostChildexit, Heir, HandedOver, Posts

\* The heir of a child is the live root process of its container, and another one.
LEMMA HeirsAlive ==
  ASSUME TreeInd, NEW p \in Slots, ~IsRootProc(p), NEW c \in Children(p)
  PROVE  /\ c \in Slots \ {RootProc} /\ parent[c] = p /\ pstate[c] # "FREE"
         /\ Heir(c) \in Slots \ {p, c} /\ Alive(Heir(c)) /\ IsRootProc(Heir(c)) /\ ~IsRootProc(c)
<1>1. c \in Slots \ {RootProc} /\ parent[c] = p /\ p # None
  BY Zenon, ProcAssumption DEF Children
<1>2. pstate[c] # "FREE"
  BY Zenon, <1>1 DEF TreeInd, TreeShape, ParentsAlive
<1>3. ~IsRootProc(c)
  BY Zenon, <1>1 DEF TreeInd, TreeShape, RootsStay
<1>4. container[c] \in Containers /\ Heir(c) \in Slots \cup {None}
  BY Zenon, <1>1 DEF TreeInd, ProcTypeOK, Heir
<1>5. Heir(c) # None /\ IsRootProc(Heir(c))
  BY Zenon, <1>1, <1>2, <1>4 DEF TreeInd, TreeShape, RootsStay, Heir, IsRootProc
<1>6. Heir(c) # c /\ Heir(c) # p
  BY Zenon, <1>3, <1>5
<1>7. Alive(Heir(c))
  BY Zenon, <1>1, <1>2, <1>6 DEF TreeInd, TreeShape, RootsStay, Heir
<1> QED
  BY Zenon, <1>1, <1>2, <1>3, <1>4, <1>5, <1>6, <1>7

\* Whatever set an orphan is in, its heir's parents lead out of it.
LEMMA ExitNoCycle == ASSUME TreeInd, NEW p \in Slots, ExitBegin(p) PROVE NoCycle'
<1>1. ~IsRootProc(p) /\ parent' = [c \in Slots |-> IF c \in Children(p) THEN Heir(c) ELSE parent[c]]
  BY Zenon, ExitBeginFacts
<1> SUFFICES ASSUME NEW S \in SUBSET (Slots \ {RootProc}), S # {} PROVE \E q \in S : parent'[q] \notin S
  BY Zenon DEF NoCycle
<1>2. NoCycle /\ RootsStay
  BY Zenon DEF TreeInd, TreeShape
<1>3. CASE S \cap Children(p) = {}
  <2>1. PICK q \in S : parent[q] \notin S
    BY Zenon, <1>2 DEF NoCycle
  <2>2. parent'[q] = parent[q]
    BY Zenon, <1>1, <1>3
  <2> QED
    BY Zenon, <2>1, <2>2
<1>4. CASE S \cap Children(p) # {}
  <2>1. PICK c \in S \cap Children(p) : TRUE
    BY Zenon, <1>4
  <2>2. Heir(c) \in Slots /\ IsRootProc(Heir(c)) /\ parent'[c] = Heir(c)
    BY Zenon, <1>1, <2>1, HeirsAlive
  <2>3. CASE Heir(c) \notin S
    BY Zenon, <2>1, <2>2, <2>3
  <2>4. CASE Heir(c) \in S
    <3>1. PICK T : T = {q \in S : IsRootProc(q)}
      BY Zenon
    <3>2. T \in SUBSET (Slots \ {RootProc}) /\ T # {}
      BY Zenon, <2>2, <2>4, <3>1
    <3>3. PICK q \in T : parent[q] \notin T
      BY Zenon, <1>2, <3>2 DEF NoCycle
    <3>4. q \in S /\ IsRootProc(q)
      BY Zenon, <3>1, <3>3
    <3>5. q \notin Children(p)
      BY Zenon, <1>1, <3>4, HeirsAlive
    <3>6. parent'[q] = parent[q]
      BY Zenon, <1>1, <3>4, <3>5
    <3>7. parent[q] # None => IsRootProc(parent[q])
      BY Zenon, <1>2, <3>4 DEF RootsStay
    <3>8. parent[q] \notin S
      BY Zenon, <3>1, <3>3, <3>7, ProcAssumption
    <3> QED
      BY Zenon, <3>4, <3>6, <3>8
  <2> QED
    BY Zenon, <2>3, <2>4
<1> QED
  BY Zenon, <1>3, <1>4

\* Who will be found dead by the others, once p exits.
LEMMA ExitDead ==
  ASSUME TreeInd, NEW p \in Slots, ExitBegin(p), NEW q \in Slots, q # p
  PROVE  /\ Dead(q)' = Dead(q) \cup HandedOver(p, q)
         /\ Cardinality(Dead(q)') = Cardinality(Dead(q)) + Posts(p, q)
         /\ Posts(p, q) \in Nat /\ (Posts(p, q) = 0 => Dead(q)' = Dead(q))
<1>1. /\ pstate[p] = "READY" /\ ppc[p] = "user" /\ ~IsRootProc(p) /\ plock = None
      /\ parent' = [c \in Slots |-> IF c \in Children(p) THEN Heir(c) ELSE parent[c]]
      /\ pstate' = [r \in Slots |->
                      IF Sleeps(r) /\ woken'[r] /\ pstate[r] = "SLEEPING" THEN "READY" ELSE pstate[r]]
      /\ ppc' = [ppc EXCEPT ![p] = "closing"]
  BY Zenon, ExitBeginFacts
<1>2. \A c \in Slots : ppc[c] # "exiting"
  BY Zenon, <1>1, ProcAssumption DEF TreeInd, TreeShape, ExitHoldsLock
<1>3. \A c \in Slots : (pstate'[c] = "ZOMBIE" <=> pstate[c] = "ZOMBIE") /\ ppc'[c] # "exiting"
  <2>1. ppc \in [Slots -> PPcs]
    BY Zenon DEF TreeInd, ProcTypeOK
  <2> QED
    BY Zenon, <1>1, <1>2, <2>1
<1>5. \A c \in Slots : parent'[c] = IF c \in Children(p) THEN Heir(c) ELSE parent[c]
  BY Zenon, <1>1
<1>6. Dead(q)' = Dead(q) \cup HandedOver(p, q)
  <2>1. Dead(q)' = {c \in Slots \ {RootProc} : parent'[c] = q /\ pstate[c] = "ZOMBIE"}
    BY Zenon, <1>3 DEF Dead, Children
  <2>2. Dead(q) = {c \in Slots \ {RootProc} : parent[c] = q /\ pstate[c] = "ZOMBIE"}
    BY Zenon, <1>2 DEF Dead, Children
  <2>3. HandedOver(p, q) = {c \in Slots \ {RootProc} : parent[c] = p /\ Heir(c) = q /\ pstate[c] = "ZOMBIE"}
    BY Zenon DEF HandedOver, Children
  <2>4. \A c \in Slots \ {RootProc} : parent'[c] = IF parent[c] = p THEN Heir(c) ELSE parent[c]
    BY Zenon, <1>5 DEF Children
  <2> QED
    BY Zenon, <2>1, <2>2, <2>3, <2>4
<1>7. PICK A, B : A = Dead(q) /\ B = HandedOver(p, q)
  BY Zenon
<1>8. A \in SUBSET Slots /\ B \in SUBSET Slots /\ A \cap B = {}
  BY Zenon, <1>7 DEF Dead, HandedOver, Children
<1>9. /\ IsFiniteSet(A) /\ IsFiniteSet(B) /\ IsFiniteSet(A \cup B)
      /\ Cardinality(A \cup B) = Cardinality(A) + Cardinality(B)
      /\ Cardinality(A) \in Nat /\ Cardinality(B) \in Nat
  <2>1. IsFiniteSet(A) /\ IsFiniteSet(B)
    BY Zenon, <1>8, ProcAssumption, FS_Subset
  <2>2. Cardinality(A) \in Nat /\ Cardinality(B) \in Nat /\ Cardinality(A \cap B) = 0
    BY Zenon, <1>8, <2>1, FS_CardinalityType, FS_EmptySet
  <2>3. IsFiniteSet(A \cup B) /\ Cardinality(A \cup B) = Cardinality(A) + Cardinality(B) - Cardinality(A \cap B)
    BY Zenon, <2>1, FS_Union
  <2> QED
    BY <2>1, <2>2, <2>3
<1>10. Posts(p, q) = Cardinality(B) /\ Posts(p, q) \in Nat
  BY Zenon, <1>7, <1>9 DEF Posts
<1>11. Cardinality(Dead(q)') = Cardinality(Dead(q)) + Posts(p, q)
  BY Zenon, <1>6, <1>7, <1>9, <1>10
<1>12. Posts(p, q) = 0 => Dead(q)' = Dead(q)
  <2>1. Posts(p, q) = 0 => B = {}
    BY Zenon, <1>9, <1>10, FS_EmptySet
  <2> QED
    BY Zenon, <1>6, <1>7, <2>1
<1> QED
  BY Zenon, <1>6, <1>10, <1>11, <1>12

\* exit: the children have live parents, and each process that waits is told of
\* exactly the zombies it has been given.
LEMMA ExitBeginKeeps == ASSUME TreeInd, NEW p \in Slots, ExitBegin(p) PROVE TreeInd'
<1> USE DEF TreeInd
<1>1. /\ pstate[p] = "READY" /\ ppc[p] = "user" /\ ~IsRootProc(p) /\ plock = None /\ plock' = p
      /\ parent' = [c \in Slots |-> IF c \in Children(p) THEN Heir(c) ELSE parent[c]]
      /\ childexit' = [q \in Slots |-> childexit[q] + Posts(p, q)]
      /\ woken' = [q \in Slots |-> woken[q] \/ (Posts(p, q) > 0 /\ Sleeps(q))]
      /\ pstate' = [q \in Slots |->
                      IF Sleeps(q) /\ woken'[q] /\ pstate[q] = "SLEEPING" THEN "READY" ELSE pstate[q]]
      /\ ppc' = [ppc EXCEPT ![p] = "closing"]
      /\ UNCHANGED <<container, rootproc, pid, localpid, pidmap, localmap, pkilled, making, foundNone>>
  BY Zenon, ExitBeginFacts
<1>2. /\ container' = container /\ rootproc' = rootproc /\ making' = making /\ pid' = pid
      /\ localpid' = localpid /\ pidmap' = pidmap /\ localmap' = localmap /\ foundNone' = foundNone
  BY Zenon, <1>1
<1>3. /\ \A q \in Slots : q # p => ppc'[q] = ppc[q]
      /\ ppc'[p] = "closing"
  BY Zenon, <1>1 DEF ProcTypeOK
<1>4. \A q \in Slots : pstate'[q] = pstate[q] \/ (pstate[q] = "SLEEPING" /\ pstate'[q] = "READY" /\ Sleeps(q) /\ woken'[q])
  BY Zenon, <1>1
<1>5. \A q \in Slots : parent'[q] = IF q \in Children(p) THEN Heir(q) ELSE parent[q]
  BY Zenon, <1>1
<1>6. \A q \in Slots : IsRootProc(q)' <=> IsRootProc(q)
  BY Zenon, <1>2 DEF IsRootProc
<1>7. \A q \in Slots : q # p => (Alive(q)' <=> Alive(q))
  BY Zenon, <1>3, <1>4 DEF Alive
<1>8. \A q \in Slots : Posts(p, q) \in Nat
  <2> SUFFICES ASSUME NEW q \in Slots PROVE Posts(p, q) \in Nat
    BY Zenon
  <2>1. HandedOver(p, q) \in SUBSET Slots
    BY Zenon DEF HandedOver, Children
  <2> QED
    BY Zenon, <2>1, ProcAssumption, FS_Subset, FS_CardinalityType DEF Posts
<1>9. ProcTypeOK'
  <2>1. pstate' \in [Slots -> PStates] /\ ppc' \in [Slots -> PPcs]
    <3>1. \A q \in Slots : pstate'[q] \in PStates
      BY Zenon, <1>4 DEF ProcTypeOK, PStates
    <3> QED
      BY Zenon, <1>1, <3>1 DEF ProcTypeOK, PPcs
  <2>2. parent' \in [Slots -> Slots \cup {None}]
    <3>1. \A q \in Slots : parent'[q] \in Slots \cup {None}
      BY Zenon, <1>1, <1>5, HeirsAlive DEF ProcTypeOK
    <3> QED
      BY Zenon, <1>1, <3>1
  <2>3. childexit' \in [Slots -> Int]
    BY <1>1, <1>8 DEF ProcTypeOK
  <2>4. woken' \in [Slots -> BOOLEAN]
    BY Zenon, <1>1 DEF ProcTypeOK
  <2> QED
    BY Zenon, <1>1, <2>1, <2>2, <2>3, <2>4 DEF ProcTypeOK
<1>10. ExitHoldsLock'
  BY Zenon, <1>1, <1>3, ProcAssumption DEF TreeShape, ExitHoldsLock
<1>11. ChildrenInTheMaking'
  <2>1. \A q \in Slots : Creating(q)' => Creating(q) /\ q # p /\ ppc'[q] = ppc[q]
    BY Zenon, <1>3 DEF Creating
  <2>2. ASSUME NEW q \in Slots, Creating(q), q # p
        PROVE  making[q] \in Slots /\ pstate'[making[q]] = "UNUSED" /\ parent'[making[q]] = parent[making[q]]
    <3>1. /\ making[q] \in Slots \ {RootProc} /\ pstate[making[q]] = "UNUSED"
          /\ parent[making[q]] \in {None, q}
      BY Zenon, <2>2 DEF TreeShape, ChildrenInTheMaking
    <3>2. making[q] \notin Children(p)
      BY Zenon, <2>2, <3>1, ProcAssumption DEF Children
    <3> QED
      BY <1>4, <1>5, <3>1, <3>2
  <2> QED
    BY <1>2, <1>6, <2>1, <2>2 DEF TreeShape, ChildrenInTheMaking
<1>12. RootsStay'
  <2>1. RootsStay /\ container \in [Slots -> Containers] /\ rootproc \in [Containers -> Slots \cup {None}]
    BY Zenon DEF TreeShape, ProcTypeOK
  <2>2. \A k \in Containers : rootproc[k] # None => rootproc[k] \in Slots \ {p}
    BY Zenon, <1>1, <2>1 DEF IsRootProc
  <2>3. \A q \in Slots : container[q] \in Containers
    BY Zenon, <2>1
  <2>4. ASSUME NEW q \in Slots, IsRootProc(q)', parent'[q] # None PROVE IsRootProc(parent[q])' /\ parent'[q] = parent[q]
    <3>1. IsRootProc(q)
      BY Zenon, <1>6, <2>4
    <3>2. q \notin Children(p)
      BY Zenon, <1>1, <3>1, HeirsAlive
    <3>3. parent'[q] = parent[q] /\ IsRootProc(parent[q])
      BY Zenon, <1>5, <2>1, <2>4, <3>1, <3>2 DEF RootsStay
    <3> QED
      BY Zenon, <1>2, <3>3 DEF IsRootProc
  <2>5. \A q \in Slots : pstate'[q] = "FREE" <=> pstate[q] = "FREE"
    BY Zenon, <1>4
  <2>6. \A q \in Slots : IsRootProc(q)' /\ parent'[q] # None => IsRootProc(parent[q])'
    BY Zenon, <2>4
  <2>7. \A k \in Containers : rootproc'[k] # None =>
          /\ container'[rootproc'[k]] = k
          /\ pstate'[rootproc'[k]] \in {"UNUSED", "READY", "SLEEPING"} /\ ppc'[rootproc'[k]] \notin {"closing", "exiting"}
    BY <1>2, <1>3, <1>4, <2>1, <2>2 DEF RootsStay
  <2>8. \A q \in Slots : pstate'[q] # "FREE" =>
          /\ rootproc'[container'[q]] # None
          /\ q # rootproc'[container'[q]] => Alive(rootproc[container[q]])'
    BY <1>2, <1>7, <2>1, <2>2, <2>3, <2>5 DEF RootsStay
  <2> QED
    BY Zenon, <1>2, <2>1, <2>6, <2>7, <2>8 DEF RootsStay
<1>13. ParentsAlive'
  <2>1. ParentsAlive /\ RootProc \in Slots /\ \A q \in Slots : parent[q] # None => parent[q] \in Slots
    BY Zenon, ProcAssumption DEF TreeShape, ProcTypeOK
  <2>2. p # RootProc
    BY Zenon, <1>1, ProcAssumption DEF TreeShape, RootsStay, IsRootProc
  <2>3. RootProc \notin Children(p)
    BY Zenon DEF Children
  <2>4. Alive(RootProc)' /\ parent'[RootProc] = RootProc
    BY Zenon, <1>5, <1>7, <2>1, <2>2, <2>3 DEF ParentsAlive
  <2>5. ASSUME NEW q \in Slots, parent'[q] # None PROVE Alive(parent[q])' /\ pstate'[q] # "FREE"
    <3>1. CASE q \in Children(p)
      <4>1. Heir(q) \in Slots \ {p} /\ Alive(Heir(q)) /\ pstate[q] # "FREE" /\ parent'[q] = Heir(q)
        BY Zenon, <1>1, <1>5, <3>1, HeirsAlive
      <4> QED
        BY Zenon, <1>4, <1>7, <4>1 DEF Alive
    <3>2. CASE q \notin Children(p)
      <4>1. parent'[q] = parent[q]
        BY Zenon, <1>5, <3>2
      <4>2. parent[q] \in Slots /\ Alive(parent[q]) /\ pstate[q] # "FREE"
        BY Zenon, <2>1, <2>5, <4>1 DEF ParentsAlive
      <4>3. parent[q] # p
        BY Zenon, <2>1, <2>2, <3>2 DEF Children, ParentsAlive
      <4> QED
        BY Zenon, <1>4, <1>7, <4>1, <4>2, <4>3 DEF Alive
    <3> QED
      BY Zenon, <3>1, <3>2
  <2>6. \A q \in Slots : pstate'[q] \in {"READY", "SLEEPING", "ZOMBIE"} => parent'[q] # None
    <3>1. \A q \in Children(p) : Heir(q) # None
      BY <1>1, HeirsAlive, ProcAssumption
    <3> QED
      BY <1>4, <1>5, <2>1, <3>1 DEF ParentsAlive
  <2> QED
    BY Zenon, <2>4, <2>5, <2>6 DEF ParentsAlive
<1>14. NoCycle'
  BY Zenon, ExitNoCycle
<1>15. IdsDistinct'
  <2>1. Live' = Live
    BY Zenon, <1>2, <1>4 DEF Live
  <2>2. \A k : StartedIn(k)' = StartedIn(k)
    BY Zenon, <1>2, <1>4 DEF StartedIn
  <2> QED
    BY <1>2, <2>1, <2>2 DEF TreeShape, IdsDistinct
<1>16. CallsMatchStates'
  <2>1. ASSUME NEW q \in Slots
        PROVE  woken'[q] <=> woken[q] \/ (Posts(p, q) > 0 /\ Sleeps(q))
    BY Zenon, <1>1
  <2>2. ASSUME NEW q \in Slots
        PROVE  /\ pstate'[q] \in {"FREE", "UNUSED", "ZOMBIE"} => ppc'[q] = "user"
               /\ pstate'[q] = "SLEEPING" => ppc'[q] = "asleep" /\ ~woken'[q]
               /\ woken'[q] => ppc'[q] = "asleep"
    <3>1. CASE q = p
      BY Zenon, <1>1, <1>3, <1>4, <2>1, <3>1 DEF CallsMatchStates, Sleeps
    <3>2. CASE q # p
      BY <1>1, <1>3, <1>4, <2>1, <3>2 DEF CallsMatchStates, Sleeps
    <3> QED
      BY Zenon, <3>1, <3>2
  <2> QED
    BY Zenon, <2>2 DEF CallsMatchStates
<1>17. ASSUME NEW q \in Slots, q # p, pstate[q] \notin {"FREE", "ZOMBIE"}, ppc[q] \notin {"closing", "exiting"}
       PROVE  Counted(q)' /\ (woken'[q] => childexit'[q] >= 0)
  <2>1. Counted(q)
    BY Zenon, <1>17, CountsAre
  <2>2. /\ Cardinality(Dead(q)') = Cardinality(Dead(q)) + Posts(p, q)
        /\ Posts(p, q) \in Nat /\ (Posts(p, q) = 0 => Dead(q)' = Dead(q))
    BY Zenon, <1>17, ExitDead
  <2>3. childexit'[q] = childexit[q] + Posts(p, q) /\ childexit[q] \in Int /\ ppc'[q] = ppc[q]
    BY Zenon, <1>1, <1>3, <1>17 DEF ProcTypeOK
  <2>4. woken'[q] <=> woken[q] \/ (Posts(p, q) > 0 /\ Sleeps(q))
    BY Zenon, <1>1
  <2>5. Cardinality(Dead(q)') = childexit'[q] + (IF ppc'[q] \in {"asleep", "reap"} THEN 1 ELSE 0)
    BY <2>1, <2>2, <2>3 DEF Counted
  <2>6. Sleeps(q)' => Dead(q)' = {}
    <3>1. Sleeps(q)' => Sleeps(q) /\ Posts(p, q) = 0
      BY <2>2, <2>3, <2>4 DEF Sleeps
    <3> QED
      BY Zenon, <2>1, <2>2, <3>1 DEF Counted
  <2>7. woken'[q] => childexit'[q] >= 0
    <3>1. CASE woken[q]
      BY <2>2, <2>3, <3>1 DEF UnitForReaper
    <3>2. CASE Posts(p, q) > 0 /\ Sleeps(q)
      <4>1. Dead(q) = {} /\ ppc[q] = "asleep"
        BY Zenon, <2>1, <3>2 DEF Counted, Sleeps
      <4>2. childexit[q] = -1
        BY <2>1, <2>3, <4>1, FS_EmptySet DEF Counted
      <4> QED
        BY <2>2, <2>3, <3>2, <4>2
    <3> QED
      BY Zenon, <2>4, <3>1, <3>2
  <2> QED
    BY Zenon, <2>5, <2>6, <2>7 DEF Counted
<1>18. ~woken'[p]
  BY Zenon, <1>3, <1>9, <1>16 DEF CallsMatchStates
<1>19. UnitForReaper' /\ WaitFindsZombie'
  <2>1. ASSUME NEW q \in Slots, ppc'[q] = "reap" \/ woken'[q] PROVE childexit'[q] >= 0
    <3>1. q # p
      BY Zenon, <1>3, <1>18, <2>1
    <3>2. ppc[q] \in {"reap", "asleep"}
      BY Zenon, <1>3, <1>16, <2>1, <3>1 DEF CallsMatchStates
    <3>3. pstate[q] \notin {"FREE", "ZOMBIE"} /\ ppc[q] \notin {"closing", "exiting"}
      BY Zenon, <3>2 DEF CallsMatchStates
    <3>4. CASE woken'[q]
      BY Zenon, <1>17, <3>1, <3>3, <3>4
    <3>5. CASE ppc'[q] = "reap"
      <4>1. childexit[q] >= 0 /\ childexit[q] \in Int
        BY Zenon, <1>3, <3>1, <3>5 DEF UnitForReaper, ProcTypeOK
      <4> QED
        BY <1>1, <1>8, <4>1
    <3> QED
      BY Zenon, <2>1, <3>4, <3>5
  <2> QED
    BY Zenon, <1>2, <2>1 DEF UnitForReaper, WaitFindsZombie
<1>20. ChildexitCountsZombies'
  <2>1. ASSUME NEW q \in Slots, pstate'[q] \notin {"FREE", "ZOMBIE"} /\ ppc'[q] \notin {"closing", "exiting"} PROVE Counted(q)'
    <3>1. q # p /\ pstate[q] \notin {"FREE", "ZOMBIE"} /\ ppc[q] \notin {"closing", "exiting"}
      BY Zenon, <1>3, <1>4, <2>1
    <3> QED
      BY Zenon, <1>17, <3>1
  <2> QED
    BY Zenon, <2>1, CountsAre DEF ChildexitCountsZombies, Counted, Dead
<1> QED
  BY Zenon, <1>9, <1>10, <1>11, <1>12, <1>13, <1>14, <1>15, <1>16, <1>19, <1>20 DEF TreeShape

\* The post to the parent: one more child to be found, one more unit.
LEMMA ExitPostKeeps == ASSUME TreeInd, NEW p \in Slots, ExitPost(p) PROVE TreeInd'
<1> USE DEF TreeInd
<1>1. PICK r : r = parent[p]
  BY Zenon
<1>2. /\ ppc[p] = "closing" /\ ppc' = [ppc EXCEPT ![p] = "exiting"]
      /\ childexit' = [q \in Slots |-> childexit[q] + (IF q = r THEN 1 ELSE 0)]
      /\ woken' = [q \in Slots |-> woken[q] \/ ((IF q = r THEN 1 ELSE 0) > 0 /\ Sleeps(q))]
      /\ pstate' = [q \in Slots |->
                      IF Sleeps(q) /\ woken'[q] /\ pstate[q] = "SLEEPING" THEN "READY" ELSE pstate[q]]
      /\ parent' = parent /\ container' = container /\ rootproc' = rootproc /\ pid' = pid
      /\ localpid' = localpid /\ pidmap' = pidmap /\ localmap' = localmap /\ pkilled' = pkilled
      /\ plock' = plock /\ making' = making /\ foundNone' = foundNone
  BY Zenon, <1>1 DEF ExitPost, PostChildexit
<1>22. /\ parent' = parent /\ container' = container /\ rootproc' = rootproc /\ pid' = pid
       /\ localpid' = localpid /\ pidmap' = pidmap /\ localmap' = localmap
       /\ plock' = plock /\ making' = making
  BY Zenon, <1>2
<1>3. /\ plock = p /\ pstate[p] = "READY" /\ ~woken[p] /\ p # RootProc /\ r \in Slots \ {p}
  <2>1. plock = p /\ pstate[p] = "READY" /\ ~woken[p]
    BY Zenon, <1>2 DEF TreeShape, ExitHoldsLock, CallsMatchStates, ProcTypeOK, PStates
  <2>2. p # RootProc
    BY Zenon, <1>2 DEF TreeShape, ParentsAlive, Alive
  <2>3. {p} \in SUBSET (Slots \ {RootProc}) /\ {p} # {}
    BY Zenon, <2>2
  <2>4. parent[p] # p
    BY Zenon, <2>3 DEF TreeShape, NoCycle
  <2>5. parent[p] # None
    BY Zenon, <2>1 DEF TreeShape, ParentsAlive
  <2> QED
    BY Zenon, <1>1, <2>1, <2>2, <2>4, <2>5 DEF ProcTypeOK
<1>4. /\ \A q \in Slots : q # r => childexit'[q] = childexit[q] /\ (woken'[q] <=> woken[q])
      /\ childexit'[r] = childexit[r] + 1 /\ childexit[r] \in Int
      /\ woken'[r] <=> woken[r] \/ Sleeps(r)
  <2>1. childexit \in [Slots -> Int] /\ r \in Slots
    BY Zenon, <1>3 DEF ProcTypeOK
  <2>2. \A q \in Slots : /\ childexit'[q] = childexit[q] + (IF q = r THEN 1 ELSE 0)
                         /\ woken'[q] <=> (woken[q] \/ ((IF q = r THEN 1 ELSE 0) > 0 /\ Sleeps(q)))
    BY Zenon, <1>2
  <2>3. 1 > 0 /\ ~(0 > 0) /\ \A x \in Int : x + 0 = x
    OBVIOUS
  <2>4. ASSUME NEW q \in Slots, q # r PROVE childexit'[q] = childexit[q] /\ (woken'[q] <=> woken[q])
    BY Zenon, <2>1, <2>2, <2>3, <2>4
  <2>5. childexit'[r] = childexit[r] + 1 /\ childexit[r] \in Int /\ (woken'[r] <=> woken[r] \/ Sleeps(r))
    BY Zenon, <2>1, <2>2, <2>3
  <2> QED
    BY Zenon, <2>4, <2>5
<1>5. /\ \A q \in Slots : q # p => ppc'[q] = ppc[q]
      /\ ppc'[p] = "exiting"
  BY Zenon, <1>2 DEF ProcTypeOK
<1>6. \A q \in Slots : pstate'[q] = pstate[q] \/ (pstate[q] = "SLEEPING" /\ pstate'[q] = "READY" /\ Sleeps(q) /\ woken'[q])
  BY Zenon, <1>2
<1>7. ProcTypeOK'
  <2>1. pstate' \in [Slots -> PStates] /\ ppc' \in [Slots -> PPcs]
    <3>1. \A q \in Slots : pstate'[q] \in PStates
      BY Zenon, <1>6 DEF ProcTypeOK, PStates
    <3> QED
      BY Zenon, <1>2, <3>1 DEF ProcTypeOK, PPcs
  <2>2. childexit' \in [Slots -> Int]
    BY <1>2 DEF ProcTypeOK
  <2>3. woken' \in [Slots -> BOOLEAN]
    BY Zenon, <1>2 DEF ProcTypeOK
  <2> QED
    BY Zenon, <1>2, <2>1, <2>2, <2>3 DEF ProcTypeOK
<1>8. \A q \in Slots : /\ IsRootProc(q)' <=> IsRootProc(q)
                       /\ Alive(q)' <=> Alive(q)
                       /\ Creating(q)' <=> Creating(q)
                       /\ pstate'[q] = "FREE" <=> pstate[q] = "FREE"
                       /\ pstate'[q] = "UNUSED" <=> pstate[q] = "UNUSED"
                       /\ pstate'[q] = "ZOMBIE" <=> pstate[q] = "ZOMBIE"
                       /\ ppc'[q] \in {"closing", "exiting"} <=> ppc[q] \in {"closing", "exiting"}
                       /\ ppc'[q] = "link" <=> ppc[q] = "link"
  <2> SUFFICES ASSUME NEW q \in Slots
               PROVE  /\ IsRootProc(q)' <=> IsRootProc(q)
                      /\ Alive(q)' <=> Alive(q)
                      /\ Creating(q)' <=> Creating(q)
                      /\ pstate'[q] = "FREE" <=> pstate[q] = "FREE"
                      /\ pstate'[q] = "UNUSED" <=> pstate[q] = "UNUSED"
                      /\ pstate'[q] = "ZOMBIE" <=> pstate[q] = "ZOMBIE"
                      /\ ppc'[q] \in {"closing", "exiting"} <=> ppc[q] \in {"closing", "exiting"}
                      /\ ppc'[q] = "link" <=> ppc[q] = "link"
    BY Zenon
  <2>1. CASE q = p
    BY Zenon, <1>2, <1>3, <1>5, <1>6, <2>1 DEF IsRootProc, Alive, Creating
  <2>2. CASE q # p
    BY Zenon, <1>2, <1>5, <1>6, <2>2 DEF IsRootProc, Alive, Creating
  <2> QED
    BY Zenon, <2>1, <2>2
<1>9. ExitHoldsLock'
  BY Zenon, <1>2, <1>8 DEF TreeShape, ExitHoldsLock
<1>10. ChildrenInTheMaking'
  <2>1. ChildrenInTheMaking /\ \A q \in Slots : Creating(q) => q # p
    BY Zenon, <1>2 DEF TreeShape, Creating
  <2>2. \A q \in Slots : /\ Creating(q)' <=> Creating(q)
                         /\ pstate'[q] = "UNUSED" <=> pstate[q] = "UNUSED"
                         /\ ppc'[q] = "link" <=> ppc[q] = "link"
                         /\ IsRootProc(q)' <=> IsRootProc(q)
    BY Zenon, <1>8
  <2> QED
    BY Zenon, <1>22, <2>1, <2>2 DEF ChildrenInTheMaking
<1>11. RootsStay'
  <2>1. RootsStay /\ container \in [Slots -> Containers] /\ rootproc \in [Containers -> Slots \cup {None}]
    BY Zenon DEF TreeShape, ProcTypeOK
  <2>2. \A k \in Containers : rootproc[k] # None => rootproc[k] \in Slots
    BY Zenon, <2>1
  <2>3. \A q \in Slots : container[q] \in Containers
    BY Zenon, <2>1
  <2>4. \A q \in Slots : IsRootProc(q)' /\ parent'[q] # None => IsRootProc(parent[q])'
    BY Zenon, <1>22, <2>1 DEF RootsStay, IsRootProc
  <2>5. \A k \in Containers : rootproc'[k] # None =>
          /\ container'[rootproc'[k]] = k
          /\ pstate'[rootproc'[k]] \in {"UNUSED", "READY", "SLEEPING"} /\ ppc'[rootproc'[k]] \notin {"closing", "exiting"}
    <3> SUFFICES ASSUME NEW k \in Containers, rootproc'[k] # None
                 PROVE  /\ container'[rootproc'[k]] = k
                        /\ pstate'[rootproc'[k]] \in {"UNUSED", "READY", "SLEEPING"}
                        /\ ppc'[rootproc'[k]] \notin {"closing", "exiting"}
      BY Zenon
    <3>1. PICK s : s = rootproc[k]
      BY Zenon
    <3>2. /\ s \in Slots /\ container[s] = k
          /\ pstate[s] \in {"UNUSED", "READY", "SLEEPING"} /\ ppc[s] \notin {"closing", "exiting"}
      BY Zenon, <1>2, <2>1, <2>2, <3>1 DEF RootsStay
    <3>3. pstate'[s] \in {"UNUSED", "READY", "SLEEPING"} /\ ppc'[s] \notin {"closing", "exiting"}
      BY Zenon, <1>6, <1>8, <3>2
    <3> QED
      BY Zenon, <1>2, <3>1, <3>2, <3>3
  <2>6. \A q \in Slots : pstate'[q] # "FREE" =>
          /\ rootproc'[container'[q]] # None
          /\ q # rootproc'[container'[q]] => Alive(rootproc[container[q]])'
    <3> SUFFICES ASSUME NEW q \in Slots, pstate'[q] # "FREE"
                 PROVE  /\ rootproc'[container'[q]] # None
                        /\ q # rootproc'[container'[q]] => Alive(rootproc[container[q]])'
      BY Zenon
    <3>1. PICK s : s = rootproc[container[q]]
      BY Zenon
    <3>2. s # None /\ (q # s => Alive(s))
      <4>1. pstate[q] # "FREE"
        BY Zenon, <1>8
      <4> QED
        BY Zenon, <2>1, <3>1, <4>1 DEF RootsStay
    <3>3. s \in Slots
      BY Zenon, <2>2, <2>3, <3>1, <3>2
    <3>4. Alive(s)' <=> Alive(s)
      BY Zenon, <1>8, <3>3
    <3>5. rootproc'[container'[q]] = s /\ (Alive(rootproc[container[q]])' <=> Alive(s)')
      BY Zenon, <1>22, <3>1
    <3> QED
      BY Zenon, <3>2, <3>4, <3>5
  <2> QED
    BY Zenon, <1>2, <2>1, <2>4, <2>5, <2>6 DEF RootsStay
<1>12. ParentsAlive'
  <2>1. ParentsAlive /\ RootProc \in Slots /\ \A q \in Slots : parent[q] # None => parent[q] \in Slots
    BY Zenon, ProcAssumption DEF TreeShape, ProcTypeOK
  <2>2. Alive(RootProc)' /\ parent'[RootProc] = RootProc
    BY Zenon, <1>2, <1>8, <2>1 DEF ParentsAlive
  <2>3. \A q \in Slots : parent'[q] # None => Alive(parent[q])' /\ pstate'[q] # "FREE"
    BY Zenon, <1>2, <1>8, <2>1 DEF ParentsAlive
  <2>4. \A q \in Slots : pstate'[q] \in {"READY", "SLEEPING", "ZOMBIE"} => parent'[q] # None
    BY Zenon, <1>2, <1>6, <2>1 DEF ParentsAlive
  <2> QED
    BY Zenon, <2>2, <2>3, <2>4 DEF ParentsAlive
<1>13. NoCycle'
  BY Zenon, <1>2 DEF TreeShape, NoCycle
<1>14. IdsDistinct'
  <2>1. Live' = Live
    BY Zenon, <1>2, <1>8 DEF Live
  <2>2. \A k : StartedIn(k)' = StartedIn(k)
    BY Zenon, <1>2, <1>8 DEF StartedIn
  <2> QED
    BY <1>2, <2>1, <2>2 DEF TreeShape, IdsDistinct
<1>15. CallsMatchStates'
  <2> SUFFICES ASSUME NEW q \in Slots
               PROVE  /\ pstate'[q] \in {"FREE", "UNUSED", "ZOMBIE"} => ppc'[q] = "user"
                      /\ pstate'[q] = "SLEEPING" => ppc'[q] = "asleep" /\ ~woken'[q]
                      /\ woken'[q] => ppc'[q] = "asleep"
    BY Zenon DEF CallsMatchStates
  <2>1. CASE q = p
    BY Zenon, <1>3, <1>4, <1>5, <1>6, <2>1
  <2>2. CASE q # p /\ q # r
    BY Zenon, <1>4, <1>5, <1>6, <2>2 DEF CallsMatchStates
  <2>3. CASE q = r
    <3>1. ppc'[r] = ppc[r] /\ (Sleeps(r) => ppc[r] = "asleep")
      BY Zenon, <1>3, <1>5 DEF Sleeps
    <3>2. pstate'[r] # "SLEEPING" \/ ~woken'[r]
      BY Zenon, <1>2, <1>3, <1>4 DEF CallsMatchStates
    <3> QED
      BY Zenon, <1>3, <1>4, <1>6, <2>3, <3>1, <3>2 DEF CallsMatchStates
  <2> QED
    BY Zenon, <2>1, <2>2, <2>3
<1>16. /\ Dead(r)' = Dead(r) \cup {p} /\ p \notin Dead(r)
       /\ \A q \in Slots : q # r => Dead(q)' = Dead(q)
  <2>1. \A c \in Slots : (pstate'[c] = "ZOMBIE" \/ ppc'[c] = "exiting") <=> (pstate[c] = "ZOMBIE" \/ ppc[c] = "exiting") \/ c = p
    BY Zenon, <1>5, <1>8
  <2>2. ~(pstate[p] = "ZOMBIE" \/ ppc[p] = "exiting")
    BY Zenon, <1>2, <1>3
  <2>3. p \in Slots \ {RootProc} /\ parent[p] = r
    BY Zenon, <1>1, <1>3
  <2> QED
    BY Zenon, <1>2, <2>1, <2>2, <2>3 DEF Dead, Children
<1>17. pstate[r] \in {"READY", "SLEEPING"} /\ ppc[r] \notin {"closing", "exiting"} /\ Counted(r)
  <2>1. Alive(r)
    BY Zenon, <1>1, <1>3, ProcAssumption DEF TreeShape, ParentsAlive
  <2>2. pstate[r] \notin {"FREE", "ZOMBIE"} /\ ppc[r] \notin {"closing", "exiting"}
    BY Zenon, <2>1 DEF Alive
  <2> QED
    BY Zenon, <1>3, <2>1, <2>2, CountsAre DEF Alive
<1>18. Cardinality(Dead(r)') = Cardinality(Dead(r)) + 1
  <2>1. Dead(r) \subseteq Slots
    BY Zenon DEF Dead, Children
  <2>2. IsFiniteSet(Dead(r))
    BY Zenon, <2>1, ProcAssumption, FS_Subset
  <2> QED
    BY Zenon, <1>16, <2>2, FS_AddElement
<1>19. Counted(r)' /\ (woken'[r] => childexit'[r] >= 0)
  <2>1. Cardinality(Dead(r)) = childexit[r] + (IF ppc[r] \in {"asleep", "reap"} THEN 1 ELSE 0)
    BY Zenon, <1>17 DEF Counted
  <2>2. ppc'[r] = ppc[r]
    BY Zenon, <1>3, <1>5
  <2>3. Cardinality(Dead(r)') = childexit'[r] + (IF ppc'[r] \in {"asleep", "reap"} THEN 1 ELSE 0)
    BY <1>4, <1>18, <2>1, <2>2
  <2>4. ~Sleeps(r)'
    BY Zenon, <1>4, <2>2 DEF Sleeps
  <2>5. woken'[r] => childexit'[r] >= 0
    <3>1. CASE woken[r]
      <4>1. childexit[r] >= 0
        BY Zenon, <1>3, <3>1 DEF UnitForReaper
      <4> QED
        BY <1>4, <4>1
    <3>2. CASE Sleeps(r)
      <4>1. Dead(r) = {} /\ ppc[r] = "asleep"
        BY Zenon, <1>17, <3>2 DEF Counted, Sleeps
      <4>2. childexit[r] = -1
        BY <1>4, <2>1, <4>1, FS_EmptySet
      <4> QED
        BY <1>4, <4>2
    <3> QED
      BY Zenon, <1>4, <3>1, <3>2
  <2> QED
    BY Zenon, <2>3, <2>4, <2>5 DEF Counted
<1>20. UnitForReaper' /\ WaitFindsZombie'
  <2>1. ASSUME NEW q \in Slots, ppc'[q] = "reap" \/ woken'[q] PROVE childexit'[q] >= 0
    <3>1. CASE q # r
      <4>1. ppc[q] = "reap" \/ woken[q]
        BY Zenon, <1>4, <1>5, <2>1, <3>1
      <4> QED
        BY Zenon, <1>4, <3>1, <4>1 DEF UnitForReaper
    <3>2. CASE q = r /\ woken'[r]
      BY Zenon, <1>19, <3>2
    <3>3. CASE q = r /\ ppc'[r] = "reap"
      <4>1. ppc[r] = "reap"
        BY Zenon, <1>3, <1>5, <3>3
      <4>2. childexit[r] >= 0
        BY Zenon, <1>3, <4>1 DEF UnitForReaper
      <4> QED
        BY <1>4, <3>3, <4>2
    <3> QED
      BY Zenon, <2>1, <3>1, <3>2, <3>3
  <2> QED
    BY Zenon, <1>2, <2>1 DEF UnitForReaper, WaitFindsZombie
<1>21. ChildexitCountsZombies'
  <2>1. ASSUME NEW q \in Slots, pstate'[q] \notin {"FREE", "ZOMBIE"} /\ ppc'[q] \notin {"closing", "exiting"} PROVE Counted(q)'
    <3>1. q # p /\ pstate[q] \notin {"FREE", "ZOMBIE"} /\ ppc[q] \notin {"closing", "exiting"}
      BY Zenon, <1>5, <1>8, <2>1
    <3>2. CASE q = r
      BY Zenon, <1>19, <3>2
    <3>3. CASE q # r
      <4>1. Counted(q)
        BY Zenon, <3>1, CountsAre
      <4>2. childexit'[q] = childexit[q] /\ Dead(q)' = Dead(q) /\ ppc'[q] = ppc[q]
        BY Zenon, <1>4, <1>5, <1>16, <3>1, <3>3
      <4>3. Sleeps(q)' => Sleeps(q)
        BY Zenon, <1>4, <3>3, <4>2 DEF Sleeps
      <4> QED
        BY Zenon, <4>1, <4>2, <4>3 DEF Counted
    <3> QED
      BY Zenon, <3>2, <3>3
  <2> QED
    BY Zenon, <2>1, CountsAre DEF ChildexitCountsZombies, Counted, Dead
<1> QED
  BY Zenon, <1>7, <1>9, <1>10, <1>11, <1>12, <1>13, <1>14, <1>15, <1>20, <1>21 DEF TreeShape

-----------------------------------------------------------------------------
(* Process ids.                                                               *)

\* As many ids as processes, when no two have the same.
LEMMA ImageSize ==
  ASSUME NEW S, IsFiniteSet(S), NEW f, \A x, y \in S : f[x] = f[y] => x = y
  PROVE  IsFiniteSet({f[x] : x \in S}) /\ Cardinality({f[x] : x \in S}) = Cardinality(S)
<1>1. PICK T, g : T = {f[x] : x \in S} /\ g = [x \in S |-> f[x]]
  BY Zenon
<1>2. g \in [S -> T] /\ \A x \in S : g[x] = f[x]
  BY Zenon, <1>1
<1>3. g \in Bijection(S, T)
  BY <1>1, <1>2 DEF Bijection, Injection, Surjection, IsInjective
<1>4. ExistsBijection(S, T)
  BY Zenon, <1>3 DEF ExistsBijection
<1> QED
  BY Zenon, <1>1, <1>4, FS_Bijection

\* alloc_pid returns an id that nobody has, or -1; the map gains the id.
LEMMA PidFound ==
  ASSUME NEW map \in SUBSET (1 .. PidMax - 1)
  PROVE  /\ AllocPid(map) = -1 \/ AllocPid(map) \in (1 .. PidMax - 1) \ map
         /\ AllocMap(map) = IF AllocPid(map) = -1 THEN map ELSE map \cup {AllocPid(map)}
         /\ AllocMap(map) \in SUBSET (1 .. PidMax - 1) /\ AllocPid(map) \in -1 .. PidMax - 1
<1>1. PICK free : free = (1 .. PidMax - 1) \ map
  BY Zenon
<1>2. free \in SUBSET Nat
  BY <1>1, ProcAssumption
<1>3. free # {} => Min(free) \in free
  BY Zenon, <1>2, LeastNat DEF Min
<1>4. PICK n : n = AllocPid(map)
  BY Zenon
<1>5. n = -1 \/ n \in free
  BY Zenon, <1>1, <1>3, <1>4 DEF AllocPid
<1>6. \A x \in free : x \in 1 .. PidMax - 1 /\ x # -1
  BY <1>1, ProcAssumption
<1>7. AllocMap(map) = IF n = -1 THEN map ELSE map \cup {n}
  BY Zenon, <1>4 DEF AllocMap
<1>8. AllocMap(map) \in SUBSET (1 .. PidMax - 1)
  <2>1. CASE n = -1
    BY Zenon, <1>7, <2>1
  <2>2. CASE n # -1
    <3>1. AllocMap(map) = map \cup {n} /\ n \in 1 .. PidMax - 1
      BY Zenon, <1>5, <1>6, <1>7, <2>2
    <3> QED
      BY Zenon, <3>1
  <2> QED
    BY Zenon, <2>1, <2>2
<1>9. n \in -1 .. PidMax - 1
  BY <1>5, <1>6, ProcAssumption
<1> QED
  BY Zenon, <1>1, <1>4, <1>5, <1>7, <1>8, <1>9

-----------------------------------------------------------------------------
(* fork and create_container.                                                 *)

\* create_proc: the new process has ids of its own, no parent yet and no children.
LEMMA CreateKeeps ==
  ASSUME TreeInd, NEW p \in Slots, NEW k \in Containers, NEW kill \in BOOLEAN, CreateProc(p, k, kill),
         IF rootproc[k] = None THEN IsRootProc(p) ELSE Alive(rootproc[k])
  PROVE  TreeInd'
<1> USE DEF TreeInd
<1>1. PICK c \in Slots :
        /\ pstate[c] = "FREE"
        /\ pstate' = [pstate EXCEPT ![c] = "UNUSED"]
        /\ pid' = [pid EXCEPT ![c] = AllocPid(pidmap)]
        /\ pidmap' = AllocMap(pidmap)
        /\ localpid' = [localpid EXCEPT ![c] = 0]
        /\ childexit' = [childexit EXCEPT ![c] = 0]
        /\ pkilled' = [pkilled EXCEPT ![c] = kill]
        /\ container' = [container EXCEPT ![c] = k]
        /\ rootproc' = [rootproc EXCEPT ![k] = IF @ = None THEN c ELSE @]
        /\ ppc' = [ppc EXCEPT ![p] = "link", ![c] = "user"]
        /\ making' = [making EXCEPT ![p] = c]
  BY Zenon DEF CreateProc
<1>2. /\ pstate[p] = "READY" /\ ppc[p] = "user"
      /\ parent' = parent /\ localmap' = localmap /\ woken' = woken /\ plock' = plock /\ foundNone' = foundNone
  BY Zenon DEF CreateProc, MayCall
<1>3. /\ pstate[c] = "FREE" /\ p # c /\ ppc[c] = "user" /\ ~woken[c] /\ ~woken[p] /\ parent[c] = None /\ c # RootProc
      /\ \A q \in Slots : parent[q] # c
  <2>1. p # c /\ ppc[c] = "user" /\ ~woken[c] /\ ~woken[p]
    BY Zenon, <1>1, <1>2 DEF CallsMatchStates
  <2>2. parent[c] = None /\ c # RootProc /\ \A q \in Slots : parent[q] # c
    BY Zenon, <1>1, ProcAssumption DEF TreeShape, ParentsAlive, Alive
  <2> QED
    BY Zenon, <1>1, <2>1, <2>2
<1>4. pidmap \in SUBSET (1 .. PidMax - 1)
  BY Zenon DEF ProcTypeOK
<1>5. PICK n : /\ n = AllocPid(pidmap) /\ n \in -1 .. PidMax - 1 /\ AllocMap(pidmap) \in SUBSET (1 .. PidMax - 1)
               /\ n = -1 \/ n \in (1 .. PidMax - 1) \ pidmap
               /\ AllocMap(pidmap) = IF n = -1 THEN pidmap ELSE pidmap \cup {n}
  BY Zenon, <1>4, PidFound
<1>6. ProcTypeOK'
  <2>1. pstate' \in [Slots -> PStates] /\ ppc' \in [Slots -> PPcs]
    BY Zenon, <1>1 DEF ProcTypeOK, PStates, PPcs
  <2>2. pid' \in [Slots -> -1 .. PidMax - 1] /\ pidmap' \subseteq 1 .. PidMax - 1
    <3>1. pid' = [pid EXCEPT ![c] = n] /\ pidmap' = AllocMap(pidmap)
      BY Zenon, <1>1, <1>5
    <3>2. pid \in [Slots -> -1 .. PidMax - 1]
      BY Zenon DEF ProcTypeOK
    <3> QED
      BY Zenon, <1>5, <3>1, <3>2
  <2>3. localpid' \in [Slots -> -1 .. PidMax - 1]
    <3>1. 0 \in -1 .. PidMax - 1
      BY ProcAssumption
    <3> QED
      BY Zenon, <1>1, <3>1 DEF ProcTypeOK
  <2>4. childexit' \in [Slots -> Int] /\ container' \in [Slots -> Containers]
    BY <1>1 DEF ProcTypeOK
  <2>5. pkilled' \in [Slots -> BOOLEAN]
    BY Zenon, <1>1 DEF ProcTypeOK
  <2>6. rootproc' \in [Containers -> Slots \cup {None}] /\ making' \in [Slots -> Slots \cup {None}]
    BY Zenon, <1>1 DEF ProcTypeOK
  <2> QED
    BY Zenon, <1>2, <2>1, <2>2, <2>3, <2>4, <2>5, <2>6 DEF ProcTypeOK
<1>7. /\ \A q \in Slots : pstate'[q] = IF q = c THEN "UNUSED" ELSE pstate[q]
      /\ \A q \in Slots : ppc'[q] = IF q = p THEN "link" ELSE ppc[q]
      /\ \A q \in Slots : container'[q] = IF q = c THEN k ELSE container[q]
      /\ \A q \in Slots : making'[q] = IF q = p THEN c ELSE making[q]
      /\ \A h \in Containers : rootproc'[h] = IF h = k /\ rootproc[k] = None THEN c ELSE rootproc[h]
  BY Zenon, <1>1, <1>3 DEF ProcTypeOK
<1>8. /\ \A q \in Slots : pid'[q] = IF q = c THEN n ELSE pid[q]
      /\ \A q \in Slots : localpid'[q] = IF q = c THEN 0 ELSE localpid[q]
      /\ \A q \in Slots : childexit'[q] = IF q = c THEN 0 ELSE childexit[q]
  BY Zenon, <1>1, <1>5 DEF ProcTypeOK
<1>9. ~IsRootProc(c) /\ \A q \in Slots : IsRootProc(q)' <=> IsRootProc(q) \/ (q = c /\ rootproc[k] = None)
  <2>1. ~IsRootProc(c)
    BY Zenon, <1>1, ProcAssumption DEF TreeShape, RootsStay, IsRootProc
  <2> QED
    BY <1>7, <2>1, ProcAssumption DEF IsRootProc
<1>10. \A q \in Slots : /\ Alive(q)' <=> Alive(q)
                        /\ Creating(q)' <=> q = p \/ Creating(q)
  BY Zenon, <1>2, <1>3, <1>7 DEF Alive, Creating
<1>11. CallsMatchStates'
  BY <1>2, <1>3, <1>7 DEF CallsMatchStates
<1>12. ExitHoldsLock'
  BY <1>2, <1>7 DEF TreeShape, ExitHoldsLock
<1>13. ChildrenInTheMaking'
  <2>1. ASSUME NEW q \in Slots, Creating(q)'
        PROVE  /\ making'[q] \in Slots \ {RootProc} /\ pstate'[making'[q]] = "UNUSED"
               /\ parent'[making'[q]] = IF ppc'[q] = "link" THEN None ELSE q
               /\ IsRootProc(making[q])' => IsRootProc(q)'
    <3>1. CASE q = p
      <4>1. making'[q] = c /\ ppc'[q] = "link"
        BY Zenon, <1>7, <3>1
      <4>2. pstate'[c] = "UNUSED" /\ parent'[c] = None
        BY Zenon, <1>2, <1>3, <1>7
      <4>3. IsRootProc(c)' => IsRootProc(p)'
        BY Zenon, <1>9
      <4>4. IsRootProc(making[q])' => IsRootProc(p)'
        BY Zenon, <4>1, <4>3 DEF IsRootProc
      <4> QED
        BY Zenon, <1>3, <3>1, <4>1, <4>2, <4>4
    <3>2. CASE q # p
      <4>1. Creating(q) /\ making'[q] = making[q] /\ ppc'[q] = ppc[q]
        BY Zenon, <1>7, <1>10, <2>1, <3>2
      <4>2. PICK d : d = making[q]
        BY Zenon
      <4>3. /\ d \in Slots \ {RootProc} /\ pstate[d] = "UNUSED" /\ d # c
            /\ parent[d] = IF ppc[q] = "link" THEN None ELSE q
            /\ IsRootProc(d) => IsRootProc(q)
        BY Zenon, <1>1, <4>1, <4>2 DEF TreeShape, ChildrenInTheMaking
      <4>4. IsRootProc(d)' => IsRootProc(q)'
        BY Zenon, <1>9, <4>3
      <4>5. IsRootProc(making[q])' => IsRootProc(q)'
        BY Zenon, <4>1, <4>2, <4>4 DEF IsRootProc
      <4> QED
        BY <1>2, <1>7, <4>1, <4>2, <4>3, <4>5
    <3> QED
      BY Zenon, <3>1, <3>2
  <2>2. ASSUME NEW q \in Slots, NEW r \in Slots, Creating(q)', Creating(r)', making'[q] = making'[r] PROVE q = r
    <3>1. \A s \in Slots : Creating(s) => making[s] # c
      BY Zenon, <1>1 DEF TreeShape, ChildrenInTheMaking
    <3> QED
      BY <1>7, <1>10, <2>2, <3>1 DEF TreeShape, ChildrenInTheMaking
  <2> QED
    BY Zenon, <2>1, <2>2 DEF ChildrenInTheMaking
<1>14. RootsStay'
  <2>1. RootsStay /\ container \in [Slots -> Containers] /\ rootproc \in [Containers -> Slots \cup {None}]
    BY Zenon DEF TreeShape, ProcTypeOK
  <2>2. \A h \in Containers : rootproc[h] # None => rootproc[h] \in Slots \ {c}
    BY Zenon, <1>9, <2>1 DEF IsRootProc
  <2>3. ASSUME NEW h \in Containers, rootproc'[h] # None
        PROVE  /\ container'[rootproc'[h]] = h
               /\ pstate'[rootproc'[h]] \in {"UNUSED", "READY", "SLEEPING"} /\ ppc'[rootproc'[h]] \notin {"closing", "exiting"}
    <3>1. CASE h = k /\ rootproc[k] = None
      BY Zenon, <1>3, <1>7, <3>1
    <3>2. CASE ~(h = k /\ rootproc[k] = None)
      <4>1. PICK r : r = rootproc[h]
        BY Zenon
      <4>2. rootproc'[h] = r /\ r \in Slots \ {c}
        BY Zenon, <1>7, <2>2, <2>3, <3>2, <4>1
      <4>3. container[r] = h /\ pstate[r] \in {"UNUSED", "READY", "SLEEPING"} /\ ppc[r] \notin {"closing", "exiting"}
        BY Zenon, <2>1, <2>3, <4>1, <4>2, ProcAssumption DEF RootsStay
      <4> QED
        BY Zenon, <1>7, <4>2, <4>3
    <3> QED
      BY Zenon, <3>1, <3>2
  <2>4. ASSUME NEW q \in Slots, pstate'[q] # "FREE"
        PROVE  /\ rootproc'[container'[q]] # None
               /\ q # rootproc'[container'[q]] => Alive(rootproc[container[q]])'
    <3>1. CASE q = c
      <4>1. container'[q] = k
        BY Zenon, <1>7, <3>1
      <4>2. CASE rootproc[k] = None
        <5>1. rootproc'[k] = c
          BY Zenon, <1>7, <4>2
        <5> QED
          BY Zenon, <3>1, <4>1, <5>1, ProcAssumption
      <4>3. CASE rootproc[k] # None
        <5>1. PICK r : r = rootproc[k]
          BY Zenon
        <5>2. rootproc'[k] = r /\ r \in Slots /\ Alive(r)
          BY Zenon, <1>7, <2>2, <4>3, <5>1
        <5>3. Alive(r)'
          BY Zenon, <1>10, <5>2
        <5> QED
          BY Zenon, <4>1, <4>3, <5>1, <5>2, <5>3 DEF Alive
      <4> QED
        BY Zenon, <4>2, <4>3
    <3>2. CASE q # c
      <4>1. PICK h, r : h = container[q] /\ r = rootproc[h]
        BY Zenon
      <4>2. pstate[q] # "FREE" /\ h \in Containers /\ container'[q] = h
        BY Zenon, <1>7, <2>1, <2>4, <3>2, <4>1
      <4>3. r # None /\ (q # r => Alive(r)) /\ r \in Slots
        BY Zenon, <2>1, <2>2, <4>1, <4>2 DEF RootsStay
      <4>4. rootproc'[h] = r
        BY Zenon, <1>7, <4>1, <4>2, <4>3
      <4>5. q # r => Alive(r)'
        BY Zenon, <1>10, <4>3
      <4> QED
        BY Zenon, <4>2, <4>3, <4>4, <4>5 DEF Alive
    <3> QED
      BY Zenon, <3>1, <3>2
  <2>5. ASSUME NEW q \in Slots, IsRootProc(q)', parent'[q] # None PROVE IsRootProc(parent[q])'
    <3>1. PICK r : r = parent[q]
      BY Zenon
    <3>2. q # c /\ IsRootProc(q)
      BY Zenon, <1>2, <1>3, <1>9, <2>5
    <3>3. r # None /\ IsRootProc(r) /\ r \in Slots
      BY <1>2, <2>1, <2>5, <3>1, <3>2 DEF RootsStay, ProcTypeOK
    <3>4. IsRootProc(r)'
      BY Zenon, <1>9, <3>3
    <3> QED
      BY Zenon, <1>2, <3>1, <3>4 DEF IsRootProc
  <2>6. rootproc'[RootCont] = RootProc
    BY <1>7, <2>1, ProcAssumption DEF RootsStay
  <2> QED
    BY Zenon, <2>3, <2>4, <2>5, <2>6 DEF RootsStay
<1>15. ParentsAlive'
  <2>1. ParentsAlive /\ RootProc \in Slots /\ \A q \in Slots : parent[q] # None => parent[q] \in Slots
    BY Zenon, ProcAssumption DEF TreeShape, ProcTypeOK
  <2>2. Alive(RootProc)' /\ parent'[RootProc] = RootProc
    BY Zenon, <1>2, <1>10, <2>1 DEF ParentsAlive
  <2>3. \A q \in Slots : parent'[q] # None => Alive(parent[q])' /\ pstate'[q] # "FREE"
    BY Zenon, <1>2, <1>7, <1>10, <2>1 DEF ParentsAlive
  <2>4. \A q \in Slots : pstate'[q] \in {"READY", "SLEEPING", "ZOMBIE"} => parent'[q] # None
    BY Zenon, <1>2, <1>7, <2>1 DEF ParentsAlive
  <2> QED
    BY Zenon, <1>2, <2>2, <2>3, <2>4 DEF ParentsAlive
<1>16. NoCycle'
  BY Zenon, <1>2 DEF TreeShape, NoCycle
<1>17. IdsDistinct'
  <2>1. \A q : q \in Live' <=> q \in Live \/ (q = c /\ n # -1)
    <3> SUFFICES ASSUME NEW q PROVE q \in Live' <=> q \in Live \/ (q = c /\ n # -1)
      BY Zenon
    <3>4. c \in Slots /\ pstate[c] = "FREE"
      BY Zenon, <1>1
    <3>5. c \notin Live
      BY Zenon, <3>4 DEF Live
    <3>6. pid'[c] = n
      BY Zenon, <1>8, <3>4
    <3>7. pstate'[c] = "UNUSED"
      BY Zenon, <1>7, <3>4
    <3>8. pstate'[c] # "FREE"
      BY <3>7
    <3>1. c \in Slots /\ c \notin Live /\ pstate'[c] # "FREE" /\ pid'[c] = n
      BY Zenon, <3>4, <3>5, <3>6, <3>8
    <3>2. CASE q = c
      BY Zenon, <3>1, <3>2 DEF Live
    <3>3. CASE q # c
      <4>1. q \in Slots => pstate'[q] = pstate[q] /\ pid'[q] = pid[q]
        BY Zenon, <1>7, <1>8, <3>3
      <4> QED
        BY Zenon, <3>3, <4>1 DEF Live
    <3> QED
      BY Zenon, <3>2, <3>3
  <2>2. IdsDistinct /\ c \notin Live
    BY Zenon, <1>1 DEF TreeShape, Live
  <2>3. pidmap' = {pid'[q] : q \in Live'} /\ \A q, r \in Live' : pid'[q] = pid'[r] => q = r
    <3>1. \A x : x \in pidmap' <=> x \in pidmap \/ (x = n /\ n # -1)
      BY Zenon, <1>1, <1>5
    <3>2. \A q \in Live : q \in Slots /\ pid'[q] = pid[q] /\ pid[q] \in pidmap
      BY Zenon, <1>8, <2>2 DEF IdsDistinct, Live
    <3>3. pid'[c] = n /\ (n # -1 => n \notin pidmap)
      BY Zenon, <1>5, <1>8
    <3>4. pidmap' = {pid'[q] : q \in Live'}
      <4>1. \A x : x \in pidmap <=> \E q \in Live : x = pid[q]
        BY Zenon, <2>2 DEF IdsDistinct
      <4>2. ASSUME NEW q \in Live' PROVE pid'[q] \in pidmap'
        <5>1. CASE q \in Live
          BY Zenon, <3>1, <3>2, <5>1
        <5>2. CASE q = c /\ n # -1
          BY Zenon, <3>1, <3>3, <5>2
        <5> QED
          BY Zenon, <2>1, <5>1, <5>2
      <4>3. ASSUME NEW x \in pidmap' PROVE \E q \in Live' : x = pid'[q]
        <5>1. CASE x = n /\ n # -1
          BY Zenon, <2>1, <3>3, <5>1
        <5>2. CASE x \in pidmap
          <6>1. PICK q \in Live : x = pid[q]
            BY Zenon, <4>1, <5>2
          <6> QED
            BY Zenon, <2>1, <3>2, <6>1
        <5> QED
          BY Zenon, <3>1, <5>1, <5>2
      <4> QED
        BY Zenon, <4>2, <4>3
    <3>5. \A q \in Live : n # -1 => pid'[q] # pid'[c]
      BY Zenon, <3>2, <3>3
    <3>6. ASSUME NEW q \in Live', NEW r \in Live', pid'[q] = pid'[r] PROVE q = r
      <4>1. CASE q \in Live /\ r \in Live
        BY Zenon, <2>2, <3>2, <3>6, <4>1 DEF IdsDistinct
      <4>2. CASE q \in Live /\ r = c /\ n # -1
        BY Zenon, <3>5, <3>6, <4>2
      <4>3. CASE q = c /\ n # -1 /\ r \in Live
        BY Zenon, <3>5, <3>6, <4>3
      <4>4. CASE q = c /\ r = c
        BY Zenon, <4>4
      <4>5. (q \in Live \/ (q = c /\ n # -1)) /\ (r \in Live \/ (r = c /\ n # -1))
        BY Zenon, <2>1
      <4> QED
        BY Zenon, <4>1, <4>2, <4>3, <4>4, <4>5
    <3> QED
      BY Zenon, <3>4, <3>6
  <2>4. \A h \in Containers : StartedIn(h)' = StartedIn(h)
    <3> SUFFICES ASSUME NEW h \in Containers, NEW q PROVE q \in StartedIn(h)' <=> q \in StartedIn(h)
      BY Zenon
    <3>1. c \notin StartedIn(h)' /\ c \notin StartedIn(h)
      BY Zenon, <1>1, <1>7 DEF StartedIn
    <3>2. CASE q = c
      BY Zenon, <3>1, <3>2
    <3>3. CASE q # c
      BY Zenon, <1>7, <1>8, <3>3 DEF StartedIn
    <3> QED
      BY Zenon, <3>2, <3>3
  <2>5. \A h \in Containers : \A q \in StartedIn(h) : localpid'[q] = localpid[q]
    BY Zenon, <1>1, <1>8 DEF StartedIn
  <2>6. ASSUME NEW h \in Containers
        PROVE  /\ localmap'[h] = {localpid'[q] : q \in StartedIn(h)'}
               /\ \A q, r \in StartedIn(h)' : localpid'[q] = localpid'[r] => q = r
    BY <1>2, <2>2, <2>4, <2>5 DEF IdsDistinct
  <2> QED
    BY Zenon, <2>3, <2>6 DEF IdsDistinct
<1>18. \A q \in Slots : Dead(q)' = Dead(q)
  BY <1>2, <1>3, <1>7 DEF Dead, Children
<1>19. UnitForReaper' /\ WaitFindsZombie'
  BY <1>2, <1>3, <1>7, <1>8 DEF UnitForReaper, WaitFindsZombie
<1>20. ChildexitCountsZombies'
  <2>1. ASSUME NEW q \in Slots, pstate'[q] \notin {"FREE", "ZOMBIE"} /\ ppc'[q] \notin {"closing", "exiting"} PROVE Counted(q)'
    <3>1. CASE q = c
      <4>1. Dead(q) = {}
        BY Zenon, <1>3, <3>1 DEF Dead, Children
      <4>2. childexit'[q] = 0 /\ ppc'[q] = "user"
        BY Zenon, <1>3, <1>7, <1>8, <3>1
      <4> QED
        BY <1>18, <4>1, <4>2, FS_EmptySet DEF Counted, Sleeps
    <3>2. CASE q # c
      <4>1. pstate[q] \notin {"FREE", "ZOMBIE"} /\ ppc[q] \notin {"closing", "exiting"}
        BY Zenon, <1>2, <1>7, <2>1, <3>2
      <4>2. Counted(q)
        BY Zenon, <4>1, CountsAre
      <4> QED
        BY Zenon, <1>2, <1>7, <1>8, <1>18, <3>2, <4>2 DEF Counted, Sleeps
    <3> QED
      BY Zenon, <3>1, <3>2
  <2> QED
    BY Zenon, <2>1, CountsAre DEF ChildexitCountsZombies, Counted, Dead
<1> QED
  BY Zenon, <1>6, <1>11, <1>12, <1>13, <1>14, <1>15, <1>16, <1>17, <1>19, <1>20 DEF TreeShape

\* set_parent_to_this: the new process has no children, so no cycle closes.
LEMMA LinkKeeps == ASSUME TreeInd, NEW p \in Slots, SetParentToThis(p) PROVE TreeInd'
<1> USE DEF TreeInd
<1>1. PICK c : c = making[p]
  BY Zenon
<1>2. /\ ppc[p] = "link" /\ parent' = [parent EXCEPT ![c] = p] /\ ppc' = [ppc EXCEPT ![p] = "start"]
      /\ pstate' = pstate /\ container' = container /\ rootproc' = rootproc /\ pid' = pid
      /\ localpid' = localpid /\ pidmap' = pidmap /\ localmap' = localmap /\ childexit' = childexit
      /\ woken' = woken /\ pkilled' = pkilled /\ plock' = plock /\ making' = making /\ foundNone' = foundNone
  BY Zenon, <1>1 DEF SetParentToThis
<1>3. /\ c \in Slots \ {RootProc} /\ pstate[c] = "UNUSED" /\ parent[c] = None
      /\ IsRootProc(c) => IsRootProc(p)
      /\ pstate[p] = "READY" /\ Alive(p) /\ p # c /\ ppc[c] = "user" /\ ~woken[p]
      /\ \A q \in Slots : parent[q] # c
  <2>1. /\ c \in Slots \ {RootProc} /\ pstate[c] = "UNUSED" /\ parent[c] = None
        /\ IsRootProc(c) => IsRootProc(p)
    BY Zenon, <1>1, <1>2 DEF Creating, TreeShape, ChildrenInTheMaking
  <2>2. pstate[p] = "READY" /\ Alive(p) /\ p # c /\ ppc[c] = "user" /\ ~woken[p]
    BY Zenon, <1>2, <2>1 DEF CallsMatchStates, ProcTypeOK, PStates, Alive
  <2>3. \A q \in Slots : parent[q] # c
    BY Zenon, <2>1, ProcAssumption DEF TreeShape, ParentsAlive, Alive
  <2> QED
    BY Zenon, <2>1, <2>2, <2>3
<1>4. /\ \A q \in Slots : parent'[q] = IF q = c THEN p ELSE parent[q]
      /\ \A q \in Slots : ppc'[q] = IF q = p THEN "start" ELSE ppc[q]
  BY Zenon, <1>2, <1>3 DEF ProcTypeOK
<1>5. ProcTypeOK'
  <2>1. parent' \in [Slots -> Slots \cup {None}] /\ ppc' \in [Slots -> PPcs]
    BY Zenon, <1>2, <1>3 DEF ProcTypeOK, PPcs
  <2> QED
    BY Zenon, <1>2, <2>1 DEF ProcTypeOK
<1>6. \A q \in Slots : /\ IsRootProc(q)' <=> IsRootProc(q)
                       /\ Alive(q)' <=> Alive(q)
                       /\ Creating(q)' <=> Creating(q)
  BY <1>2, <1>3, <1>4 DEF IsRootProc, Alive, Creating
<1>7. CallsMatchStates'
  BY <1>2, <1>3, <1>4 DEF CallsMatchStates
<1>8. ExitHoldsLock'
  BY <1>2, <1>4 DEF TreeShape, ExitHoldsLock
<1>9. ChildrenInTheMaking'
  <2>1. ASSUME NEW q \in Slots, Creating(q), q # p PROVE making[q] # c
    BY Zenon, <1>1, <1>2, <2>1 DEF TreeShape, ChildrenInTheMaking, Creating
  <2>2. ASSUME NEW q \in Slots, Creating(q)'
        PROVE  /\ making'[q] \in Slots \ {RootProc} /\ pstate'[making'[q]] = "UNUSED"
               /\ parent'[making'[q]] = IF ppc'[q] = "link" THEN None ELSE q
               /\ IsRootProc(making[q])' => IsRootProc(q)'
    <3>1. PICK d : d = making[q]
      BY Zenon
    <3>2. /\ d \in Slots \ {RootProc} /\ pstate[d] = "UNUSED"
          /\ parent[d] = IF ppc[q] = "link" THEN None ELSE q
          /\ IsRootProc(d) => IsRootProc(q)
      BY Zenon, <1>6, <2>2, <3>1 DEF TreeShape, ChildrenInTheMaking
    <3>3. parent'[d] = IF ppc'[q] = "link" THEN None ELSE q
      <4>1. CASE q = p
        BY Zenon, <1>1, <1>4, <3>1, <3>2, <4>1
      <4>2. CASE q # p
        BY Zenon, <1>4, <1>6, <2>1, <2>2, <3>1, <3>2, <4>2
      <4> QED
        BY Zenon, <4>1, <4>2
    <3>4. IsRootProc(making[q])' => IsRootProc(q)'
      BY Zenon, <1>2, <3>1, <3>2 DEF IsRootProc
    <3> QED
      BY Zenon, <1>2, <3>1, <3>2, <3>3, <3>4
  <2>3. \A q, r \in Slots : Creating(q)' /\ Creating(r)' /\ making'[q] = making'[r] => q = r
    BY Zenon, <1>2, <1>6 DEF TreeShape, ChildrenInTheMaking
  <2> QED
    BY Zenon, <2>2, <2>3 DEF ChildrenInTheMaking
<1>10. RootsStay'
  <2>1. RootsStay /\ container \in [Slots -> Containers] /\ rootproc \in [Containers -> Slots \cup {None}]
    BY Zenon DEF TreeShape, ProcTypeOK
  <2>2. \A k \in Containers : rootproc[k] # None => rootproc[k] \in Slots
    BY Zenon, <2>1
  <2>3. \A q \in Slots : container[q] \in Containers
    BY Zenon, <2>1
  <2>4. ASSUME NEW q \in Slots, IsRootProc(q)', parent'[q] # None PROVE IsRootProc(parent[q])'
    <3>1. PICK r : r = parent'[q]
      BY Zenon
    <3>2. IsRootProc(q)
      BY Zenon, <1>6, <2>4
    <3>3. IsRootProc(r)
      BY <1>3, <1>4, <2>1, <2>4, <3>1, <3>2 DEF RootsStay
    <3> QED
      BY Zenon, <1>2, <3>1, <3>3 DEF IsRootProc
  <2>5. \A k \in Containers : rootproc'[k] # None =>
          /\ container'[rootproc'[k]] = k
          /\ pstate'[rootproc'[k]] \in {"UNUSED", "READY", "SLEEPING"} /\ ppc'[rootproc'[k]] \notin {"closing", "exiting"}
    BY <1>2, <1>4, <2>1, <2>2 DEF RootsStay
  <2>6. \A q \in Slots : pstate'[q] # "FREE" =>
          /\ rootproc'[container'[q]] # None
          /\ q # rootproc'[container'[q]] => Alive(rootproc[container[q]])'
    BY Zenon, <1>2, <1>6, <2>1, <2>2, <2>3 DEF RootsStay
  <2> QED
    BY Zenon, <1>2, <2>1, <2>4, <2>5, <2>6 DEF RootsStay
<1>11. ParentsAlive'
  <2>1. ParentsAlive /\ RootProc \in Slots /\ \A q \in Slots : parent[q] # None => parent[q] \in Slots
    BY Zenon, ProcAssumption DEF TreeShape, ProcTypeOK
  <2>2. Alive(RootProc)' /\ parent'[RootProc] = RootProc
    BY Zenon, <1>3, <1>4, <1>6, <2>1 DEF ParentsAlive
  <2>3. ASSUME NEW q \in Slots, parent'[q] # None PROVE Alive(parent[q])' /\ pstate'[q] # "FREE"
    <3>1. PICK r : r = parent'[q]
      BY Zenon
    <3>2. r \in Slots /\ Alive(r) /\ pstate[q] # "FREE"
      BY Zenon, <1>3, <1>4, <2>1, <2>3, <3>1 DEF ParentsAlive
    <3>3. Alive(r)'
      BY Zenon, <1>6, <3>2
    <3> QED
      BY Zenon, <1>2, <3>1, <3>2, <3>3 DEF Alive
  <2>4. \A q \in Slots : pstate'[q] \in {"READY", "SLEEPING", "ZOMBIE"} => parent'[q] # None
    BY <1>2, <1>4, <2>1, ProcAssumption DEF ParentsAlive
  <2> QED
    BY Zenon, <2>2, <2>3, <2>4 DEF ParentsAlive
<1>12. NoCycle'
  <2> SUFFICES ASSUME NEW S \in SUBSET (Slots \ {RootProc}), S # {} PROVE \E q \in S : parent'[q] \notin S
    BY Zenon DEF NoCycle
  <2>1. CASE S \ {c} = {}
    <3>1. c \in S /\ p \notin S
      BY Zenon, <1>3, <2>1
    <3> QED
      BY Zenon, <1>3, <1>4, <3>1
  <2>2. CASE S \ {c} # {}
    <3>1. S \ {c} \in SUBSET (Slots \ {RootProc})
      BY Zenon
    <3>2. PICK q \in S \ {c} : parent[q] \notin S \ {c}
      BY Zenon, <2>2, <3>1 DEF TreeShape, NoCycle
    <3>3. parent'[q] = parent[q] /\ parent[q] # c
      BY Zenon, <1>3, <1>4, <3>2
    <3> QED
      BY Zenon, <3>2, <3>3
  <2> QED
    BY Zenon, <2>1, <2>2
<1>13. IdsDistinct'
  <2>1. Live' = Live /\ \A h \in Containers : StartedIn(h)' = StartedIn(h)
    BY Zenon, <1>2 DEF Live, StartedIn
  <2>2. IdsDistinct /\ pid' = pid /\ localpid' = localpid /\ pidmap' = pidmap /\ localmap' = localmap
    BY Zenon, <1>2 DEF TreeShape
  <2> QED
    BY <2>1, <2>2 DEF IdsDistinct
<1>14. \A q \in Slots : Dead(q)' = Dead(q)
  <2>1. ASSUME NEW r \in Slots
        PROVE  /\ pstate'[r] = "ZOMBIE" \/ ppc'[r] = "exiting" <=> pstate[r] = "ZOMBIE" \/ ppc[r] = "exiting"
               /\ r = c => ~(pstate[r] = "ZOMBIE" \/ ppc[r] = "exiting")
    <3>1. pstate'[r] = pstate[r] /\ (ppc'[r] = "exiting" <=> ppc[r] = "exiting")
      <4>1. ppc[p] = "link" /\ ppc'[p] = "start" /\ (r # p => ppc'[r] = ppc[r]) /\ pstate' = pstate
        BY Zenon, <1>2, <1>4
      <4> QED
        BY Zenon, <4>1
    <3> QED
      BY Zenon, <1>3, <3>1
  <2>2. \A r \in Slots : r # c => parent'[r] = parent[r]
    BY Zenon, <1>4
  <2> QED
    BY Zenon, <2>1, <2>2 DEF Dead, Children
<1>15. UnitForReaper' /\ WaitFindsZombie'
  BY <1>2, <1>3, <1>4 DEF UnitForReaper, WaitFindsZombie
<1>16. ChildexitCountsZombies'
  <2>1. ASSUME NEW q \in Slots, pstate'[q] \notin {"FREE", "ZOMBIE"} /\ ppc'[q] \notin {"closing", "exiting"} PROVE Counted(q)'
    <3>1. pstate[q] \notin {"FREE", "ZOMBIE"} /\ ppc[q] \notin {"closing", "exiting"}
      BY Zenon, <1>2, <1>4, <2>1
    <3>2. Counted(q)
      BY Zenon, <3>1, CountsAre
    <3> QED
      BY <1>2, <1>4, <1>14, <3>2 DEF Counted, Sleeps
  <2> QED
    BY Zenon, <2>1, CountsAre DEF ChildexitCountsZombies, Counted, Dead
<1> QED
  BY Zenon, <1>5, <1>7, <1>8, <1>9, <1>10, <1>11, <1>12, <1>13, <1>15, <1>16 DEF TreeShape

\* start_proc: the process gets an id of its container that no one there has.
LEMMA StartKeeps == ASSUME TreeInd, NEW p \in Slots, StartProc(p) PROVE TreeInd'
<1> USE DEF TreeInd
<1>1. PICK c, k : c = making[p] /\ k = container[c]
  BY Zenon
<1>2. PICK n, m : n = AllocPid(localmap[k]) /\ m = AllocMap(localmap[k])
  BY Zenon
<1>3. /\ ppc[p] = "start" /\ localpid' = [localpid EXCEPT ![c] = n]
      /\ localmap' = [localmap EXCEPT ![k] = m]
      /\ pstate' = [pstate EXCEPT ![c] = "READY"]
      /\ parent' = [parent EXCEPT ![c] = IF @ = None THEN RootProc ELSE @]
      /\ making' = [making EXCEPT ![p] = None] /\ ppc' = [ppc EXCEPT ![p] = "user"]
      /\ container' = container /\ rootproc' = rootproc /\ pid' = pid /\ pidmap' = pidmap
      /\ childexit' = childexit /\ woken' = woken /\ pkilled' = pkilled /\ plock' = plock
      /\ foundNone' = foundNone
  BY Zenon, <1>1, <1>2 DEF StartProc
<1>4. /\ c \in Slots \ {RootProc} /\ pstate[c] = "UNUSED" /\ parent[c] = p /\ k \in Containers
      /\ pstate[p] = "READY" /\ p # c /\ ppc[c] = "user" /\ ~woken[p] /\ ~woken[c]
  <2>1. c \in Slots \ {RootProc} /\ pstate[c] = "UNUSED" /\ parent[c] = p
    BY Zenon, <1>1, <1>3 DEF Creating, TreeShape, ChildrenInTheMaking
  <2>2. pstate[p] = "READY" /\ p # c /\ ppc[c] = "user" /\ ~woken[p] /\ ~woken[c]
    BY Zenon, <1>3, <2>1 DEF CallsMatchStates, ProcTypeOK, PStates
  <2> QED
    BY Zenon, <1>1, <2>1, <2>2 DEF ProcTypeOK
<1>5. parent' = parent
  BY Zenon, <1>3, <1>4, ProcAssumption DEF ProcTypeOK
<1>6. /\ n \in -1 .. PidMax - 1 /\ m \in SUBSET (1 .. PidMax - 1)
      /\ n = -1 \/ n \in (1 .. PidMax - 1) \ localmap[k]
      /\ m = IF n = -1 THEN localmap[k] ELSE localmap[k] \cup {n}
  <2>1. localmap[k] \in SUBSET (1 .. PidMax - 1)
    BY Zenon, <1>4 DEF ProcTypeOK
  <2> QED
    BY Zenon, <1>2, <2>1, PidFound
<1>7. /\ \A q \in Slots : pstate'[q] = IF q = c THEN "READY" ELSE pstate[q]
      /\ \A q \in Slots : ppc'[q] = IF q = p THEN "user" ELSE ppc[q]
      /\ \A q \in Slots : q # p => making'[q] = making[q]
      /\ \A q \in Slots : localpid'[q] = IF q = c THEN n ELSE localpid[q]
      /\ \A h \in Containers : localmap'[h] = IF h = k THEN m ELSE localmap[h]
  BY Zenon, <1>3, <1>4 DEF ProcTypeOK
<1>8. ProcTypeOK'
  <2>1. pstate' \in [Slots -> PStates] /\ ppc' \in [Slots -> PPcs]
    BY Zenon, <1>3 DEF ProcTypeOK, PStates, PPcs
  <2>2. making' \in [Slots -> Slots \cup {None}]
    BY Zenon, <1>3 DEF ProcTypeOK
  <2>3. localpid' \in [Slots -> -1 .. PidMax - 1]
    BY Zenon, <1>3, <1>6 DEF ProcTypeOK
  <2>4. localmap' \in [Containers -> SUBSET (1 .. PidMax - 1)]
    BY Zenon, <1>3, <1>6 DEF ProcTypeOK
  <2> QED
    BY Zenon, <1>3, <1>5, <2>1, <2>2, <2>3, <2>4 DEF ProcTypeOK
<1>9. \A q \in Slots : /\ IsRootProc(q)' <=> IsRootProc(q)
                       /\ Alive(q)' <=> Alive(q) \/ q = c
                       /\ Creating(q)' => Creating(q) /\ q # p
  BY <1>3, <1>4, <1>7 DEF IsRootProc, Alive, Creating
<1>10. CallsMatchStates'
  BY <1>3, <1>4, <1>7 DEF CallsMatchStates
<1>11. ExitHoldsLock'
  BY <1>3, <1>7 DEF TreeShape, ExitHoldsLock
<1>12. ChildrenInTheMaking'
  <2>1. Creating(p)
    BY Zenon, <1>3 DEF Creating
  <2>2. ASSUME NEW q \in Slots, Creating(q)'
        PROVE  /\ making'[q] \in Slots \ {RootProc} /\ pstate'[making'[q]] = "UNUSED"
               /\ parent'[making'[q]] = IF ppc'[q] = "link" THEN None ELSE q
               /\ IsRootProc(making[q])' => IsRootProc(q)'
    <3>1. PICK d : d = making[q]
      BY Zenon
    <3>2. Creating(q) /\ q # p /\ making'[q] = d /\ d # c
      BY Zenon, <1>1, <1>7, <1>9, <2>1, <2>2, <3>1 DEF TreeShape, ChildrenInTheMaking
    <3>3. /\ d \in Slots \ {RootProc} /\ pstate[d] = "UNUSED"
          /\ parent[d] = IF ppc[q] = "link" THEN None ELSE q
          /\ IsRootProc(d) => IsRootProc(q)
      BY <3>1, <3>2 DEF TreeShape, ChildrenInTheMaking
    <3>4. IsRootProc(d)' => IsRootProc(q)'
      BY Zenon, <1>9, <3>3
    <3>5. IsRootProc(making[q])' => IsRootProc(q)'
      BY Zenon, <3>2, <3>4 DEF IsRootProc
    <3> QED
      BY Zenon, <1>5, <1>7, <3>2, <3>3, <3>5
  <2>3. \A q, r \in Slots : Creating(q)' /\ Creating(r)' /\ making'[q] = making'[r] => q = r
    BY <1>7, <1>9 DEF TreeShape, ChildrenInTheMaking
  <2> QED
    BY Zenon, <2>2, <2>3 DEF ChildrenInTheMaking
<1>13. RootsStay'
  <2>1. RootsStay /\ container \in [Slots -> Containers] /\ rootproc \in [Containers -> Slots \cup {None}]
    BY Zenon DEF TreeShape, ProcTypeOK
  <2>2. \A h \in Containers : rootproc[h] # None => rootproc[h] \in Slots
    BY Zenon, <2>1
  <2>3. \A q \in Slots : container[q] \in Containers
    BY Zenon, <2>1
  <2>4. ASSUME NEW q \in Slots, IsRootProc(q)', parent'[q] # None PROVE IsRootProc(parent[q])'
    <3>1. IsRootProc(q) /\ parent[q] # None
      BY Zenon, <1>5, <1>9, <2>4
    <3>2. IsRootProc(parent[q])
      BY Zenon, <2>1, <3>1 DEF RootsStay
    <3> QED
      BY Zenon, <1>3, <1>5, <3>2 DEF IsRootProc
  <2>5. \A h \in Containers : rootproc'[h] # None =>
          /\ container'[rootproc'[h]] = h
          /\ pstate'[rootproc'[h]] \in {"UNUSED", "READY", "SLEEPING"} /\ ppc'[rootproc'[h]] \notin {"closing", "exiting"}
    <3> SUFFICES ASSUME NEW h \in Containers, rootproc'[h] # None
                 PROVE  /\ container'[rootproc'[h]] = h
                        /\ pstate'[rootproc'[h]] \in {"UNUSED", "READY", "SLEEPING"}
                        /\ ppc'[rootproc'[h]] \notin {"closing", "exiting"}
      BY Zenon
    <3>1. PICK r : r = rootproc[h]
      BY Zenon
    <3>2. /\ r \in Slots /\ container[r] = h
          /\ pstate[r] \in {"UNUSED", "READY", "SLEEPING"} /\ ppc[r] \notin {"closing", "exiting"}
      BY Zenon, <1>3, <2>1, <2>2, <3>1 DEF RootsStay
    <3>3. pstate'[r] \in {"UNUSED", "READY", "SLEEPING"} /\ ppc'[r] \notin {"closing", "exiting"}
      BY Zenon, <1>7, <3>2
    <3> QED
      BY Zenon, <1>3, <3>1, <3>2, <3>3
  <2>6. \A q \in Slots : pstate'[q] # "FREE" =>
          /\ rootproc'[container'[q]] # None
          /\ q # rootproc'[container'[q]] => Alive(rootproc[container[q]])'
    <3> SUFFICES ASSUME NEW q \in Slots, pstate'[q] # "FREE"
                 PROVE  /\ rootproc'[container'[q]] # None
                        /\ q # rootproc'[container'[q]] => Alive(rootproc[container[q]])'
      BY Zenon
    <3>1. PICK r : r = rootproc[container[q]]
      BY Zenon
    <3>2. pstate[q] # "FREE"
      BY Zenon, <1>4, <1>7
    <3>3. r # None /\ r \in Slots /\ (q # r => Alive(r))
      BY Zenon, <2>1, <2>2, <2>3, <3>1, <3>2 DEF RootsStay
    <3>4. q # r => Alive(r)'
      BY Zenon, <1>9, <3>3
    <3> QED
      BY Zenon, <1>3, <3>1, <3>3, <3>4 DEF Alive
  <2> QED
    BY Zenon, <1>3, <2>1, <2>4, <2>5, <2>6 DEF RootsStay
<1>14. ParentsAlive'
  <2>1. ParentsAlive /\ RootProc \in Slots /\ \A q \in Slots : parent[q] # None => parent[q] \in Slots
    BY Zenon, ProcAssumption DEF TreeShape, ProcTypeOK
  <2>2. Alive(RootProc)' /\ parent'[RootProc] = RootProc
    BY Zenon, <1>5, <1>9, <2>1 DEF ParentsAlive
  <2>3. \A q \in Slots : parent'[q] # None => Alive(parent[q])' /\ pstate'[q] # "FREE"
    BY Zenon, <1>5, <1>7, <1>9, <2>1 DEF ParentsAlive
  <2>4. \A q \in Slots : pstate'[q] \in {"READY", "SLEEPING", "ZOMBIE"} => parent'[q] # None
    <3>1. parent'[c] # None
      BY Zenon, <1>4, <1>5, ProcAssumption
    <3>2. \A q \in Slots : q # c => pstate'[q] = pstate[q] /\ parent'[q] = parent[q]
      BY Zenon, <1>5, <1>7
    <3> QED
      BY Zenon, <2>1, <3>1, <3>2 DEF ParentsAlive
  <2> QED
    BY Zenon, <1>5, <2>2, <2>3, <2>4 DEF ParentsAlive
<1>15. NoCycle'
  BY Zenon, <1>5 DEF TreeShape, NoCycle
<1>16. IdsDistinct'
  <2>1. IdsDistinct
    BY Zenon DEF TreeShape
  <2>2. Live' = Live
    <3>1. \A q \in Slots : pstate'[q] # "FREE" <=> pstate[q] # "FREE"
      BY Zenon, <1>4, <1>7
    <3> QED
      BY Zenon, <1>3, <3>1 DEF Live
  <2>3. pidmap' = {pid'[q] : q \in Live'} /\ \A q, r \in Live' : pid'[q] = pid'[r] => q = r
    BY <1>3, <2>1, <2>2 DEF IdsDistinct
  <2>4. ASSUME NEW h \in Containers
        PROVE  /\ localmap'[h] = {localpid'[q] : q \in StartedIn(h)'}
               /\ \A q, r \in StartedIn(h)' : localpid'[q] = localpid'[r] => q = r
    <3>1. \A q \in StartedIn(h) : q \in Slots /\ q # c /\ localpid'[q] = localpid[q]
      BY Zenon, <1>4, <1>7 DEF StartedIn
    <3>2. localmap[h] = {localpid[q] : q \in StartedIn(h)} /\ \A q, r \in StartedIn(h) : localpid[q] = localpid[r] => q = r
      BY Zenon, <2>1 DEF IdsDistinct
    <3>3. localpid'[c] = n /\ pstate'[c] = "READY" /\ container'[c] = k /\ c \notin StartedIn(h)
      BY Zenon, <1>1, <1>3, <1>4, <1>7 DEF StartedIn
    <3>4. ASSUME NEW q PROVE q \in StartedIn(h)' <=> q \in StartedIn(h) \/ (q = c /\ h = k /\ n # -1)
      <4>1. CASE q = c
        <5>1. c \in StartedIn(h)' <=> h = k /\ n # -1
          BY <1>4, <3>3 DEF StartedIn
        <5> QED
          BY Zenon, <3>3, <4>1, <5>1
      <4>2. CASE q # c
        BY Zenon, <1>3, <1>7, <4>2 DEF StartedIn
      <4> QED
        BY Zenon, <4>1, <4>2
    <3>5. CASE h # k \/ n = -1
      <4>1. StartedIn(h)' = StartedIn(h)
        BY Zenon, <3>4, <3>5
      <4>2. localmap'[h] = localmap[h]
        BY Zenon, <1>4, <1>6, <1>7, <3>5
      <4> QED
        BY <3>1, <3>2, <4>1, <4>2
    <3>6. CASE h = k /\ n # -1
      <4>1. StartedIn(h)' = StartedIn(h) \cup {c}
        BY Zenon, <3>4, <3>6
      <4>2. localpid'[c] = n /\ localmap'[h] = localmap[h] \cup {n} /\ n \notin localmap[h]
        BY Zenon, <1>4, <1>6, <1>7, <3>3, <3>6
      <4>3. localmap'[h] = {localpid'[q] : q \in StartedIn(h)'}
        BY <3>1, <3>2, <4>1, <4>2
      <4>4. \A q, r \in StartedIn(h)' : localpid'[q] = localpid'[r] => q = r
        BY <3>1, <3>2, <4>1, <4>2
      <4> QED
        BY Zenon, <4>3, <4>4
    <3> QED
      BY Zenon, <3>5, <3>6
  <2> QED
    BY Zenon, <2>3, <2>4 DEF IdsDistinct
<1>17. \A q \in Slots : Dead(q)' = Dead(q)
  <2>1. \A r \in Slots : pstate'[r] = "ZOMBIE" <=> pstate[r] = "ZOMBIE"
    BY Zenon, <1>4, <1>7
  <2>2. \A r \in Slots : ppc'[r] = "exiting" <=> ppc[r] = "exiting"
    <3>1. ppc[p] = "start" /\ ppc'[p] = "user" /\ \A r \in Slots : r # p => ppc'[r] = ppc[r]
      BY Zenon, <1>3, <1>7
    <3> QED
      BY Zenon, <3>1
  <2> QED
    BY Zenon, <1>5, <2>1, <2>2 DEF Dead, Children
<1>18. UnitForReaper' /\ WaitFindsZombie'
  BY <1>3, <1>7 DEF UnitForReaper, WaitFindsZombie
<1>19. ChildexitCountsZombies'
  <2>1. ASSUME NEW q \in Slots, pstate'[q] \notin {"FREE", "ZOMBIE"} /\ ppc'[q] \notin {"closing", "exiting"} PROVE Counted(q)'
    <3>1. pstate[q] \notin {"FREE", "ZOMBIE"} /\ ppc[q] \notin {"closing", "exiting"}
      BY <1>3, <1>4, <1>7, <2>1
    <3>2. Counted(q)
      BY Zenon, <3>1, CountsAre
    <3>3. childexit'[q] = childexit[q] /\ Dead(q)' = Dead(q)
      BY Zenon, <1>3, <1>17
    <3>4. ppc[p] = "start" /\ ppc'[p] = "user" /\ (q # p => ppc'[q] = ppc[q]) /\ woken' = woken
      BY Zenon, <1>3, <1>7
    <3>5. ppc'[q] \in {"asleep", "reap"} <=> ppc[q] \in {"asleep", "reap"}
      BY Zenon, <3>4
    <3>6. Sleeps(q)' => Sleeps(q)
      BY Zenon, <3>4 DEF Sleeps
    <3> QED
      BY Zenon, <3>2, <3>3, <3>5, <3>6 DEF Counted
  <2> QED
    BY Zenon, <2>1, CountsAre DEF ChildexitCountsZombies, Counted, Dead
<1> QED
  BY <1>8, <1>10, <1>11, <1>12, <1>13, <1>14, <1>15, <1>16, <1>18, <1>19 DEF TreeShape

\* A wait that took a unit finds a zombie: with plock free nobody is exiting, so
\* the children its unit counts are zombies already.
LEMMA ReapFinds ==
  ASSUME TreeInd, NEW p \in Slots, ppc[p] = "reap", plock = None
  PROVE  /\ pstate[p] = "READY" /\ ~woken[p]
         /\ Dead(p) = {c \in Children(p) : pstate[c] = "ZOMBIE"} /\ Dead(p) # {} /\ IsFiniteSet(Dead(p))
         /\ Cardinality(Dead(p)) = childexit[p] + 1 /\ childexit[p] \in Int
<1> USE DEF TreeInd
<1>1. pstate[p] = "READY" /\ ~woken[p] /\ childexit[p] \in Int
  BY Zenon DEF CallsMatchStates, ProcTypeOK, PStates
<1>2. \A q \in Slots : ppc[q] \notin {"closing", "exiting"}
  BY Zenon, ProcAssumption DEF TreeShape, ExitHoldsLock
<1>3. Dead(p) = {c \in Children(p) : pstate[c] = "ZOMBIE"}
  BY Zenon, <1>2 DEF Dead, Children
<1>4. Counted(p)
  BY Zenon, <1>1, <1>2, CountsAre
<1>5. Cardinality(Dead(p)) = childexit[p] + 1
  BY Zenon, <1>4 DEF Counted
<1>6. childexit[p] >= 0
  BY Zenon DEF UnitForReaper
<1>7. Dead(p) # {}
  <2>1. Cardinality({}) = 0
    BY Zenon, FS_EmptySet
  <2>2. Cardinality(Dead(p)) # 0
    BY <1>1, <1>5, <1>6
  <2> QED
    BY Zenon, <2>1, <2>2
<1>8. IsFiniteSet(Dead(p))
  <2>1. Dead(p) \subseteq Slots
    BY Zenon DEF Dead, Children
  <2> QED
    BY Zenon, <2>1, FS_Subset, ProcAssumption
<1> QED
  BY Zenon, <1>1, <1>3, <1>5, <1>7, <1>8

\* The rest of wait frees a zombie child with both its ids.
LEMMA ReapKeeps == ASSUME TreeInd, NEW p \in Slots, WaitReap(p) PROVE TreeInd'
<1> USE DEF TreeInd
<1>1. ppc[p] = "reap" /\ plock = None /\ ppc' = [ppc EXCEPT ![p] = "user"]
      /\ rootproc' = rootproc /\ woken' = woken /\ plock' = plock /\ making' = making
  BY Zenon DEF WaitReap
<1>2. /\ pstate[p] = "READY" /\ ~woken[p]
      /\ Dead(p) = {c \in Children(p) : pstate[c] = "ZOMBIE"} /\ Dead(p) # {} /\ IsFiniteSet(Dead(p))
      /\ Cardinality(Dead(p)) = childexit[p] + 1 /\ childexit[p] \in Int
  BY Zenon, <1>1, ReapFinds
<1>3. PICK c \in Dead(p) :
        /\ localmap' = [localmap EXCEPT ![container[c]] = @ \ {localpid[c]}]
        /\ pidmap' = pidmap \ {pid[c]}
        /\ parent' = [parent EXCEPT ![c] = None]
        /\ Free(c)
        /\ foundNone' = foundNone
  BY Zenon, <1>2 DEF WaitReap
<1>4. PICK k : k = container[c]
  BY Zenon
<1>5. /\ c \in Slots \ {RootProc} /\ parent[c] = p /\ pstate[c] = "ZOMBIE" /\ ppc[c] = "user"
      /\ c # p /\ k \in Containers /\ ~woken[c]
      /\ \A q \in Slots : parent[q] # c
      /\ ~IsRootProc(c)
  <2>1. c \in Slots \ {RootProc} /\ parent[c] = p /\ pstate[c] = "ZOMBIE"
    BY Zenon, <1>2 DEF Children
  <2>2. ppc[c] = "user" /\ c # p /\ k \in Containers /\ ~woken[c]
    BY Zenon, <1>2, <1>4, <2>1 DEF CallsMatchStates, ProcTypeOK
  <2>3. \A q \in Slots : parent[q] # c
    BY Zenon, <2>1, ProcAssumption DEF TreeShape, ParentsAlive, Alive
  <2>4. ~IsRootProc(c)
    BY Zenon, <2>1, ProcAssumption DEF TreeShape, RootsStay, IsRootProc
  <2> QED
    BY Zenon, <2>1, <2>2, <2>3, <2>4
<1>6. /\ \A q \in Slots : pstate'[q] = IF q = c THEN "FREE" ELSE pstate[q]
      /\ \A q \in Slots : ppc'[q] = IF q = p THEN "user" ELSE ppc[q]
      /\ \A q \in Slots : parent'[q] = IF q = c THEN None ELSE parent[q]
      /\ \A q \in Slots : q # c => /\ container'[q] = container[q] /\ pid'[q] = pid[q]
                                   /\ localpid'[q] = localpid[q] /\ childexit'[q] = childexit[q]
      /\ \A h \in Containers : localmap'[h] = IF h = k THEN localmap[k] \ {localpid[c]} ELSE localmap[h]
  BY Zenon, <1>1, <1>3, <1>4, <1>5 DEF ProcTypeOK, Free
<1>7. ProcTypeOK'
  <2>1. pstate' \in [Slots -> PStates] /\ ppc' \in [Slots -> PPcs]
    BY Zenon, <1>1, <1>3 DEF ProcTypeOK, PStates, PPcs, Free
  <2>2. parent' \in [Slots -> Slots \cup {None}] /\ container' \in [Slots -> Containers]
    BY Zenon, <1>3, ProcAssumption DEF ProcTypeOK, Free
  <2>3. pid' \in [Slots -> -1 .. PidMax - 1] /\ localpid' \in [Slots -> -1 .. PidMax - 1]
    <3>1. 0 \in -1 .. PidMax - 1
      BY ProcAssumption
    <3> QED
      BY Zenon, <1>3, <3>1 DEF ProcTypeOK, Free
  <2>4. pidmap' \subseteq 1 .. PidMax - 1
    BY Zenon, <1>3 DEF ProcTypeOK
  <2>5. localmap' \in [Containers -> SUBSET (1 .. PidMax - 1)]
    <3>1. localmap \in [Containers -> SUBSET (1 .. PidMax - 1)]
      BY Zenon DEF ProcTypeOK
    <3>2. localmap[k] \ {localpid[c]} \in SUBSET (1 .. PidMax - 1)
      BY Zenon, <1>5, <3>1
    <3> QED
      BY Zenon, <1>3, <1>4, <3>1, <3>2
  <2>6. childexit' \in [Slots -> Int]
    <3>1. childexit \in [Slots -> Int] /\ childexit' = [childexit EXCEPT ![c] = 0]
      BY Zenon, <1>3 DEF ProcTypeOK, Free
    <3>2. 0 \in Int
      OBVIOUS
    <3> QED
      BY Zenon, <3>1, <3>2
  <2>7. pkilled' \in [Slots -> BOOLEAN]
    BY Zenon, <1>3 DEF ProcTypeOK, Free
  <2>8. /\ rootproc' \in [Containers -> Slots \cup {None}] /\ plock' \in Slots \cup {None}
        /\ making' \in [Slots -> Slots \cup {None}] /\ foundNone' \subseteq Slots
    BY Zenon, <1>1, <1>3 DEF ProcTypeOK
  <2>9. woken' \in [Slots -> BOOLEAN]
    BY Zenon, <1>1 DEF ProcTypeOK
  <2> QED
    BY Zenon, <2>1, <2>2, <2>3, <2>4, <2>5, <2>6, <2>7, <2>8, <2>9 DEF ProcTypeOK
<1>8. \A q \in Slots : /\ IsRootProc(q)' <=> IsRootProc(q)
                       /\ Alive(q)' <=> Alive(q)
                       /\ Creating(q)' <=> Creating(q)
  <2>1. ppc[p] = "reap" /\ ppc'[p] = "user" /\ \A q \in Slots : q # p => ppc'[q] = ppc[q]
    BY Zenon, <1>1, <1>6
  <2>2. ASSUME NEW q \in Slots
        PROVE  /\ IsRootProc(q)' <=> IsRootProc(q)
               /\ Alive(q)' <=> Alive(q)
               /\ Creating(q)' <=> Creating(q)
    <3>1. IsRootProc(q)' <=> IsRootProc(q)
      BY Zenon, <1>1 DEF IsRootProc
    <3>2. Alive(q)' <=> Alive(q)
      <4>1. ~Alive(c) /\ ~Alive(c)'
        BY Zenon, <1>5, <1>6 DEF Alive
      <4>2. ppc'[q] \in {"closing", "exiting"} <=> ppc[q] \in {"closing", "exiting"}
        BY Zenon, <2>1
      <4>3. q # c => pstate'[q] = pstate[q]
        BY Zenon, <1>6
      <4> QED
        BY Zenon, <4>1, <4>2, <4>3 DEF Alive
    <3>3. Creating(q)' <=> Creating(q)
      BY Zenon, <2>1 DEF Creating
    <3> QED
      BY Zenon, <3>1, <3>2, <3>3
  <2> QED
    BY Zenon, <2>2
<1>9. CallsMatchStates'
  <2>1. ASSUME NEW q \in Slots
        PROVE  /\ pstate'[q] \in {"FREE", "UNUSED", "ZOMBIE"} => ppc'[q] = "user"
               /\ pstate'[q] = "SLEEPING" => ppc'[q] = "asleep" /\ ~woken'[q]
               /\ woken'[q] => ppc'[q] = "asleep"
    <3>1. woken'[q] = woken[q]
      BY Zenon, <1>1
    <3>2. CASE q = p
      BY Zenon, <1>2, <1>5, <1>6, <3>1, <3>2
    <3>3. CASE q = c
      BY Zenon, <1>5, <1>6, <3>1, <3>3
    <3>4. CASE q # p /\ q # c
      <4>1. pstate'[q] = pstate[q] /\ ppc'[q] = ppc[q]
        BY Zenon, <1>6, <3>4
      <4> QED
        BY Zenon, <3>1, <4>1 DEF CallsMatchStates
    <3> QED
      BY Zenon, <3>2, <3>3, <3>4
  <2> QED
    BY Zenon, <2>1 DEF CallsMatchStates
<1>10. ExitHoldsLock'
  <2>1. ppc[p] = "reap" /\ ppc'[p] = "user" /\ \A q \in Slots : q # p => ppc'[q] = ppc[q]
    BY Zenon, <1>1, <1>6
  <2>2. \A q \in Slots : ppc'[q] \in {"closing", "exiting"} <=> ppc[q] \in {"closing", "exiting"}
    BY Zenon, <2>1
  <2> QED
    BY Zenon, <1>1, <2>2 DEF TreeShape, ExitHoldsLock
<1>11. ChildrenInTheMaking'
  <2>1. ASSUME NEW q \in Slots, Creating(q)'
        PROVE  /\ making'[q] \in Slots \ {RootProc} /\ pstate'[making'[q]] = "UNUSED"
               /\ parent'[making'[q]] = IF ppc'[q] = "link" THEN None ELSE q
               /\ IsRootProc(making[q])' => IsRootProc(q)'
    <3>1. PICK d : d = making[q]
      BY Zenon
    <3>2. /\ d \in Slots \ {RootProc} /\ pstate[d] = "UNUSED"
          /\ parent[d] = IF ppc[q] = "link" THEN None ELSE q
          /\ IsRootProc(d) => IsRootProc(q)
      BY Zenon, <1>8, <2>1, <3>1 DEF TreeShape, ChildrenInTheMaking
    <3>3. d # c /\ q # p
      BY Zenon, <1>1, <1>5, <1>8, <2>1, <3>2 DEF Creating
    <3>4. IsRootProc(making[q])' => IsRootProc(q)'
      BY Zenon, <1>1, <3>1, <3>2 DEF IsRootProc
    <3> QED
      BY <1>1, <1>6, <3>1, <3>2, <3>3, <3>4
  <2>2. \A q, r \in Slots : Creating(q)' /\ Creating(r)' /\ making'[q] = making'[r] => q = r
    BY Zenon, <1>1, <1>8 DEF TreeShape, ChildrenInTheMaking
  <2> QED
    BY Zenon, <2>1, <2>2 DEF ChildrenInTheMaking
<1>12. RootsStay'
  <2>1. RootsStay /\ container \in [Slots -> Containers] /\ rootproc \in [Containers -> Slots \cup {None}]
    BY Zenon DEF TreeShape, ProcTypeOK
  <2>2. \A h \in Containers : rootproc[h] # None => rootproc[h] \in Slots /\ rootproc[h] # c
    BY Zenon, <1>5, <2>1 DEF IsRootProc
  <2>3. \A q \in Slots : container[q] \in Containers
    BY Zenon, <2>1
  <2>4. ASSUME NEW q \in Slots, IsRootProc(q)', parent'[q] # None PROVE IsRootProc(parent[q])'
    <3>1. PICK r : r = parent'[q]
      BY Zenon
    <3>2. IsRootProc(q) /\ r = parent[q]
      BY Zenon, <1>6, <1>8, <2>4, <3>1
    <3>3. IsRootProc(r)
      BY Zenon, <2>1, <2>4, <3>1, <3>2 DEF RootsStay
    <3> QED
      BY Zenon, <1>1, <3>1, <3>3 DEF IsRootProc
  <2>5. \A h \in Containers : rootproc'[h] # None =>
          /\ container'[rootproc'[h]] = h
          /\ pstate'[rootproc'[h]] \in {"UNUSED", "READY", "SLEEPING"} /\ ppc'[rootproc'[h]] \notin {"closing", "exiting"}
    <3> SUFFICES ASSUME NEW h \in Containers, rootproc'[h] # None
                 PROVE  /\ container'[rootproc'[h]] = h
                        /\ pstate'[rootproc'[h]] \in {"UNUSED", "READY", "SLEEPING"}
                        /\ ppc'[rootproc'[h]] \notin {"closing", "exiting"}
      BY Zenon
    <3>1. PICK r : r = rootproc[h]
      BY Zenon
    <3>2. /\ r \in Slots /\ r # c /\ container[r] = h
          /\ pstate[r] \in {"UNUSED", "READY", "SLEEPING"} /\ ppc[r] \notin {"closing", "exiting"}
      BY Zenon, <1>1, <2>1, <2>2, <3>1 DEF RootsStay
    <3>3. /\ container'[r] = h /\ pstate'[r] = pstate[r]
          /\ ppc'[r] \notin {"closing", "exiting"}
      BY Zenon, <1>6, <3>2
    <3> QED
      BY Zenon, <1>1, <3>1, <3>2, <3>3
  <2>6. \A q \in Slots : pstate'[q] # "FREE" =>
          /\ rootproc'[container'[q]] # None
          /\ q # rootproc'[container'[q]] => Alive(rootproc[container[q]])'
    <3> SUFFICES ASSUME NEW q \in Slots, pstate'[q] # "FREE"
                 PROVE  /\ rootproc'[container'[q]] # None
                        /\ q # rootproc'[container'[q]] => Alive(rootproc[container[q]])'
      BY Zenon
    <3>1. PICK h : h = container[q]
      BY Zenon
    <3>2. q # c /\ pstate[q] # "FREE" /\ container'[q] = h /\ h \in Containers
      BY Zenon, <1>6, <2>3, <3>1
    <3>3. rootproc[h] # None /\ (q # rootproc[h] => Alive(rootproc[h]))
      BY Zenon, <2>1, <3>1, <3>2 DEF RootsStay
    <3>4. PICK r : r = rootproc[h]
      BY Zenon
    <3>5. r \in Slots /\ (q # r => Alive(r)')
      BY Zenon, <1>8, <2>2, <3>2, <3>3, <3>4
    <3> QED
      BY Zenon, <1>1, <3>2, <3>3, <3>4, <3>5 DEF Alive
  <2> QED
    BY Zenon, <1>1, <2>1, <2>4, <2>5, <2>6 DEF RootsStay
<1>13. ParentsAlive'
  <2>1. ParentsAlive /\ RootProc \in Slots /\ \A q \in Slots : parent[q] # None => parent[q] \in Slots
    BY Zenon, ProcAssumption DEF TreeShape, ProcTypeOK
  <2>2. Alive(RootProc)' /\ parent'[RootProc] = RootProc
    BY Zenon, <1>5, <1>6, <1>8, <2>1 DEF ParentsAlive
  <2>3. ASSUME NEW q \in Slots, parent'[q] # None PROVE Alive(parent[q])' /\ pstate'[q] # "FREE"
    <3>1. PICK r : r = parent'[q]
      BY Zenon
    <3>2. r = parent[q] /\ q # c
      BY Zenon, <1>6, <2>3, <3>1
    <3>3. r \in Slots /\ Alive(r) /\ pstate[q] # "FREE"
      BY Zenon, <2>1, <2>3, <3>1, <3>2 DEF ParentsAlive
    <3>4. Alive(r)'
      BY Zenon, <1>8, <3>3
    <3> QED
      BY Zenon, <1>6, <3>1, <3>2, <3>3, <3>4 DEF Alive
  <2>4. \A q \in Slots : pstate'[q] \in {"READY", "SLEEPING", "ZOMBIE"} => parent'[q] # None
    BY Zenon, <1>6, <2>1 DEF ParentsAlive
  <2> QED
    BY Zenon, <2>2, <2>3, <2>4 DEF ParentsAlive
<1>14. NoCycle'
  <2> SUFFICES ASSUME NEW S \in SUBSET (Slots \ {RootProc}), S # {} PROVE \E q \in S : parent'[q] \notin S
    BY Zenon DEF NoCycle
  <2>1. PICK q \in S : parent[q] \notin S
    BY Zenon DEF TreeShape, NoCycle
  <2> QED
    BY Zenon, <1>6, <2>1, ProcAssumption
<1>15. IdsDistinct'
  <2>1. IdsDistinct /\ pidmap \subseteq 1 .. PidMax - 1 /\ localmap \in [Containers -> SUBSET (1 .. PidMax - 1)]
    BY Zenon DEF TreeShape, ProcTypeOK
  <2>2. \A x \in 1 .. PidMax - 1 : x # -1
    BY ProcAssumption
  <2>3. \A q : q \in Live' <=> q \in Live /\ q # c
    <3>1. pstate'[c] = "FREE"
      BY Zenon, <1>5, <1>6
    <3>2. \A q \in Slots : q # c => pstate'[q] = pstate[q] /\ pid'[q] = pid[q]
      BY Zenon, <1>6
    <3> QED
      BY Zenon, <3>1, <3>2 DEF Live
  <2>4. \A q \in Live' : q \in Live /\ q # c /\ pid'[q] = pid[q]
    BY Zenon, <1>6, <2>3 DEF Live
  <2>5. pidmap' = {pid'[q] : q \in Live'} /\ \A q, r \in Live' : pid'[q] = pid'[r] => q = r
    <3>1. \A q, r \in Live' : pid'[q] = pid'[r] => q = r
      BY Zenon, <2>1, <2>4 DEF IdsDistinct
    <3>2. \A x : x \in pidmap <=> \E q \in Live : x = pid[q]
      BY Zenon, <2>1 DEF IdsDistinct
    <3>3. \A q \in Live : pid[q] = pid[c] => q = c
      <4> SUFFICES ASSUME NEW q \in Live, pid[q] = pid[c] PROVE q = c
        BY Zenon
      <4>1. pid[c] # -1
        BY Zenon DEF Live
      <4>2. c \in Live
        BY Zenon, <1>5, <4>1 DEF Live
      <4> QED
        BY Zenon, <2>1, <4>2 DEF IdsDistinct
    <3>4. \A x : x \in pidmap' <=> x \in pidmap /\ x # pid[c]
      BY Zenon, <1>3
    <3>5. ASSUME NEW q \in Live' PROVE pid'[q] \in pidmap'
      BY Zenon, <2>4, <3>2, <3>3, <3>4
    <3>6. ASSUME NEW x \in pidmap' PROVE \E q \in Live' : x = pid'[q]
      <4>1. PICK q \in Live : x = pid[q]
        BY Zenon, <3>2, <3>4
      <4>2. q \in Live'
        BY Zenon, <2>3, <3>4, <4>1
      <4> QED
        BY Zenon, <2>4, <4>1, <4>2
    <3> QED
      BY Zenon, <3>1, <3>5, <3>6
  <2>6. ASSUME NEW h \in Containers
        PROVE  /\ localmap'[h] = {localpid'[q] : q \in StartedIn(h)'}
               /\ \A q, r \in StartedIn(h)' : localpid'[q] = localpid'[r] => q = r
    <3>1. \A q : q \in StartedIn(h)' <=> q \in StartedIn(h) /\ q # c
      <4>1. pstate'[c] = "FREE"
        BY Zenon, <1>5, <1>6
      <4>2. \A q \in Slots : q # c => pstate'[q] = pstate[q] /\ container'[q] = container[q] /\ localpid'[q] = localpid[q]
        BY Zenon, <1>6
      <4> QED
        BY Zenon, <4>1, <4>2 DEF StartedIn
    <3>2. \A q \in StartedIn(h)' : q \in StartedIn(h) /\ localpid'[q] = localpid[q]
      BY Zenon, <1>6, <3>1 DEF StartedIn
    <3>3. localmap[h] = {localpid[q] : q \in StartedIn(h)} /\ \A q, r \in StartedIn(h) : localpid[q] = localpid[r] => q = r
      BY Zenon, <2>1 DEF IdsDistinct
    <3>4. \A x : x \in localmap[h] <=> \E q \in StartedIn(h) : x = localpid[q]
      BY Zenon, <3>3
    <3>5. \A x : x \in localmap'[h] <=> \E q \in StartedIn(h)' : x = localpid'[q]
      <4>1. ASSUME NEW q \in StartedIn(h)' PROVE localpid'[q] \in localmap'[h]
        <5>1. q \in StartedIn(h) /\ q # c /\ localpid'[q] = localpid[q] /\ localpid[q] # -1
          BY Zenon, <3>1, <3>2 DEF StartedIn
        <5>2. CASE h = k
          <6>1. localpid[q] # localpid[c]
            <7> SUFFICES ASSUME localpid[q] = localpid[c] PROVE FALSE
              BY Zenon
            <7>1. c \in StartedIn(h)
              BY Zenon, <1>4, <1>5, <5>1, <5>2 DEF StartedIn
            <7> QED
              BY Zenon, <3>3, <5>1, <7>1
          <6> QED
            BY Zenon, <1>6, <3>4, <5>1, <5>2, <6>1
        <5>3. CASE h # k
          BY Zenon, <1>6, <3>4, <5>1, <5>3
        <5> QED
          BY Zenon, <5>2, <5>3
      <4>2. ASSUME NEW x \in localmap'[h] PROVE \E q \in StartedIn(h)' : x = localpid'[q]
        <5>1. x \in localmap[h] /\ (h = k => x # localpid[c])
          BY Zenon, <1>6, <4>2
        <5>2. PICK q \in StartedIn(h) : x = localpid[q]
          BY Zenon, <3>4, <5>1
        <5>3. q # c
          BY Zenon, <1>4, <5>1, <5>2 DEF StartedIn
        <5> QED
          BY Zenon, <3>1, <3>2, <5>2, <5>3
      <4> QED
        BY Zenon, <4>1, <4>2
    <3>6. \A q, r \in StartedIn(h)' : localpid'[q] = localpid'[r] => q = r
      BY Zenon, <3>2, <3>3
    <3>7. localmap'[h] = {localpid'[q] : q \in StartedIn(h)'}
      BY Zenon, <3>5
    <3> QED
      BY Zenon, <3>6, <3>7
  <2> QED
    BY Zenon, <2>5, <2>6 DEF IdsDistinct
<1>16. /\ Dead(p)' = Dead(p) \ {c}
       /\ \A q \in Slots : q # p => Dead(q)' = Dead(q)
  <2>1. \A r \in Slots : r # c => ((pstate'[r] = "ZOMBIE" \/ ppc'[r] = "exiting") <=> (pstate[r] = "ZOMBIE" \/ ppc[r] = "exiting"))
    <3>1. ppc[p] = "reap" /\ ppc'[p] = "user" /\ \A r \in Slots : r # p => ppc'[r] = ppc[r]
      BY Zenon, <1>1, <1>6
    <3>2. \A r \in Slots : r # c => pstate'[r] = pstate[r]
      BY Zenon, <1>6
    <3> QED
      BY Zenon, <3>1, <3>2
  <2>2. \A r \in Slots : r # c => parent'[r] = parent[r]
    BY Zenon, <1>6
  <2>3. parent'[c] = None
    BY Zenon, <1>5, <1>6
  <2> QED
    BY <1>5, <2>1, <2>2, <2>3, ProcAssumption DEF Dead, Children
<1>17. UnitForReaper'
  <2>1. ASSUME NEW q \in Slots, ppc'[q] = "reap" \/ woken'[q]
        PROVE  childexit'[q] = childexit[q] /\ (ppc[q] = "reap" \/ woken[q])
    <3>1. /\ ppc'[p] = "user" /\ ~woken'[p] /\ ~woken'[c] /\ ppc'[c] = "user"
      <4>1. ppc'[p] = "user"
        BY Zenon, <1>6
      <4>2. ppc'[c] = "user"
        BY Zenon, <1>5, <1>6
      <4> QED
        BY Zenon, <1>1, <1>2, <1>5, <4>1, <4>2
    <3>2. q # p /\ q # c
      BY Zenon, <2>1, <3>1
    <3>3. ppc'[q] = ppc[q] /\ childexit'[q] = childexit[q] /\ woken' = woken
      BY Zenon, <1>1, <1>6, <3>2
    <3> QED
      BY Zenon, <2>1, <3>3
  <2>2. ASSUME NEW q \in Slots, ppc'[q] = "reap" \/ woken'[q] PROVE childexit[q] >= 0
    BY Zenon, <2>1, <2>2 DEF UnitForReaper
  <2> QED
    BY Zenon, <2>1, <2>2 DEF UnitForReaper
<1>18. WaitFindsZombie'
  BY Zenon, <1>3 DEF WaitFindsZombie
<1>19. ChildexitCountsZombies'
  <2>1. ASSUME NEW q \in Slots, pstate'[q] \notin {"FREE", "ZOMBIE"} /\ ppc'[q] \notin {"closing", "exiting"} PROVE Counted(q)'
    <3>1. q # c
      BY Zenon, <1>6, <2>1
    <3>2. CASE q = p
      <4>1. Cardinality(Dead(p) \ {c}) = Cardinality(Dead(p)) - 1
        BY Zenon, <1>2, <1>3, FS_RemoveElement
      <4>2. Cardinality(Dead(p)') = Cardinality(Dead(p) \ {c})
        BY Zenon, <1>16
      <4>3. childexit'[p] = childexit[p] /\ ppc'[p] = "user"
        BY Zenon, <1>5, <1>6
      <4>4. Cardinality(Dead(p)') = childexit'[p] + 0
        BY <1>2, <4>1, <4>2, <4>3
      <4>5. Counted(p)'
        BY Zenon, <4>3, <4>4 DEF Counted, Sleeps
      <4> QED
        BY Zenon, <3>2, <4>5
    <3>3. CASE q # p
      <4>1. pstate[q] \notin {"FREE", "ZOMBIE"} /\ ppc[q] \notin {"closing", "exiting"}
        BY Zenon, <1>6, <2>1, <3>1, <3>3
      <4>2. Counted(q)
        BY Zenon, <4>1, CountsAre
      <4>3. childexit'[q] = childexit[q] /\ Dead(q)' = Dead(q) /\ ppc'[q] = ppc[q]
        BY Zenon, <1>6, <1>16, <3>1, <3>3
      <4>4. Sleeps(q)' => Sleeps(q)
        BY Zenon, <1>1, <4>3 DEF Sleeps
      <4> QED
        BY Zenon, <4>2, <4>3, <4>4 DEF Counted
    <3> QED
      BY Zenon, <3>2, <3>3
  <2> QED
    BY Zenon, <2>1, CountsAre DEF ChildexitCountsZombies, Counted, Dead
<1> QED
  BY Zenon, <1>7, <1>9, <1>10, <1>11, <1>12, <1>13, <1>14, <1>15, <1>17, <1>18, <1>19 DEF TreeShape

-----------------------------------------------------------------------------
(* The parents of a process lead up to root_proc.                             *)

\* proc->parent, and the processes that walking up it from t passes.
OneUp(par, q) == IF q = None THEN None ELSE par[q]
WalkUp(par, t) == CHOOSE f : f = [n \in Nat |-> IF n = 0 THEN t ELSE OneUp(par, f[n - 1])]

\* What A and the walk d need to be: every parent of A is in A, and d follows them.
HasParents(par, A) == None \notin A /\ \A q \in A : par[q] \in A
GoesUp(d, par, A, t) == d \in [Nat -> A] /\ d[0] = t /\ \A n \in Nat : d[n + 1] = par[d[n]]

\* The walk up from a process whose ancestors all have a parent.
LEMMA WalkUpSteps ==
  ASSUME NEW par, NEW A, HasParents(par, A), NEW t \in A
  PROVE  GoesUp(WalkUp(par, t), par, A, t)
<1> USE DEF HasParents
<1>1. PICK step : step = [nv \in Nat \X A |-> par[nv[2]]]
  BY Zenon
<1>2. \A n \in Nat : \A v \in A : step[<<n, v>>] = par[v] /\ OneUp(par, v) = par[v]
  BY Zenon, <1>1 DEF OneUp
<1>3. StepIn(Nat \ {0}, A, step)
  BY Zenon, <1>2 DEF StepIn
<1>4. PICK f : ByStep(f, Nat, A, t, step)
  BY Zenon, <1>3, NatRecursion
<1>5. \A n \in Nat : f[n] = IF n = 0 THEN t ELSE OneUp(par, f[n - 1])
  <2> SUFFICES ASSUME NEW n \in Nat, n # 0 PROVE f[n] = OneUp(par, f[n - 1])
    BY Zenon, <1>4 DEF ByStep
  <2>1. n - 1 \in Nat
    OBVIOUS
  <2>2. f[n] = step[<<n, f[n - 1]>>] /\ f[n - 1] \in A
    BY Zenon, <1>4, <2>1 DEF ByStep
  <2> QED
    BY Zenon, <1>2, <2>2
<1>6. f = [n \in Nat |-> IF n = 0 THEN t ELSE OneUp(par, f[n - 1])]
  BY Zenon, <1>4, <1>5 DEF ByStep
<1>7. PICK d : d = WalkUp(par, t)
  BY Zenon
<1>8. d = [n \in Nat |-> IF n = 0 THEN t ELSE OneUp(par, d[n - 1])]
  <2>1. d = CHOOSE h : h = [n \in Nat |-> IF n = 0 THEN t ELSE OneUp(par, h[n - 1])]
    BY Zenon, <1>7 DEF WalkUp
  <2> QED
    BY Zenon, <1>6, <2>1
<1>9. d[0] = t
  BY Zenon, <1>8
<1>10. ASSUME NEW n \in Nat PROVE d[n + 1] = OneUp(par, d[n])
  <2>1. n + 1 \in Nat /\ n + 1 # 0 /\ (n + 1) - 1 = n
    OBVIOUS
  <2> QED
    BY Zenon, <1>8, <2>1
<1>11. d \in [Nat -> A]
  <2> DEFINE T == {n \in Nat : d[n] \in A}
  <2>1. 0 \in T
    BY Zenon, <1>9
  <2>2. ASSUME NEW n \in Nat, n \in T PROVE n + 1 \in T
    <3>1. d[n] \in A /\ n + 1 \in Nat
      BY <2>2
    <3>2. d[n + 1] = OneUp(par, d[n])
      BY Zenon, <1>10
    <3>3. par[d[n]] \in A /\ OneUp(par, d[n]) = par[d[n]]
      BY Zenon, <3>1, <1>2
    <3> QED
      BY Zenon, <3>1, <3>2, <3>3
  <2>3. Nat \subseteq T
    <3> HIDE DEF T
    <3> QED
      BY Zenon, <2>1, <2>2, NatInductionSet
  <2> QED
    BY Zenon, <1>8, <2>3
<1> QED
  BY Zenon, <1>2, <1>7, <1>9, <1>10, <1>11 DEF GoesUp

\* Without a cycle that avoids root_proc, as many steps as there are processes
\* are enough to come to it: a longer walk would pass one of them twice.
LEMMA WalkUpEnds ==
  ASSUME NEW par, NEW A \in SUBSET Slots, RootProc \in A, \A q \in A : par[q] \in A, par[RootProc] = RootProc,
         \A S \in SUBSET (Slots \ {RootProc}) : S # {} => \E p \in S : par[p] \notin S,
         NEW t \in A
  PROVE  WalkUp(par, t)[Cardinality(Slots)] = RootProc
<1>1. PICK d : d = WalkUp(par, t)
  BY Zenon
<1>2. d \in [Nat -> A] /\ d[0] = t /\ \A n \in Nat : d[n + 1] = par[d[n]]
  <2>1. HasParents(par, A)
    BY Zenon, ProcAssumption DEF HasParents
  <2>2. GoesUp(d, par, A, t)
    BY Zenon, <1>1, <2>1, WalkUpSteps
  <2> QED
    BY Zenon, <2>2 DEF GoesUp
<1>3. PICK N \in Nat : N = Cardinality(Slots)
  BY Zenon, ProcAssumption, FS_CardinalityType
<1> SUFFICES ASSUME d[N] # RootProc PROVE FALSE
  BY Zenon, <1>1, <1>3
<1>4. \A n \in 0 .. N : d[n] # RootProc
  <2> DEFINE T == {n \in Nat : n <= N => d[N - n] # RootProc}
  <2>1. 0 \in T
    <3>1. N - 0 = N
      OBVIOUS
    <3> QED
      BY Zenon, <3>1
  <2>2. ASSUME NEW n \in Nat, n \in T PROVE n + 1 \in T
    <3> SUFFICES ASSUME n + 1 <= N PROVE d[N - (n + 1)] # RootProc
      OBVIOUS
    <3>1. PICK m \in Nat : m = N - (n + 1)
      OBVIOUS
    <3>2. m + 1 = N - n /\ n <= N
      BY <3>1
    <3>3. d[m + 1] # RootProc
      BY Zenon, <2>2, <3>2
    <3>4. d[m + 1] = par[d[m]]
      BY Zenon, <1>2
    <3> QED
      BY Zenon, <3>1, <3>3, <3>4
  <2>3. Nat \subseteq T
    <3> HIDE DEF T
    <3> QED
      BY Zenon, <2>1, <2>2, NatInductionSet
  <2>4. ASSUME NEW n \in 0 .. N PROVE d[n] # RootProc
    <3>1. N - n \in Nat /\ N - n <= N /\ N - (N - n) = n
      OBVIOUS
    <3>2. N - n \in T
      BY Zenon, <2>3, <3>1
    <3> QED
      BY Zenon, <3>1, <3>2
  <2> QED
    BY Zenon, <2>4
<1>5. PICK i \in 0 .. N, j \in 0 .. N : i < j /\ d[i] = d[j]
  <2>1. PICK x : x = [n \in 0 .. N |-> d[n]]
    BY Zenon
  <2>2. \A n \in 0 .. N : d[n] \in Slots
    BY <1>2
  <2>3. x \in [0 .. Cardinality(Slots) -> Slots]
    BY Zenon, <1>3, <2>1, <2>2
  <2>4. PICK i \in 0 .. N, j \in 0 .. N : i < j /\ x[i] = x[j]
    BY <1>3, <2>3, ProcAssumption, WalkRepeats
  <2> QED
    BY Zenon, <2>1, <2>4
<1>6. PICK S : S = {d[n] : n \in i .. (j - 1)}
  BY Zenon
<1>7. \A n \in i .. (j - 1) : n \in Nat /\ n \in 0 .. N
  BY <1>5
<1>8. S \in SUBSET (Slots \ {RootProc})
  BY <1>2, <1>4, <1>6, <1>7
<1>9. d[i] \in S
  <2>1. i \in i .. (j - 1)
    BY <1>5
  <2> QED
    BY Zenon, <1>6, <2>1
<1>10. ASSUME NEW q \in S PROVE par[q] \in S
  <2>1. PICK n \in i .. (j - 1) : q = d[n]
    BY Zenon, <1>6
  <2>2. par[q] = d[n + 1]
    BY Zenon, <1>2, <1>7, <2>1
  <2>3. CASE n + 1 = j
    BY Zenon, <1>5, <1>9, <2>2, <2>3
  <2>4. CASE n + 1 # j
    <3>1. n + 1 \in i .. (j - 1)
      BY <1>5, <2>1, <2>4
    <3> QED
      BY Zenon, <1>6, <2>2, <3>1
  <2> QED
    BY Zenon, <2>3, <2>4
<1> QED
  BY Zenon, <1>8, <1>9, <1>10

\* What the tree's shape means for kill and for the id maps.
LEMMA ShapeGives == ASSUME TreeInd PROVE ProcTreeInv /\ ZombiesAwaited
<1> USE DEF TreeInd
<1>1. EveryProcReachable
  <2> SUFFICES ASSUME NEW t \in Slots \ {RootProc}, pstate[t] \in {"READY", "SLEEPING", "ZOMBIE"} PROVE TraverseFinds(t)
    BY Zenon DEF EveryProcReachable
  <2>1. PICK par : par = parent
    BY Zenon
  <2>2. PICK A : A = {q \in Slots : par[q] # None}
    BY Zenon
  <2>3. ParentsAlive /\ par \in [Slots -> Slots \cup {None}] /\ RootProc \in Slots /\ None \notin Slots
    BY Zenon, <2>1, ProcAssumption DEF TreeShape, ProcTypeOK
  <2>4. A \in SUBSET Slots /\ RootProc \in A /\ par[RootProc] = RootProc /\ t \in A
    BY Zenon, <2>1, <2>2, <2>3 DEF ParentsAlive
  <2>5. ASSUME NEW q \in A PROVE par[q] \in A
    BY Zenon, <2>1, <2>2, <2>3 DEF ParentsAlive, Alive
  <2>6. \A S \in SUBSET (Slots \ {RootProc}) : S # {} => \E p \in S : par[p] \notin S
    BY Zenon, <2>1 DEF TreeShape, NoCycle
  <2>7. WalkUp(par, t)[Cardinality(Slots)] = RootProc
    BY Zenon, <2>4, <2>5, <2>6, WalkUpEnds
  <2> QED
    BY <2>1, <2>7 DEF TraverseFinds, WalkUp, OneUp
<1>2. IdsExact
  <2>1. IdsDistinct
    BY Zenon DEF TreeShape
  <2>2. IsFiniteSet(Live) /\ \A k : IsFiniteSet(StartedIn(k))
    <3>1. Live \subseteq Slots /\ \A k : StartedIn(k) \subseteq Slots
      BY Zenon DEF Live, StartedIn
    <3> QED
      BY Zenon, <3>1, FS_Subset, ProcAssumption
  <2>3. Cardinality(pidmap) = Cardinality(Live)
    <3>1. PICK S, f : S = Live /\ f = pid
      BY Zenon
    <3>2. Cardinality({f[x] : x \in S}) = Cardinality(S)
      BY <2>1, <2>2, <3>1, ImageSize DEF IdsDistinct
    <3>3. pidmap = {f[x] : x \in S}
      BY <2>1, <3>1 DEF IdsDistinct
    <3> QED
      BY Zenon, <3>1, <3>2, <3>3
  <2>4. ASSUME NEW k \in Containers PROVE Cardinality(localmap[k]) = Cardinality(StartedIn(k))
    <3>1. PICK S, f : S = StartedIn(k) /\ f = localpid
      BY Zenon
    <3>2. \A x, y \in S : f[x] = f[y] => x = y
      BY Zenon, <2>1, <3>1 DEF IdsDistinct
    <3>3. Cardinality({f[x] : x \in S}) = Cardinality(S)
      BY <2>2, <3>1, <3>2, ImageSize
    <3>4. localmap[k] = {f[x] : x \in S}
      BY <2>1, <3>1 DEF IdsDistinct
    <3> QED
      BY Zenon, <3>1, <3>3, <3>4
  <2> QED
    <3>1. Live = {q \in {x \in Slots : pstate[x] # "FREE"} : pid[q] # -1}
      BY Zenon DEF Live
    <3>2. \A k \in Containers : StartedIn(k) = {q \in {x \in Slots : pstate[x] # "FREE"} :
                                               container[q] = k /\ pstate[q] # "UNUSED" /\ localpid[q] # -1}
      BY Zenon DEF StartedIn
    <3> QED
      BY <2>1, <2>3, <2>4, <3>1, <3>2 DEF IdsExact, IdsDistinct
<1> QED
  BY Zenon, <1>1, <1>2 DEF ProcTreeInv, ZombiesAwaited

-----------------------------------------------------------------------------
(* The invariant, its steps together, and what it gives.                      *)

\* The tree that init_kproc leaves: root_proc alone, its own parent.
LEMMA TreeIndInit == ASSUME ProcInit PROVE TreeInd
<1> USE DEF ProcInit
<1>1. RootProc \in Slots /\ RootCont \in Containers /\ None \notin Slots /\ None \notin Containers
  BY Zenon, ProcAssumption
<1>2. 0 \in -1 .. PidMax - 1 /\ 1 \in -1 .. PidMax - 1 /\ 1 \in 1 .. PidMax - 1 /\ 1 # -1
  BY ProcAssumption
<1>3. ProcTypeOK
  <2>1. /\ pstate \in [Slots -> PStates] /\ ppc \in [Slots -> PPcs]
        /\ parent \in [Slots -> Slots \cup {None}] /\ container \in [Slots -> Containers]
        /\ rootproc \in [Containers -> Slots \cup {None}] /\ making \in [Slots -> Slots \cup {None}]
    BY Zenon, <1>1 DEF PStates, PPcs
  <2>2. pid \in [Slots -> -1 .. PidMax - 1] /\ localpid \in [Slots -> -1 .. PidMax - 1]
    BY Zenon, <1>2
  <2>3. pidmap \subseteq 1 .. PidMax - 1
    BY Zenon, <1>2
  <2>4. localmap \in [Containers -> SUBSET (1 .. PidMax - 1)]
    BY Zenon, <1>2
  <2>5. childexit \in [Slots -> Int]
    OBVIOUS
  <2>6. woken \in [Slots -> BOOLEAN] /\ pkilled \in [Slots -> BOOLEAN]
    BY Zenon
  <2> QED
    BY Zenon, <2>1, <2>2, <2>3, <2>4, <2>5, <2>6 DEF ProcTypeOK
<1>4. CallsMatchStates /\ UnitForReaper /\ WaitFindsZombie
  BY Zenon DEF CallsMatchStates, UnitForReaper, WaitFindsZombie
<1>5. ExitHoldsLock /\ ChildrenInTheMaking
  BY Zenon, <1>1 DEF ExitHoldsLock, ChildrenInTheMaking, Creating
<1>6. \A q \in Slots : IsRootProc(q) <=> q = RootProc
  BY Zenon, <1>1 DEF IsRootProc
<1>7. RootsStay
  BY Zenon, <1>1, <1>6 DEF RootsStay, Alive
<1>8. ParentsAlive
  BY Zenon, <1>1 DEF ParentsAlive, Alive
<1>9. NoCycle
  BY Zenon, <1>1 DEF NoCycle
<1>10. IdsDistinct
  <2>1. Live = {RootProc}
    BY Zenon, <1>1, <1>2 DEF Live
  <2>2. pidmap = {pid[q] : q \in Live} /\ \A q, r \in Live : pid[q] = pid[r] => q = r
    BY Zenon, <1>1, <2>1
  <2>3. ASSUME NEW k \in Containers
        PROVE  /\ localmap[k] = {localpid[q] : q \in StartedIn(k)}
               /\ \A q, r \in StartedIn(k) : localpid[q] = localpid[r] => q = r
    <3>1. StartedIn(k) = IF k = RootCont THEN {RootProc} ELSE {}
      BY Zenon, <1>1, <1>2 DEF StartedIn
    <3> QED
      BY Zenon, <1>1, <3>1
  <2> QED
    BY Zenon, <2>2, <2>3 DEF IdsDistinct
<1>11. ChildexitCountsZombies
  <2>1. ASSUME NEW q \in Slots PROVE Counted(q)
    <3>1. Dead(q) = {}
      BY Zenon DEF Dead, Children
    <3>2. Cardinality(Dead(q)) = 0
      BY Zenon, <3>1, FS_EmptySet
    <3> QED
      BY <3>1, <3>2 DEF Counted
  <2> QED
    BY Zenon, <2>1, CountsAre
<1> QED
  BY Zenon, <1>3, <1>4, <1>5, <1>7, <1>8, <1>9, <1>10, <1>11 DEF TreeInd, TreeShape

\* fork: the child goes to the container of its creator, which exists.
LEMMA ForkKeeps == ASSUME TreeInd, NEW p \in Slots, Fork(p) PROVE TreeInd'
<1> USE DEF TreeInd
<1>1. PICK k, kill : k = container[p] /\ kill = pkilled[p]
  BY Zenon
<1>2. k \in Containers /\ kill \in BOOLEAN
  BY Zenon, <1>1 DEF ProcTypeOK
<1>3. CreateProc(p, k, kill)
  BY Zenon, <1>1 DEF Fork
<1>4. pstate[p] = "READY" /\ ppc[p] = "user"
  BY Zenon, <1>3 DEF CreateProc, MayCall
<1>5. rootproc[k] # None /\ Alive(rootproc[k])
  BY Zenon, <1>1, <1>4 DEF TreeShape, RootsStay, Alive
<1> QED
  BY Zenon, <1>2, <1>3, <1>5, CreateKeeps

\* create_container: the child will be the root process of the new container.
LEMMA CreateContainerKeeps == ASSUME TreeInd, NEW p \in Slots, CreateContainer(p) PROVE TreeInd'
<1>1. PICK k \in Containers : IsRootProc(p) /\ rootproc[k] = None /\ CreateProc(p, k, FALSE)
  BY Zenon DEF CreateContainer
<1> QED
  BY Zenon, <1>1, CreateKeeps

\* Every step of every process keeps the invariant.
LEMMA TreeIndStep == ASSUME TreeInd, [ProcNext]_procvars PROVE TreeInd'
<1>1. CASE UNCHANGED procvars
  <2>1. /\ pstate' = pstate /\ ppc' = ppc /\ parent' = parent /\ container' = container /\ rootproc' = rootproc
        /\ pid' = pid /\ localpid' = localpid /\ pidmap' = pidmap /\ localmap' = localmap
        /\ childexit' = childexit /\ woken' = woken /\ pkilled' = pkilled /\ plock' = plock /\ making' = making
        /\ foundNone' = foundNone
    BY Zenon, <1>1 DEF procvars
  <2>2. Quiet
    BY Zenon, <2>1 DEF Quiet, TreeInd, ProcTypeOK
  <2>3. TreeShape'
    BY Zenon, <2>2, QuietKeepsShape DEF TreeInd
  <2>4. ProcTypeOK' /\ CallsMatchStates' /\ UnitForReaper' /\ WaitFindsZombie'
    BY Zenon, <2>1 DEF TreeInd, ProcTypeOK, CallsMatchStates, UnitForReaper, WaitFindsZombie
  <2>5. ChildexitCountsZombies'
    BY Zenon, <2>1 DEF TreeInd, ChildexitCountsZombies, Children, Sleeps
  <2> QED
    BY Zenon, <2>3, <2>4, <2>5 DEF TreeInd
<1>2. ASSUME NEW p \in Slots, ProcStep(p) PROVE TreeInd'
  BY Zenon, <1>2, ForkKeeps, CreateContainerKeeps, LinkKeeps, StartKeeps, ExitBeginKeeps, ExitPostKeeps, ExitSchedKeeps,
     WaitCallKeeps, WaitSemKeeps, WaitWakeKeeps, ReapKeeps DEF ProcStep
<1>3. ASSUME NEW p \in Slots, KillProc(p) PROVE TreeInd'
  BY Zenon, <1>3, KillKeeps
<1> QED
  BY Zenon, <1>1, <1>2, <1>3 DEF ProcNext

\* In every reachable state of the process tree, whatever the number of processes
\* and containers: the units of childexit are the children to be reaped, and no
\* wait that took one comes back without a zombie (proc.c, exit and wait).
THEOREM WaitAgreesWithExit == ProcSpec => []ZombiesAwaited
<1>1. ProcInit => TreeInd
  BY Zenon, TreeIndInit
<1>2. TreeInd /\ [ProcNext]_procvars => TreeInd'
  BY Zenon, TreeIndStep
<1>3. TreeInd => ZombiesAwaited
  BY Zenon, ShapeGives
<1> QED
  BY <1>1, <1>2, <1>3, PTL DEF ProcSpec

\* The tree and the ids, likewise, also once the ids have run out: the maps of pid.c
\* hold exactly the ids in use, none twice (the processes that got -1 apart), and
\* traverse_proc's walk reaches every started process from root_proc.
THEOREM TreeStaysWhole == ProcSpec => []ProcTreeInv
<1>1. ProcInit => TreeInd
  BY Zenon, TreeIndInit
<1>2. TreeInd /\ [ProcNext]_procvars => TreeInd'
  BY Zenon, TreeIndStep
<1>3. TreeInd => ProcTreeInv
  BY Zenon, ShapeGives
<1> QED
  BY <1>1, <1>2, <1>3, PTL DEF ProcSpec

=============================================================================
