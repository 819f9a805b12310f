------------------------------- MODULE Sched --------------------------------
(* The scheduler of kernel/sched.c: run queues of processes and of containers *)
(* (groups), processor time charged to a process and to the groups above it,  *)
(* and the per-processor timer that forces a switch (kernel/cpu.c).           *)
(*                                                                            *)
(* Every operation below holds schlock from beginning to end, so each is one  *)
(* step.  How a process decides to sleep is in Semaphore, what exit and wait  *)
(* do to the process tree in ProcTree.                                        *)
EXTENDS ListOps, FiniteSets, FiniteSetsExt

CONSTANTS Cpus, Tasks, Groups,
          RootGroup,   \* root_container
          GroupOf,     \* the group of each process and the parent of each other group
          Slices,      \* what get_timestamp() - start_ may be at a switch
          MaxOccupy,   \* bound of the model on occupy_
          IntMax       \* INT_MAX, at which traverse_queue truncates occupy_

ASSUME SchedAssumption ==
    /\ IsFiniteSet(Tasks) /\ IsFiniteSet(Groups)
    /\ Tasks \cap (Groups \cup Cpus) = {}
    /\ RootGroup \in Groups
    /\ GroupOf \in [Tasks \cup (Groups \ {RootGroup}) -> Groups]
    /\ Slices \subseteq Nat /\ MaxOccupy \in Nat /\ IntMax \in Nat

VARIABLES
    st,        \* proc->state
    rq,        \* schqueue.rq of each group, first node first
    occupy,    \* schinfo.occupy_ of processes and groups
    thisproc,  \* cpus[c].sched.thisproc; the idle process of c is c itself
    skilled,   \* proc->killed
    armed      \* sched_timer[c] is in the timer tree of c

schedvars == <<st, rq, occupy, thisproc, skilled, armed>>

SchedStates == {"UNUSED", "RUNNABLE", "RUNNING", "SLEEPING", "DEEPSLEEPING", "ZOMBIE"}
Units == Tasks \cup (Groups \ {RootGroup})

\* The groups a unit is in, from its own up to the root.
GroupsAbove(u) ==
    LET up[n \in Nat] == IF n = 0 THEN {GroupOf[u]}
                         ELSE LET s == up[n - 1] IN s \cup {GroupOf[g] : g \in s \ {RootGroup}}
    IN  up[Cardinality(Groups)]

\* Containers form a tree: create_container makes each one a child of another.
ASSUME GroupTree == \A u \in Units : RootGroup \in GroupsAbove(u)

\* set_cpu_on has armed the timer; each processor runs its idle process.
SchedInit ==
    /\ st = [p \in Tasks \cup Cpus |-> IF p \in Cpus THEN "RUNNING" ELSE "UNUSED"]
    /\ rq = [g \in Groups |-> <<>>]
    /\ occupy = [u \in Units |-> 0]
    /\ thisproc = [c \in Cpus |-> c]
    /\ skilled = [p \in Tasks |-> FALSE]
    /\ armed = [c \in Cpus |-> TRUE]

-----------------------------------------------------------------------------
\* Mutant of NotEmptyContainer: only the group's own queue is looked at.
NotEmptyShallow(queues, g) == \E i \in DOMAIN queues[g] : queues[g][i] \in Tasks

\* not_empty_container: some process is queued in the group or in a group queued
\* below it.
NotEmptyContainer(queues, g) ==
    LET nonempty[n \in Nat] ==
            LET below == IF n = 0 THEN {} ELSE nonempty[n - 1] IN
            {h \in Groups : \E i \in 1 .. Len(queues[h]) : queues[h][i] \in Tasks \cup below}
    IN  g \in nonempty[Cardinality(Groups)]

\* u64 to int.
AsInt(x) == ((x + IntMax + 1) % (2 * (IntMax + 1))) - (IntMax + 1)

\* Mutant of LeastOccupied: the first eligible unit, whatever its time.
FirstEligible(queues, occ, g) ==
    LET e == SelectSeq(queues[g], LAMBDA u : u \in Tasks \/ NotEmptyContainer(queues, u))
    IN  IF e = <<>> THEN <<>> ELSE <<e[1]>>

\* The loop of traverse_queue over one queue: -1 in min_ means nothing seen yet.
LeastOccupied(queues, occ, g) ==
    LET scan[n \in 0 .. Len(queues[g])] ==
            IF n = 0 THEN [min |-> -1, next |-> <<>>]
            ELSE LET acc == scan[n - 1]
                     u == queues[g][n]
                     t == AsInt(occ[u]) IN
                 IF u \in Groups /\ ~NotEmptyContainer(queues, u) THEN acc
                 ELSE IF acc.min = -1 \/ t < acc.min THEN [min |-> t, next |-> <<u>>] ELSE acc
    IN  scan[Len(queues[g])].next

\* traverse_queue(&root_container): <<>> for NULL.
TraverseQueue(queues, occ) ==
    LET down[n \in Nat] ==
            LET u == IF n = 0 THEN <<RootGroup>> ELSE down[n - 1] IN
            IF u # <<>> /\ u[1] \in Groups THEN LeastOccupied(queues, occ, u[1]) ELSE u
    IN  down[Cardinality(Groups)]

\* update_this_state: the queue, then the time charged to the process and to
\* every group above it but the root.
Charge(p, dt) ==
    LET paid == {p} \cup (GroupsAbove(p) \ {RootGroup}) IN
    [u \in Units |-> IF u \in paid THEN occupy[u] + dt ELSE occupy[u]]

Requeue(p, new) ==
    IF new = "RUNNABLE" /\ p \in Tasks THEN [rq EXCEPT ![GroupOf[p]] = <<p>> \o @] ELSE rq

\* update_this_state and pick_next, then update_this_proc and the switch.
SwitchTo(c, queues, occ, new) ==
    LET picked == TraverseQueue(queues, occ)
        next == IF picked = <<>> THEN c ELSE picked[1]
        this == thisproc[c] IN
    /\ rq' = IF next = c THEN queues
             ELSE [queues EXCEPT ![GroupOf[next]] = Detach(@, next)]
    /\ occupy' = occ
    /\ st' = [st EXCEPT ![this] = new, ![next] = "RUNNING"]
    /\ thisproc' = [thisproc EXCEPT ![c] = next]

\* simple_sched: a killed process is not switched out unless it exits.  The timer
\* is cancelled and set again by update_this_proc.
SimpleSched(c, new) ==
    LET this == thisproc[c] IN
    IF this \in Tasks /\ skilled[this] /\ new # "ZOMBIE"
    THEN UNCHANGED <<st, rq, occupy, thisproc, armed>>
    ELSE /\ \E dt \in Slices :
            LET occ == IF this \in Tasks THEN Charge(this, dt) ELSE occupy IN
            /\ \A u \in Units : occ[u] <= MaxOccupy
            /\ SwitchTo(c, Requeue(this, new), occ, new)
         /\ armed' = [armed EXCEPT ![c] = TRUE]

-----------------------------------------------------------------------------
\* yield, a sleep or an exit of the process running on c.
Yield(c) == SimpleSched(c, "RUNNABLE") /\ UNCHANGED skilled
GoToSleep(c) ==
    /\ thisproc[c] \in Tasks
    /\ \E deep \in {"SLEEPING", "DEEPSLEEPING"} : SimpleSched(c, deep)
    /\ UNCHANGED skilled
Exit(c) == thisproc[c] \in Tasks /\ SimpleSched(c, "ZOMBIE") /\ UNCHANGED skilled

\* timer_clock_handler with sched_timer due: the timer leaves the tree, then
\* sched_of_t yields; the trap handler makes a killed process exit afterwards.
Tick(c) ==
    /\ armed[c]
    /\ LET this == thisproc[c] IN
       IF this \in Tasks /\ skilled[this]
       THEN armed' = [armed EXCEPT ![c] = FALSE] /\ UNCHANGED <<st, rq, occupy, thisproc>>
       ELSE SimpleSched(c, "RUNNABLE")
    /\ UNCHANGED skilled

\* Mutant of ActivateProc: a runnable process is queued again.
ActivateAgain(p, onalert) ==
    IF st[p] \in {"SLEEPING", "UNUSED", "RUNNABLE"} \/ (st[p] = "DEEPSLEEPING" /\ ~onalert)
    THEN /\ st' = [st EXCEPT ![p] = "RUNNABLE"]
         /\ rq' = [rq EXCEPT ![GroupOf[p]] = <<p>> \o @]
    ELSE UNCHANGED <<st, rq>>

\* _activate_proc: an alert (kill) leaves a deep sleeper alone.
ActivateProc(p, onalert) ==
    IF st[p] \in {"SLEEPING", "UNUSED"} \/ (st[p] = "DEEPSLEEPING" /\ ~onalert)
    THEN /\ st' = [st EXCEPT ![p] = "RUNNABLE"]
         /\ rq' = [rq EXCEPT ![GroupOf[p]] = <<p>> \o @]
    ELSE UNCHANGED <<st, rq>>

Activate(p) == ActivateProc(p, FALSE) /\ UNCHANGED <<occupy, thisproc, skilled, armed>>

Alert(p) ==
    /\ st[p] # "UNUSED"
    /\ skilled' = [skilled EXCEPT ![p] = TRUE]
    /\ ActivateProc(p, TRUE)
    /\ UNCHANGED <<occupy, thisproc, armed>>

Queued(u) == \E g \in Groups : u \in Listed(rq[g])

\* activate_group, once, after start_proc of the group's first process.
ActivateGroup(g) ==
    /\ g # RootGroup /\ ~Queued(g)
    /\ \E p \in Tasks : st[p] # "UNUSED" /\ g \in GroupsAbove(p)
    /\ rq' = [rq EXCEPT ![GroupOf[g]] = <<g>> \o @]
    /\ UNCHANGED <<st, occupy, thisproc, skilled, armed>>

SchedNext ==
    \/ \E c \in Cpus : Yield(c) \/ GoToSleep(c) \/ Exit(c) \/ Tick(c)
    \/ \E p \in Tasks : Activate(p) \/ Alert(p)
    \/ \E g \in Groups : ActivateGroup(g)

SchedSpec == SchedInit /\ [][SchedNext]_schedvars

-----------------------------------------------------------------------------
(* Properties.                                                                *)

\* Type invariant; what traverse_queue returns is a process, never a group.
SchedTypeOK ==
    /\ st \in [Tasks \cup Cpus -> SchedStates]
    /\ rq \in [Groups -> Seq(Units)]
    /\ occupy \in [Units -> 0 .. MaxOccupy]
    /\ thisproc \in [Cpus -> Tasks \cup Cpus]
    /\ skilled \in [Tasks -> BOOLEAN] /\ armed \in [Cpus -> BOOLEAN]

\* A process is queued, once and in its own group, exactly while it is RUNNABLE,
\* and it is RUNNING exactly while one processor runs it: an activation that
\* races with a yield, a sleep or another activation (sched.c:94) neither loses
\* it nor lets two processors run it.
RunQueuesExact ==
    /\ \A p \in Tasks :
        /\ st[p] = "RUNNABLE" <=> p \in Listed(rq[GroupOf[p]])
        /\ st[p] = "RUNNING" <=> \E c \in Cpus : thisproc[c] = p
    /\ \A g \in Groups : Distinct(rq[g]) /\ \A u \in Listed(rq[g]) : GroupOf[u] = g
    /\ \A c, d \in Cpus : thisproc[c] = thisproc[d] => c = d

\* What simple_sched asserts of the process it picks (sched.c:250), idle included:
\* an idle process that is not running is RUNNABLE.
IdleAlwaysPickable == \A c \in Cpus : st[c] = IF thisproc[c] = c THEN "RUNNING" ELSE "RUNNABLE"

\* Every processor that runs an unkilled process (or idle) has its timer armed,
\* so the process can be preempted; a killed one leaves by exit, which arms it.
PreemptionArmed ==
    \A c \in Cpus : armed[c] \/ (thisproc[c] \in Tasks /\ skilled[thisproc[c]])

Total(f, S) == MapThenSumSet(LAMBDA x : f[x], S)

\* A group has been charged what the processes in it, at any depth, were charged.
GroupPaysForMembers ==
    \A g \in Groups \ {RootGroup} :
        occupy[g] = Total(occupy, {p \in Tasks : g \in GroupsAbove(p)})

\* The scheduler's state as sched() and _activate_proc leave it under sched_lock:
\* the queues and the states match, idle can always be picked, every processor
\* can preempt, and every group above a process pays for it (sched.c:94-262).
SchedInv ==
    SchedTypeOK /\ RunQueuesExact /\ IdleAlwaysPickable /\ PreemptionArmed /\ GroupPaysForMembers

\* The process is queued under groups that are all queued themselves.
Schedulable(p) == st[p] = "RUNNABLE" /\ \A g \in GroupsAbove(p) \ {RootGroup} : Queued(g)

\* A processor goes idle only when no process can be scheduled: the emptiness
\* test and the descent of traverse_queue agree at any nesting (sched.c:176, 191).
IdleOnlyWhenNothingToRun ==
    [][\A c \in Cpus : thisproc'[c] = c /\ thisproc[c] # c =>
            ~\E p \in Tasks : Schedulable(p)']_schedvars

\* traverse_queue takes a charge that converts to -1 for "nothing seen yet".
SentinelFree(g, u) == \A w \in Listed(rq[g]) \cup {u} : AsInt(occupy[w]) # -1

\* The process picked comes, in each queue on its way from the root, from the
\* eligible unit whose charge is the least as the int of sched.c:180: a charge past
\* INT_MAX has become negative and goes first.  A queue with a unit whose charge
\* converts to the loop's own mark -1 is exempt: what follows that unit then wins
\* whatever its charge.
PicksLeastCharged ==
    [][\A c \in Cpus : thisproc'[c] # thisproc[c] /\ thisproc'[c] \in Tasks =>
        LET path == {thisproc'[c]} \cup (GroupsAbove(thisproc'[c]) \ {RootGroup}) IN
        \A u \in path, p \in Tasks :
            SentinelFree(GroupOf[u], u)' /\ Schedulable(p)' =>
                \A v \in {p} \cup (GroupsAbove(p) \ {RootGroup}) :
                    GroupOf[v] = GroupOf[u] => AsInt(occupy'[u]) <= AsInt(occupy'[v])]_schedvars
=============================================================================
