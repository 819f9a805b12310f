------------------------------ MODULE Semaphore ------------------------------
(***************************************************************************)
(* A semaphore (src/common/sem.c) with the part of the scheduler that puts *)
(* a waiter to sleep and wakes it (src/kernel/sched.c), and kill (proc.c). *)
(*                                                                         *)
(* _wait_sem takes the scheduler lock before it gives up sem->lock, and    *)
(* keeps it until the scheduler has switched away: a process whose pc is   *)
(* "sched" holds it.  Everything else in sem.c runs under sem->lock; a     *)
(* step of the model is one such critical section, taken at the moment it  *)
(* gets the scheduler lock if it needs it.                                 *)
(*                                                                         *)
(* RUNNING and RUNNABLE are one state here, "active": _activate_proc       *)
(* treats them alike and the dispatcher only turns one into the other.     *)
(***************************************************************************)
EXTENDS Integers, FiniteSets, ListOps

CONSTANTS
  Procs,     \* processes that use the semaphore
  InitVal,   \* val of init_sem
  MaxVal     \* bound on val: nobody posts beyond it

ASSUME SemAssumption ==
  IsFiniteSet(Procs) /\ InitVal \in Nat /\ MaxVal \in Nat

VARIABLES
  val,        \* sem->val
  sleeplist,  \* sem->sleeplist, the process that has waited longest first
  up,         \* wait->up of the process's WaitData
  pc,         \* "idle", "sched" (on the list, about to sleep) or "asleep"
  deep,       \* the process's last wait was not alertable
  ret,        \* what its last wait returned
  state,      \* proc->state
  killed,     \* proc->killed
  alerting,   \* processes that kill has marked and not yet alerted
  balance     \* history: units posted minus units that processes have got

sched == <<state, killed, alerting>>
vars == <<val, sleeplist, up, pc, deep, ret, sched, balance>>

Init ==
  /\ val = InitVal
  /\ sleeplist = <<>>
  /\ up = [p \in Procs |-> FALSE]
  /\ pc = [p \in Procs |-> "idle"]
  /\ deep = [p \in Procs |-> FALSE]
  /\ ret = [p \in Procs |-> TRUE]
  /\ state = [p \in Procs |-> "active"]
  /\ killed = [p \in Procs |-> FALSE]
  /\ alerting = {}
  /\ balance = 0

SchedLockFree == \A p \in Procs : pc[p] # "sched"

(***************************************************************************)
(* sched.c                                                                 *)
(***************************************************************************)

\* Mutant: an alert does not wake a sleeping process.
ActivatedAlertLost(p, onalert) ==
  IF ~onalert THEN [state EXCEPT ![p] = "active"] ELSE state

\* _activate_proc: an alert leaves a DEEPSLEEPING process asleep.
Activated(p, onalert) ==
  IF state[p] = "sleeping" \/ (state[p] = "deepsleeping" /\ ~onalert)
    THEN [state EXCEPT ![p] = "active"]
    ELSE state

\* simple_sched returns at once for a process that has been killed.
StaysAwake(p) == killed[p]

\* sched(SLEEPING) or sched(DEEPSLEEPING), and the scheduler lock is released.
Sleep(p) ==
  /\ pc[p] = "sched"
  /\ pc' = [pc EXCEPT ![p] = "asleep"]
  /\ state' = IF StaysAwake(p) THEN state
              ELSE [state EXCEPT ![p] = IF deep[p] THEN "deepsleeping" ELSE "sleeping"]
  /\ UNCHANGED <<val, sleeplist, up, deep, ret, killed, alerting, balance>>

(***************************************************************************)
(* kill: the flag first, then alert_proc under the scheduler lock.  plock  *)
(* lets one kill run at a time.                                            *)
(***************************************************************************)
KillMark(p) ==
  /\ alerting = {}
  /\ killed' = [killed EXCEPT ![p] = TRUE]
  /\ alerting' = {p}
  /\ UNCHANGED <<val, sleeplist, up, pc, deep, ret, state, balance>>

KillAlert(p) ==
  /\ p \in alerting
  /\ SchedLockFree
  /\ state' = Activated(p, TRUE)
  /\ alerting' = alerting \ {p}
  /\ UNCHANGED <<val, sleeplist, up, pc, deep, ret, killed, balance>>

(***************************************************************************)
(* sem.c                                                                   *)
(***************************************************************************)

\* _wait_sem: either a unit is there, or the process joins the sleep list.
WaitTake(p, alertable) ==
  /\ pc[p] = "idle"
  /\ val > 0
  /\ val' = val - 1
  /\ deep' = [deep EXCEPT ![p] = ~alertable]
  /\ ret' = [ret EXCEPT ![p] = TRUE]
  /\ balance' = balance - 1
  /\ UNCHANGED <<sleeplist, up, pc, sched>>

WaitEnqueue(p, alertable) ==
  /\ pc[p] = "idle"
  /\ val <= 0
  /\ SchedLockFree
  /\ val' = val - 1
  /\ sleeplist' = Append(sleeplist, p)
  /\ up' = [up EXCEPT ![p] = FALSE]
  /\ deep' = [deep EXCEPT ![p] = ~alertable]
  /\ pc' = [pc EXCEPT ![p] = "sched"]
  /\ UNCHANGED <<ret, sched, balance>>

\* Mutant: a waiter that gives up does not give its unit of val back.
GiveUpKeepsVal(p) == val' = val /\ sleeplist' = Detach(sleeplist, p)

GiveUp(p) == val' = val + 1 /\ sleeplist' = Detach(sleeplist, p)

\* The rest of _wait_sem, when the process runs again: posted, or woken by
\* something else and giving up.
WaitReturn(p) ==
  /\ pc[p] = "asleep"
  /\ state[p] = "active"
  /\ \/ /\ up[p]
        /\ balance' = balance - 1
        /\ UNCHANGED <<val, sleeplist>>
     \/ /\ ~up[p]
        /\ GiveUp(p)
        /\ UNCHANGED balance
  /\ ret' = [ret EXCEPT ![p] = up[p]]
  /\ pc' = [pc EXCEPT ![p] = "idle"]
  /\ UNCHANGED <<up, deep, sched>>

\* Mutant: the process that came last is posted first.
NextWaiterNewest == sleeplist[Len(sleeplist)]

\* sem->sleeplist.prev.
NextWaiter == sleeplist[1]

\* Mutant: the waiter is taken off the list and activated, up is not set.
UpForgotten(p) == up

Up(p) == [up EXCEPT ![p] = TRUE]

\* _post_sem: the unit goes to the process that has waited longest, if any.
Post ==
  /\ val < MaxVal
  /\ SchedLockFree
  /\ val' = val + 1
  /\ balance' = balance + 1
  /\ \/ /\ val' <= 0
        /\ up' = Up(NextWaiter)
        /\ sleeplist' = Detach(sleeplist, NextWaiter)
        /\ state' = Activated(NextWaiter, FALSE)
     \/ /\ val' > 0
        /\ UNCHANGED <<up, sleeplist, state>>
  /\ UNCHANGED <<pc, deep, ret, killed, alerting>>

\* post_all_sem: posts until _get_sem gets a unit back, which is once every
\* waiter has been posted.
PostAll ==
  /\ val < 0
  /\ SchedLockFree
  /\ val' = 0
  /\ balance' = balance - val
  /\ up' = [p \in Procs |-> up[p] \/ p \in Listed(sleeplist)]
  /\ state' = [p \in Procs |-> IF p \in Listed(sleeplist) THEN "active" ELSE state[p]]
  /\ sleeplist' = <<>>
  /\ UNCHANGED <<pc, deep, ret, killed, alerting>>

\* _get_sem and get_all_sem do not wait.
GetSem ==
  /\ val > 0
  /\ val' = val - 1
  /\ balance' = balance - 1
  /\ UNCHANGED <<sleeplist, up, pc, deep, ret, sched>>

GetAll ==
  /\ val > 0
  /\ val' = 0
  /\ balance' = balance - val
  /\ UNCHANGED <<sleeplist, up, pc, deep, ret, sched>>

-----------------------------------------------------------------------------

Wait(p) == \E alertable \in BOOLEAN : WaitTake(p, alertable) \/ WaitEnqueue(p, alertable)

Kill(p) == KillMark(p) \/ KillAlert(p)

Next ==
  \/ \E p \in Procs : Wait(p) \/ Sleep(p) \/ WaitReturn(p) \/ Kill(p)
  \/ Post
  \/ PostAll
  \/ GetSem
  \/ GetAll

Spec == Init /\ [][Next]_vars

(***************************************************************************)
(* Properties                                                              *)
(***************************************************************************)

\* Types of the variables.
TypeOK ==
  /\ val \in Int
  /\ sleeplist \in Seq(Procs)
  /\ up \in [Procs -> BOOLEAN]
  /\ pc \in [Procs -> {"idle", "sched", "asleep"}]
  /\ deep \in [Procs -> BOOLEAN]
  /\ ret \in [Procs -> BOOLEAN]
  /\ state \in [Procs -> {"active", "sleeping", "deepsleeping"}]
  /\ killed \in [Procs -> BOOLEAN]
  /\ alerting \in SUBSET Procs
  /\ balance \in Int

\* A negative val counts the sleep list: the assertions of lines 82 and 95.
ValCountsSleepers == Len(sleeplist) = IF val < 0 THEN -val ELSE 0

\* The sleep list holds exactly the processes that are inside _wait_sem and
\* have not been posted, each of them once, although posts take them off at
\* one end and killed waiters anywhere.
SleeplistExact ==
  /\ Listed(sleeplist) = {p \in Procs : pc[p] # "idle" /\ ~up[p]}
  /\ Distinct(sleeplist)

\* No lost wakeup: a process that has been posted is not asleep and will not
\* fall asleep, wherever between the list and the scheduler the post met it.
NoLostWakeup ==
  \A p \in Procs :
    pc[p] # "idle" /\ up[p] => pc[p] = "asleep" /\ state[p] = "active"

\* No lost kill: a process that sleeps alertably although it has been killed
\* is about to be alerted.
NoLostKill ==
  \A p \in Procs : killed[p] /\ state[p] = "sleeping" => p \in alerting

\* The inductive invariant: the properties above, and only a process inside
\* _wait_sem sleeps.
SemInv ==
  /\ TypeOK
  /\ ValCountsSleepers
  /\ SleeplistExact
  /\ NoLostWakeup
  /\ NoLostKill
  /\ \A p \in Procs : pc[p] # "asleep" => state[p] = "active"

Posted == {p \in Procs : pc[p] # "idle" /\ up[p]}

\* Units are neither lost nor invented, whatever kills and posts race: each is
\* in val, has been taken, or belongs to a posted waiter that has not run yet.
UnitsConserved ==
  InitVal + balance = val + Len(sleeplist) + Cardinality(Posted)

\* A wait fails only for a process that has been killed.  (unalertable_wait_sem,
\* sem.h:33, asserts more: that a wait which is not alertable never fails.)
WaitFailsOnlyIfKilled == \A p \in Procs : ~ret[p] => killed[p]
=============================================================================
