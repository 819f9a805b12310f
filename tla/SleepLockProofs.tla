-------------------------- MODULE SleepLockProofs --------------------------
(***************************************************************************)
(* Proofs about Semaphore and SleepLock: val counts the sleep list, neither *)
(* a post nor a kill is lost on the way into the scheduler, and a sleep    *)
(* lock excludes because the units of its semaphore are conserved.         *)
(***************************************************************************)
EXTENDS SleepLock, DataLemmas

-----------------------------------------------------------------------------

\* init_sem: nobody waits.
LEMMA SemInvInit == Init => SemInv
<1> SUFFICES ASSUME Init PROVE SemInv
  BY Zenon
<1>1. TypeOK
  BY SemAssumption DEF Init, TypeOK
<1>2. Listed(sleeplist) = {} /\ Distinct(sleeplist) /\ Len(sleeplist) = 0
  BY DEF Init, Listed, Distinct
<1> QED
  BY <1>1, <1>2, SemAssumption
  DEF Init, SemInv, ValCountsSleepers, SleeplistExact, NoLostWakeup, NoLostKill

\* A step that touches neither the list nor the processes that wait.
LEMMA WaitTakeSemInv ==
  ASSUME SemInv, NEW p \in Procs, NEW a \in BOOLEAN, WaitTake(p, a)
  PROVE  SemInv'
<1>1. TypeOK'
  BY DEF SemInv, TypeOK, WaitTake, sched
<1>2. ValCountsSleepers'
  BY DEF SemInv, TypeOK, WaitTake, ValCountsSleepers
<1> QED
  BY Zenon, <1>1, <1>2
  DEF SemInv, WaitTake, sched, SleeplistExact, NoLostWakeup, NoLostKill

\* _get_sem and get_all_sem take units only while nobody waits.
LEMMA GetSemInv ==
  ASSUME SemInv, GetSem \/ GetAll
  PROVE  SemInv'
<1>1. TypeOK'
  BY DEF SemInv, TypeOK, GetSem, GetAll, sched
<1>2. ValCountsSleepers'
  BY DEF SemInv, TypeOK, GetSem, GetAll, ValCountsSleepers
<1> QED
  BY Zenon, <1>1, <1>2
  DEF SemInv, GetSem, GetAll, sched, SleeplistExact, NoLostWakeup, NoLostKill

\* A process that finds val <= 0 joins the list before the lock is free again.
LEMMA WaitEnqueueSemInv ==
  ASSUME SemInv, NEW p \in Procs, NEW a \in BOOLEAN, WaitEnqueue(p, a)
  PROVE  SemInv'
<1> USE DEF SemInv
<1>1. p \notin Listed(sleeplist)
  BY Zenon DEF WaitEnqueue, SleeplistExact
<1>2. /\ sleeplist' \in Seq(Procs)
      /\ Len(sleeplist') = Len(sleeplist) + 1
      /\ Listed(sleeplist') = Listed(sleeplist) \cup {p}
      /\ Distinct(sleeplist')
  BY <1>1, AppendEntry DEF WaitEnqueue, TypeOK, SleeplistExact
<1>3. TypeOK'
  BY <1>2 DEF TypeOK, WaitEnqueue, sched
<1>4. ValCountsSleepers'
  BY <1>2 DEF TypeOK, WaitEnqueue, ValCountsSleepers
<1>5. SleeplistExact'
  BY <1>2 DEF TypeOK, WaitEnqueue, SleeplistExact
<1>6. NoLostWakeup'
  BY Zenon DEF TypeOK, WaitEnqueue, NoLostWakeup, sched
<1>7. NoLostKill'
  BY Zenon DEF WaitEnqueue, NoLostKill, sched
<1> QED
  BY Zenon, <1>3, <1>4, <1>5, <1>6, <1>7 DEF WaitEnqueue, TypeOK, sched

\* Under the scheduler lock: nobody has been able to post or to alert the
\* process since it joined the list.
LEMMA SleepSemInv ==
  ASSUME SemInv, NEW p \in Procs, Sleep(p)
  PROVE  SemInv'
<1> USE DEF SemInv
<1>1. TypeOK'
  BY Zenon DEF TypeOK, Sleep
<1>2. ValCountsSleepers'
  BY Zenon DEF Sleep, ValCountsSleepers
<1>3. SleeplistExact'
  BY Zenon DEF TypeOK, Sleep, SleeplistExact
<1>4. ~up[p]
  BY Zenon DEF Sleep, NoLostWakeup
<1>5. NoLostWakeup'
  BY Zenon, <1>4 DEF TypeOK, Sleep, NoLostWakeup
<1>6. NoLostKill'
  BY Zenon DEF TypeOK, Sleep, StaysAwake, NoLostKill
<1> QED
  BY <1>1, <1>2, <1>3, <1>5, <1>6 DEF Sleep, TypeOK

\* kill marks before it alerts.
LEMMA KillMarkSemInv ==
  ASSUME SemInv, NEW p \in Procs, KillMark(p)
  PROVE  SemInv'
<1> USE DEF SemInv
<1>1. TypeOK'
  BY Zenon DEF TypeOK, KillMark
<1>2. NoLostKill'
  BY Zenon DEF TypeOK, KillMark, NoLostKill
<1> QED
  BY Zenon, <1>1, <1>2
  DEF KillMark, ValCountsSleepers, SleeplistExact, NoLostWakeup

\* The alert finds the process asleep, or awake and holding no scheduler lock.
LEMMA KillAlertSemInv ==
  ASSUME SemInv, NEW p \in Procs, KillAlert(p)
  PROVE  SemInv'
<1> USE DEF SemInv
<1>1. TypeOK'
  BY Zenon DEF TypeOK, KillAlert, Activated
<1>2. state'[p] # "sleeping"
  BY Zenon DEF TypeOK, KillAlert, Activated
<1>3. \A q \in Procs : state'[q] = state[q] \/ state'[q] = "active"
  BY Zenon DEF TypeOK, KillAlert, Activated
<1> QED
  BY Zenon, <1>1, <1>2, <1>3
  DEF KillAlert, ValCountsSleepers, SleeplistExact, NoLostWakeup, NoLostKill

\* A waiter that was posted is off the list; one that gives up takes itself
\* off and returns its unit, which leaves val <= 0 (line 82).
LEMMA WaitReturnSemInv ==
  ASSUME SemInv, NEW p \in Procs, WaitReturn(p)
  PROVE  SemInv'
<1> USE DEF SemInv
<1>1. CASE up[p] /\ UNCHANGED <<val, sleeplist>> /\ balance' = balance - 1
  <2>1. TypeOK'
    BY <1>1 DEF TypeOK, WaitReturn, sched
  <2>2. ValCountsSleepers'
    BY Zenon, <1>1 DEF ValCountsSleepers
  <2>3. SleeplistExact'
    BY Zenon, <1>1 DEF TypeOK, WaitReturn, SleeplistExact
  <2>4. NoLostWakeup' /\ NoLostKill'
    BY Zenon DEF TypeOK, WaitReturn, NoLostWakeup, NoLostKill, sched
  <2> QED
    BY Zenon, <2>1, <2>2, <2>3, <2>4 DEF WaitReturn, TypeOK, sched
<1>2. CASE ~up[p] /\ GiveUp(p) /\ UNCHANGED balance
  <2>1. p \in Listed(sleeplist)
    BY Zenon, <1>2 DEF WaitReturn, SleeplistExact
  <2>2. /\ sleeplist' \in Seq(Procs)
        /\ Len(sleeplist') = Len(sleeplist) - 1
        /\ Listed(sleeplist') = Listed(sleeplist) \ {p}
        /\ Distinct(sleeplist')
    BY Zenon, <1>2, <2>1, DetachEntry DEF GiveUp, TypeOK, SleeplistExact
  <2>3. Len(sleeplist) > 0
    BY <2>1 DEF Listed, TypeOK
  <2>4. TypeOK'
    BY <1>2, <2>2 DEF TypeOK, WaitReturn, GiveUp, sched
  <2>5. ValCountsSleepers'
    BY <1>2, <2>2, <2>3 DEF TypeOK, GiveUp, ValCountsSleepers
  <2>6. SleeplistExact'
    BY Zenon, <2>2 DEF TypeOK, WaitReturn, SleeplistExact
  <2>7. NoLostWakeup' /\ NoLostKill'
    BY Zenon DEF TypeOK, WaitReturn, NoLostWakeup, NoLostKill, sched
  <2> QED
    BY Zenon, <2>4, <2>5, <2>6, <2>7 DEF WaitReturn, TypeOK, sched
<1> QED
  BY Zenon, <1>1, <1>2 DEF WaitReturn

\* _post_sem finds a waiter whenever val says there is one (line 95).
LEMMA PostSemInv ==
  ASSUME SemInv, Post
  PROVE  SemInv'
<1> USE DEF SemInv
<1>1. CASE val' > 0 /\ UNCHANGED <<up, sleeplist, state>>
  <2>1. TypeOK'
    BY <1>1 DEF TypeOK, Post
  <2>2. ValCountsSleepers'
    BY <1>1 DEF TypeOK, Post, ValCountsSleepers
  <2> QED
    BY Zenon, <1>1, <2>1, <2>2 DEF Post, SleeplistExact, NoLostWakeup, NoLostKill
<1>2. CASE /\ val' <= 0
           /\ up' = Up(NextWaiter)
           /\ sleeplist' = Detach(sleeplist, NextWaiter)
           /\ state' = Activated(NextWaiter, FALSE)
  <2>1. Len(sleeplist) > 0
    BY <1>2 DEF TypeOK, Post, ValCountsSleepers
  <2>2. NextWaiter \in Listed(sleeplist) /\ NextWaiter \in Procs
    BY <2>1 DEF TypeOK, NextWaiter, Listed
  <2> HIDE DEF SemInv
  <2>3. /\ sleeplist' \in Seq(Procs)
        /\ Len(sleeplist') = Len(sleeplist) - 1
        /\ Listed(sleeplist') = Listed(sleeplist) \ {NextWaiter}
        /\ Distinct(sleeplist')
    BY Zenon, <1>2, <2>2, DetachEntry DEF SemInv, TypeOK, SleeplistExact
  <2> USE DEF SemInv
  <2>4. TypeOK'
    BY <1>2, <2>2, <2>3 DEF TypeOK, Post, Up, Activated
  <2>5. ValCountsSleepers'
    BY <1>2, <2>1, <2>3 DEF TypeOK, Post, ValCountsSleepers
  <2>6. SleeplistExact'
    BY Zenon, <1>2, <2>2, <2>3 DEF TypeOK, Post, Up, SleeplistExact
  <2>7. /\ state'[NextWaiter] = "active"
        /\ \A q \in Procs : state'[q] = state[q] \/ state'[q] = "active"
    BY Zenon, <1>2, <2>2 DEF TypeOK, Activated
  <2>8. pc[NextWaiter] = "asleep"
    BY Zenon, <2>2 DEF Post, SchedLockFree, SleeplistExact, TypeOK
  <2>9. NoLostWakeup'
    BY <1>2, <2>2, <2>7, <2>8 DEF TypeOK, Post, Up, NoLostWakeup
  <2>10. NoLostKill'
    BY Zenon, <2>7 DEF Post, NoLostKill
  <2> QED
    BY Zenon, <2>4, <2>5, <2>6, <2>7, <2>9, <2>10 DEF Post
<1> QED
  BY Zenon, <1>1, <1>2 DEF Post

\* post_all_sem empties the list.
LEMMA PostAllSemInv ==
  ASSUME SemInv, PostAll
  PROVE  SemInv'
<1> USE DEF SemInv
<1>1. TypeOK'
  BY DEF TypeOK, PostAll
<1>2. Listed(sleeplist') = {} /\ Distinct(sleeplist') /\ Len(sleeplist') = 0
  BY DEF PostAll, Listed, Distinct
<1>3. ValCountsSleepers'
  BY <1>2 DEF PostAll, ValCountsSleepers
<1>4. SleeplistExact'
  BY Zenon, <1>2 DEF TypeOK, PostAll, SleeplistExact
<1>5. NoLostWakeup'
  BY Zenon DEF TypeOK, PostAll, NoLostWakeup, SleeplistExact, SchedLockFree
<1>6. NoLostKill'
  BY Zenon DEF TypeOK, PostAll, NoLostKill
<1> QED
  BY Zenon, <1>1, <1>3, <1>4, <1>5, <1>6 DEF PostAll, TypeOK

\* No step of sem.c, of the scheduler or of kill breaks the invariant.
LEMMA SemInvStep ==
  ASSUME SemInv, [Next]_vars
  PROVE  SemInv'
<1>1. CASE \E p \in Procs : Wait(p)
  BY Zenon, <1>1, WaitTakeSemInv, WaitEnqueueSemInv DEF Wait
<1>2. CASE \E p \in Procs : Sleep(p) \/ WaitReturn(p)
  BY Zenon, <1>2, SleepSemInv, WaitReturnSemInv
<1>3. CASE \E p \in Procs : Kill(p)
  BY Zenon, <1>3, KillMarkSemInv, KillAlertSemInv DEF Kill
<1>4. CASE Post \/ PostAll
  BY Zenon, <1>4, PostSemInv, PostAllSemInv
<1>5. CASE GetSem \/ GetAll
  BY Zenon, <1>5, GetSemInv
<1>6. CASE UNCHANGED vars
  <2>1. TypeOK'
    BY Zenon, <1>6 DEF SemInv, TypeOK, vars, sched
  <2> QED
    BY Zenon, <1>6, <2>1 DEF SemInv, vars, sched, ValCountsSleepers, SleeplistExact,
       NoLostWakeup, NoLostKill
<1> QED
  BY Zenon, <1>1, <1>2, <1>3, <1>4, <1>5, <1>6 DEF Next

\* The inductive invariant of a semaphore, for any number of processes.
THEOREM SemInvariant == Spec => []SemInv
<1>1. Init => SemInv
  BY Zenon, SemInvInit
<1>2. SemInv /\ [Next]_vars => SemInv'
  BY Zenon, SemInvStep
<1> QED
  BY <1>1, <1>2, PTL DEF Spec

\* The assertions of sem.c on val (lines 82 and 95) never fail.
THEOREM SleepersCounted == Spec => []ValCountsSleepers
<1>1. SemInv => ValCountsSleepers
  BY Zenon DEF SemInv
<1> QED
  BY <1>1, SemInvariant, PTL

\* _post_sem and a waiter that gives up take processes off the sleep list
\* concurrently; it holds exactly the ones that were not posted.
THEOREM SleepersListed == Spec => []SleeplistExact
<1>1. SemInv => SleeplistExact
  BY Zenon DEF SemInv
<1> QED
  BY <1>1, SemInvariant, PTL

\* A process that _post_sem has posted runs again.
THEOREM NoWakeupIsLost == Spec => []NoLostWakeup
<1>1. SemInv => NoLostWakeup
  BY Zenon DEF SemInv
<1> QED
  BY <1>1, SemInvariant, PTL

\* A process that kill has marked and alerted does not sleep alertably.
THEOREM NoKillIsLost == Spec => []NoLostKill
<1>1. SemInv => NoLostKill
  BY Zenon DEF SemInv
<1> QED
  BY <1>1, SemInvariant, PTL

-----------------------------------------------------------------------------

\* Behind WaitFailsOnlyIfKilled: only a kill makes a waiter run that has not
\* been posted.
FailInv ==
  /\ \A p \in Procs : pc[p] = "asleep" /\ state[p] = "active" /\ ~up[p] => killed[p]
  /\ \A p \in alerting : killed[p]
  /\ WaitFailsOnlyIfKilled

\* Every step keeps it; a post activates only the waiter it has marked as up.
LEMMA FailInvStep ==
  ASSUME SemInv, FailInv, [Next]_vars
  PROVE  FailInv'
<1> USE DEF SemInv, TypeOK, FailInv, WaitFailsOnlyIfKilled
<1>1. ASSUME NEW p \in Procs, Wait(p) PROVE FailInv'
  BY <1>1 DEF Wait, WaitTake, WaitEnqueue, sched
<1>2. ASSUME NEW p \in Procs, Sleep(p) PROVE FailInv'
  BY Zenon, <1>2 DEF Sleep, StaysAwake
<1>3. ASSUME NEW p \in Procs, WaitReturn(p) PROVE FailInv'
  BY Zenon, <1>3 DEF WaitReturn, sched
<1>4. ASSUME NEW p \in Procs, Kill(p) PROVE FailInv'
  BY <1>4 DEF Kill, KillMark, KillAlert, Activated
<1>5. ASSUME Post PROVE FailInv'
  <2>0. UNCHANGED <<pc, ret, killed, alerting>>
    BY Zenon, <1>5 DEF Post
  <2>1. CASE val' <= 0 /\ up' = Up(NextWaiter) /\ state' = Activated(NextWaiter, FALSE)
    <3>1. Len(sleeplist) > 0
      BY <1>5, <2>1 DEF Post, ValCountsSleepers
    <3>2. NextWaiter \in Procs
      BY <3>1 DEF NextWaiter
    <3> QED
      BY Zenon, <2>0, <2>1, <3>2 DEF Up, Activated
  <2>2. CASE UNCHANGED <<up, state>>
    BY Zenon, <2>0, <2>2
  <2> QED
    BY Zenon, <1>5, <2>1, <2>2 DEF Post
<1>6. ASSUME PostAll PROVE FailInv'
  BY Zenon, <1>6 DEF PostAll
<1>7. ASSUME GetSem \/ GetAll PROVE FailInv'
  BY Zenon, <1>7 DEF GetSem, GetAll, sched
<1>8. ASSUME UNCHANGED vars PROVE FailInv'
  BY Zenon, <1>8 DEF vars, sched
<1> QED
  BY Zenon, <1>1, <1>2, <1>3, <1>4, <1>5, <1>6, <1>7, <1>8 DEF Next

\* _wait_sem returns false only to a process that has been killed, although
\* kills, posts and the scheduler's switch interleave.
THEOREM FailedWaitersWereKilled == Spec => []WaitFailsOnlyIfKilled
<1>1. Init => FailInv
  BY Zenon DEF Init, FailInv, WaitFailsOnlyIfKilled
<1>2. SemInv /\ FailInv /\ [Next]_vars => FailInv'
  BY Zenon, FailInvStep
<1>3. FailInv => WaitFailsOnlyIfKilled
  BY Zenon DEF FailInv
<1> QED
  BY <1>1, <1>2, <1>3, SemInvariant, PTL DEF Spec

-----------------------------------------------------------------------------

\* The posted waiters are some of the finitely many processes.
LEMMA PostedFinite == IsFiniteSet(Posted) /\ Cardinality(Posted) \in Nat
<1>1. Posted \in SUBSET Procs
  BY Zenon DEF Posted
<1> QED
  BY Zenon, <1>1, SemAssumption, FS_Subset, FS_CardinalityType

\* Every step keeps the account of units.
LEMMA UnitsStep ==
  ASSUME SemInv, SemInv', UnitsConserved, [Next]_vars
  PROVE  UnitsConserved'
<1> USE DEF UnitsConserved
<1>1. /\ val \in Int /\ val' \in Int /\ balance \in Int /\ balance' \in Int
      /\ Len(sleeplist) \in Nat /\ Len(sleeplist') \in Nat /\ InitVal \in Int
      /\ IsFiniteSet(Posted) /\ Cardinality(Posted) \in Nat
  BY PostedFinite, SemAssumption DEF SemInv, TypeOK
<1>2. ASSUME NEW p \in Procs, NEW a \in BOOLEAN, WaitTake(p, a)
      PROVE  UnitsConserved'
  <2>1. Posted' = Posted
    BY Zenon, <1>2 DEF WaitTake, Posted
  <2> QED
    BY <1>1, <1>2, <2>1 DEF WaitTake
<1>3. ASSUME NEW p \in Procs, NEW a \in BOOLEAN, WaitEnqueue(p, a)
      PROVE  UnitsConserved'
  <2>1. Posted' = Posted
    BY Zenon, <1>3 DEF WaitEnqueue, Posted, SemInv, TypeOK
  <2>2. Len(sleeplist') = Len(sleeplist) + 1
    BY <1>3 DEF WaitEnqueue, SemInv, TypeOK
  <2> QED
    BY <1>1, <1>3, <2>1, <2>2 DEF WaitEnqueue
<1>4. ASSUME NEW p \in Procs, Sleep(p) \/ Kill(p)
      PROVE  UnitsConserved'
  <2>1. CASE Sleep(p)
    <3>1. \A q \in Procs : pc'[q] # "idle" <=> pc[q] # "idle"
      BY Zenon, <2>1 DEF Sleep, SemInv, TypeOK
    <3>2. up' = up
      BY Zenon, <2>1 DEF Sleep
    <3>3. Posted' = Posted
      BY Zenon, <3>1, <3>2 DEF Posted
    <3> QED
      BY Zenon, <2>1, <3>3 DEF Sleep
  <2>2. CASE Kill(p)
    <3>1. Posted' = Posted
      BY Zenon, <2>2 DEF Kill, KillMark, KillAlert, Posted
    <3> QED
      BY Zenon, <2>2, <3>1 DEF Kill, KillMark, KillAlert
  <2> QED
    BY Zenon, <1>4, <2>1, <2>2
<1>5. ASSUME NEW p \in Procs, WaitReturn(p)
      PROVE  UnitsConserved'
  <2>1. CASE up[p] /\ UNCHANGED <<val, sleeplist>> /\ balance' = balance - 1
    <3>1. Posted' = Posted \ {p} /\ p \in Posted
      BY Zenon, <1>5, <2>1 DEF WaitReturn, Posted, SemInv, TypeOK
    <3>2. Cardinality(Posted') = Cardinality(Posted) - 1
      BY Zenon, <1>1, <3>1, FS_RemoveElement
    <3> QED
      BY <1>1, <2>1, <3>2
  <2>2. CASE ~up[p] /\ GiveUp(p) /\ UNCHANGED balance
    <3>1. Posted' = Posted
      BY <1>5, <2>2 DEF WaitReturn, Posted, SemInv, TypeOK
    <3>2. p \in Listed(sleeplist)
      BY Zenon, <1>5, <2>2 DEF WaitReturn, SemInv, SleeplistExact
    <3>3. Len(sleeplist') = Len(sleeplist) - 1
      BY Zenon, <2>2, <3>2, DetachEntry DEF GiveUp, SemInv, TypeOK, SleeplistExact
    <3> QED
      BY <1>1, <2>2, <3>1, <3>3 DEF GiveUp
  <2> QED
    BY Zenon, <1>5, <2>1, <2>2 DEF WaitReturn
<1>6. CASE Post
  <2>1. CASE val' > 0 /\ UNCHANGED <<up, sleeplist, state>>
    <3>1. Posted' = Posted
      BY Zenon, <1>6, <2>1 DEF Post, Posted
    <3> QED
      BY <1>1, <1>6, <2>1, <3>1 DEF Post
  <2>2. CASE /\ val' <= 0
             /\ up' = Up(NextWaiter)
             /\ sleeplist' = Detach(sleeplist, NextWaiter)
    <3>1. Len(sleeplist) > 0
      BY <1>6, <2>2 DEF SemInv, TypeOK, Post, ValCountsSleepers
    <3>2. NextWaiter \in Listed(sleeplist) /\ NextWaiter \in Procs
      BY <3>1 DEF SemInv, TypeOK, NextWaiter, Listed
    <3>3. Len(sleeplist') = Len(sleeplist) - 1
      BY Zenon, <2>2, <3>2, DetachEntry DEF SemInv, TypeOK, SleeplistExact
    <3>4. NextWaiter \notin Posted /\ Posted' = Posted \cup {NextWaiter}
      BY <1>6, <2>2, <3>2 DEF Post, Up, Posted, SemInv, TypeOK, SleeplistExact
    <3>5. Cardinality(Posted') = Cardinality(Posted) + 1
      BY Zenon, <1>1, <3>4, FS_AddElement
    <3> QED
      BY <1>1, <1>6, <3>3, <3>5 DEF Post
  <2> QED
    BY Zenon, <1>6, <2>1, <2>2 DEF Post
<1>7. CASE PostAll
  <2>1. Posted' = Posted \cup Listed(sleeplist) /\ Posted \cap Listed(sleeplist) = {}
    BY <1>7 DEF PostAll, Posted, SemInv, TypeOK, SleeplistExact
  <2>2. /\ IsFiniteSet(Listed(sleeplist))
        /\ Cardinality(Listed(sleeplist)) = Len(sleeplist)
    BY Zenon, ListedCardinality DEF SemInv, TypeOK, SleeplistExact
  <2>3. Cardinality(Posted \cap Listed(sleeplist)) = 0
    BY Zenon, <2>1, FS_EmptySet
  <2>4. Cardinality(Posted \cup Listed(sleeplist)) =
          Cardinality(Posted) + Cardinality(Listed(sleeplist))
            - Cardinality(Posted \cap Listed(sleeplist))
    BY <1>1, <2>2, FS_Union, Zenon
  <2>5. Cardinality(Posted') = Cardinality(Posted) + Len(sleeplist)
    BY <1>1, <2>1, <2>2, <2>3, <2>4
  <2>6. Len(sleeplist) = -val /\ Len(sleeplist') = 0
    BY Zenon, <1>7 DEF PostAll, SemInv, ValCountsSleepers
  <2> QED
    BY <1>1, <1>7, <2>5, <2>6 DEF PostAll
<1>8. CASE GetSem \/ GetAll
  <2>1. Posted' = Posted
    BY Zenon, <1>8 DEF GetSem, GetAll, Posted
  <2> QED
    BY <1>1, <1>8, <2>1 DEF GetSem, GetAll
<1>9. CASE UNCHANGED vars
  BY Zenon, <1>9 DEF vars, Posted
<1> QED
  BY Zenon, <1>2, <1>3, <1>4, <1>5, <1>6, <1>7, <1>8, <1>9 DEF Next, Wait

\* Initially every unit is in val.
LEMMA UnitsInit == Init => UnitsConserved
<1> SUFFICES ASSUME Init PROVE UnitsConserved
  BY Zenon
<1>1. Posted = {} /\ Len(sleeplist) = 0
  BY Zenon DEF Init, Posted
<1> QED
  BY <1>1, FS_EmptySet, SemAssumption DEF Init, UnitsConserved

\* Units are neither lost nor invented.
THEOREM UnitsAreConserved == Spec => []UnitsConserved
<1>1. Init => UnitsConserved
  BY Zenon, UnitsInit
<1>2. SemInv /\ SemInv' /\ UnitsConserved /\ [Next]_vars => UnitsConserved'
  BY Zenon, UnitsStep
<1> QED
  BY <1>1, <1>2, SemInvariant, PTL DEF Spec

-----------------------------------------------------------------------------
(* The sleep lock.                                                         *)

\* Every step of the lock is a step of its semaphore.
LEMMA LockStepIsSemStep ==
  ASSUME [LockNext]_lockvars
  PROVE  [Next]_vars
BY DEF LockNext, lockvars, AcquireFree, AcquireWait, AcquireSleep,
   AcquireReturn, Release, LockKill, Next, Wait

\* The holders are some of the finitely many processes.
LEMMA HoldersFinite ==
  ASSUME LockInv
  PROVE  IsFiniteSet(holders) /\ Cardinality(holders) \in Nat
BY SemAssumption, FS_Subset, FS_CardinalityType DEF LockInv

\* A process that takes the lock owes one unit more, one that posts owes one
\* less, and a failed wait changes nothing.
LEMMA LockInvStep ==
  ASSUME LockInv, [LockNext]_lockvars
  PROVE  LockInv'
<1>1. SemInv' /\ UnitsConserved'
  BY LockStepIsSemStep, SemInvStep, UnitsStep DEF LockInv
<1>2. IsFiniteSet(holders) /\ Cardinality(holders) \in Nat
  BY HoldersFinite
<1> USE DEF LockInv
<1>3. ASSUME NEW p \in Procs, p \notin holders, holders' = holders \cup {p},
             balance' = balance - 1, pc'[p] = "idle",
             \A q \in Procs : q # p => pc'[q] = pc[q]
      PROVE  LockInv'
  <2>1. Cardinality(holders') = Cardinality(holders) + 1
    BY <1>2, <1>3, FS_AddElement
  <2>2. holders' \in SUBSET Procs /\ \A q \in holders' : pc'[q] = "idle"
    BY <1>3
  <2>3. balance' = -Cardinality(holders')
    BY <1>2, <1>3, <2>1
  <2> QED
    BY <1>1, <2>2, <2>3
<1>4. ASSUME UNCHANGED <<holders, balance>>,
             \A q \in holders : pc'[q] = pc[q]
      PROVE  LockInv'
  BY <1>1, <1>4
<1>5. ASSUME NEW p \in Procs, AcquireFree(p) PROVE LockInv'
  BY <1>3, <1>5 DEF AcquireFree, WaitTake, SemInv, TypeOK
<1>6. ASSUME NEW p \in Procs, AcquireWait(p) PROVE LockInv'
  BY <1>4, <1>6 DEF AcquireWait, WaitEnqueue, SemInv, TypeOK
<1>7. ASSUME NEW p \in Procs, AcquireSleep(p) PROVE LockInv'
  BY <1>4, <1>7 DEF AcquireSleep, Sleep, SemInv, TypeOK
<1>8. ASSUME NEW p \in Procs, AcquireReturn(p) PROVE LockInv'
  <2>1. p \notin holders
    BY <1>8 DEF AcquireReturn, WaitReturn
  <2>2. CASE up[p]
    BY <1>3, <1>8, <2>1, <2>2 DEF AcquireReturn, WaitReturn, SemInv, TypeOK
  <2>3. CASE ~up[p]
    BY <1>4, <1>8, <2>1, <2>3 DEF AcquireReturn, WaitReturn, SemInv, TypeOK
  <2> QED
    BY <2>2, <2>3
<1>9. ASSUME NEW p \in Procs, Release(p) PROVE LockInv'
  <2>1. Cardinality(holders') = Cardinality(holders) - 1
    BY <1>2, <1>9, FS_RemoveElement DEF Release
  <2>2. holders' \in SUBSET Procs /\ \A q \in holders' : pc'[q] = "idle"
    BY <1>9 DEF Release, Post
  <2>3. balance' = -Cardinality(holders')
    BY <1>2, <1>9, <2>1 DEF Release, Post
  <2> QED
    BY <1>1, <2>2, <2>3
<1>10. ASSUME NEW p \in Procs, LockKill(p) PROVE LockInv'
  BY <1>4, <1>10 DEF LockKill, Kill, KillMark, KillAlert
<1>11. CASE UNCHANGED lockvars
  BY <1>4, <1>11 DEF lockvars, vars
<1> QED
  BY <1>5, <1>6, <1>7, <1>8, <1>9, <1>10, <1>11 DEF LockNext

\* Nobody holds a new lock.
LEMMA LockInvInit == LockInit => LockInv
<1> SUFFICES ASSUME LockInit PROVE LockInv
  OBVIOUS
<1>1. SemInv /\ UnitsConserved
  BY SemInvInit, UnitsInit DEF LockInit
<1> QED
  BY <1>1, FS_EmptySet DEF LockInit, LockInv, Init

\* The inductive invariant of a sleep lock.
THEOREM LockInvariant == LockSpec => []LockInv
<1>1. LockInit => LockInv
  BY LockInvInit
<1>2. LockInv /\ [LockNext]_lockvars => LockInv'
  BY LockInvStep
<1> QED
  BY <1>1, <1>2, PTL DEF LockSpec

\* One unit in all leaves room for one holder.
LEMMA LockInvExcludes ==
  ASSUME LockInv
  PROVE  MutualExclusion /\ LockNotLost
<1>1. IsFiniteSet(holders) /\ Cardinality(holders) \in Nat
  BY HoldersFinite
<1>2. /\ 1 - Cardinality(holders) = val + Len(sleeplist) + Cardinality(Posted)
      /\ val + Len(sleeplist) >= 0
      /\ val \in Int /\ Len(sleeplist) \in Nat /\ Cardinality(Posted) \in Nat
  BY PostedFinite, SleepLockAssumption, <1>1
  DEF LockInv, UnitsConserved, SemInv, TypeOK, ValCountsSleepers
<1>3. Cardinality(holders) <= 1
  BY <1>1, <1>2
<1>4. MutualExclusion
  <2> SUFFICES ASSUME NEW p \in holders, NEW q \in holders, p # q PROVE FALSE
    BY DEF MutualExclusion
  <2>1. /\ IsFiniteSet(holders \ {p})
        /\ Cardinality(holders \ {p}) = Cardinality(holders) - 1
    BY <1>1, FS_RemoveElement
  <2>2. Cardinality(holders \ {p}) = 0
    BY <1>1, <1>3, <2>1, FS_CardinalityType
  <2> QED
    BY <2>1, <2>2, FS_EmptySet
<1>5. LockNotLost
  <2> SUFFICES ASSUME holders = {}, Posted = {} PROVE val = 1
    BY DEF LockNotLost
  <2>1. Cardinality(holders) = 0 /\ Cardinality(Posted) = 0
    BY FS_EmptySet
  <2> QED
    BY <1>2, <2>1 DEF LockInv, SemInv, ValCountsSleepers
<1> QED
  BY <1>4, <1>5

\* Mutual exclusion of sleep locks (acquire_sleeplock), whoever is killed while
\* it waits.
THEOREM SleepLockExcludes == LockSpec => []MutualExclusion
<1>1. LockInv => MutualExclusion
  BY LockInvExcludes
<1> QED
  BY <1>1, LockInvariant, PTL

\* No waiter that is killed takes the lock with it: a lock that nobody holds and
\* that is not handed over is free.
THEOREM SleepLockIsKept == LockSpec => []LockNotLost
<1>1. LockInv => LockNotLost
  BY LockInvExcludes
<1> QED
  BY <1>1, LockInvariant, PTL

=============================================================================
