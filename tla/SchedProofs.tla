---------------------------- MODULE SchedProofs ----------------------------
(* What the scheduler keeps true, for every tree of groups, number of        *)
(* processors and processes.                                                 *)
EXTENDS Sched, DataLemmas

\* The groups that not_empty_container finds not to be empty, looking n deep.
Round(queues, X) ==
    {h \in Groups : \E i \in 1 .. Len(queues[h]) : queues[h][i] \in Tasks \cup X}

Nonempty(queues) ==
    CHOOSE f : f = [n \in Nat |->
        {h \in Groups : \E i \in 1 .. Len(queues[h]) :
            queues[h][i] \in Tasks \cup (IF n = 0 THEN {} ELSE f[n - 1])}]

\* The groups not_empty_container finds, one level of nesting deeper each time.
LEMMA NonemptyRounds ==
  ASSUME NEW queues
  PROVE  /\ Nonempty(queues) \in [Nat -> SUBSET Groups]
         /\ Nonempty(queues)[0] = Round(queues, {})
         /\ \A n \in Nat : Nonempty(queues)[n + 1] = Round(queues, Nonempty(queues)[n])
         /\ \A g : NotEmptyContainer(queues, g) <=> g \in Nonempty(queues)[Cardinality(Groups)]
<1>1. PICK a, step : /\ a = Round(queues, {})
                     /\ step = [nv \in Nat \X SUBSET Groups |-> Round(queues, nv[2])]
  BY Zenon
<1>2. a \in SUBSET Groups
  BY Zenon, <1>1 DEF Round
<1>3. \A n \in Nat : \A v \in SUBSET Groups : step[<<n, v>>] = Round(queues, v)
  BY Zenon, <1>1
<1>4. StepIn(Nat \ {0}, SUBSET Groups, step)
  BY <1>3 DEF StepIn, Round
<1>5. PICK f : ByStep(f, Nat, SUBSET Groups, a, step)
  BY Zenon, <1>2, <1>4, NatRecursion
<1>6. \A n \in Nat : f[n] = Round(queues, IF n = 0 THEN {} ELSE f[n - 1])
  <2> SUFFICES ASSUME NEW n \in Nat PROVE f[n] = Round(queues, IF n = 0 THEN {} ELSE f[n - 1])
    BY Zenon
  <2>1. CASE n = 0
    BY Zenon, <1>1, <1>5, <2>1 DEF ByStep
  <2>2. CASE n # 0
    <3>1. n - 1 \in Nat
      BY <2>2
    <3>2. f[n] = step[<<n, f[n - 1]>>] /\ f[n - 1] \in SUBSET Groups
      BY Zenon, <1>5, <2>2, <3>1 DEF ByStep
    <3> QED
      BY Zenon, <1>3, <2>2, <3>2
  <2> QED
    BY Zenon, <2>1, <2>2
<1>7. f = [n \in Nat |-> Round(queues, IF n = 0 THEN {} ELSE f[n - 1])]
  BY Zenon, <1>5, <1>6 DEF ByStep
<1>8. Nonempty(queues) = [n \in Nat |-> Round(queues, IF n = 0 THEN {} ELSE Nonempty(queues)[n - 1])]
  BY Zenon, <1>7 DEF Nonempty, Round
<1>9. PICK d : d = Nonempty(queues)
  BY Zenon
<1>10. \A n \in Nat : d[n] = Round(queues, IF n = 0 THEN {} ELSE d[n - 1])
  BY Zenon, <1>8, <1>9
<1>11. d \in [Nat -> SUBSET Groups]
  BY Zenon, <1>8, <1>9 DEF Round
<1>12. d[0] = Round(queues, {})
  BY Zenon, <1>10
<1>13. ASSUME NEW n \in Nat PROVE d[n + 1] = Round(queues, d[n])
  <2>1. n + 1 \in Nat /\ n + 1 # 0 /\ (n + 1) - 1 = n
    OBVIOUS
  <2> QED
    BY Zenon, <1>10, <2>1
<1>14. \A g : NotEmptyContainer(queues, g) <=> g \in Nonempty(queues)[Cardinality(Groups)]
  BY Zenon DEF NotEmptyContainer, Nonempty
<1> QED
  BY Zenon, <1>9, <1>11, <1>12, <1>13, <1>14

\* Looking one level deeper, not_empty_container finds no fewer groups.
LEMMA RoundGrows ==
  ASSUME NEW queues, NEW X, NEW Y, X \subseteq Y
  PROVE  Round(queues, X) \subseteq Round(queues, Y)
BY Zenon DEF Round

\* not_empty_container is true of a group exactly if its queue has a process or a
\* group of which it is true: the recursion reaches the bottom.
LEMMA NotEmptyFixpoint ==
  ASSUME NEW queues, NEW g \in Groups
  PROVE  NotEmptyContainer(queues, g) <=>
           \E i \in 1 .. Len(queues[g]) :
             \/ queues[g][i] \in Tasks
             \/ queues[g][i] \in Groups /\ NotEmptyContainer(queues, queues[g][i])
<1>1. PICK A : A = Nonempty(queues)
  BY Zenon
<1>2. /\ A \in [Nat -> SUBSET Groups] /\ A[0] = Round(queues, {})
      /\ \A n \in Nat : A[n + 1] = Round(queues, A[n])
      /\ \A h : NotEmptyContainer(queues, h) <=> h \in A[Cardinality(Groups)]
  BY Zenon, <1>1, NonemptyRounds
<1>3. \A n \in Nat : A[n] \subseteq A[n + 1]
  <2> DEFINE T == {n \in Nat : A[n] \subseteq A[n + 1]}
  <2>1. 0 \in T
    <3>1. A[0 + 1] = Round(queues, A[0])
      BY Zenon, <1>2
    <3> QED
      BY <1>2, <3>1, RoundGrows
  <2>2. ASSUME NEW n \in Nat, n \in T PROVE n + 1 \in T
    <3>1. A[n + 1] = Round(queues, A[n]) /\ A[(n + 1) + 1] = Round(queues, A[n + 1])
      BY <1>2
    <3> QED
      BY <2>2, <3>1, RoundGrows
  <2>3. Nat \subseteq T
    <3> HIDE DEF T
    <3> QED
      BY Zenon, <2>1, <2>2, NatInductionSet
  <2> QED
    BY Zenon, <2>3
<1>4. \A n \in Nat : A[n] = A[n + 1] => A[n + 1] = A[n + 2]
  <2> SUFFICES ASSUME NEW n \in Nat, A[n] = A[n + 1] PROVE A[n + 1] = A[n + 2]
    BY Zenon
  <2>1. PICK m \in Nat : m = n + 1
    OBVIOUS
  <2>2. A[m + 1] = Round(queues, A[m]) /\ A[n + 1] = Round(queues, A[n]) /\ m + 1 = n + 2
    BY <1>2, <2>1
  <2> QED
    BY Zenon, <2>1, <2>2
<1>5. IsFiniteSet(Groups) /\ Cardinality(Groups) \in Nat
  BY Zenon, SchedAssumption, FS_CardinalityType
<1>6. A[Cardinality(Groups)] = A[Cardinality(Groups) + 1]
  BY Zenon, <1>2, <1>3, <1>4, <1>5, Saturation
<1>7. A[Cardinality(Groups)] = Round(queues, A[Cardinality(Groups)])
  BY Zenon, <1>2, <1>5, <1>6
<1>8. A[Cardinality(Groups)] \subseteq Groups
  BY Zenon, <1>2, <1>5
<1> QED
  BY <1>2, <1>7, <1>8 DEF Round

\* What traverse_queue may choose.
Eligible(queues, u) == u \in Groups => NotEmptyContainer(queues, u)

Scan(queues, occ, g) ==
    CHOOSE f : f = [n \in 0 .. Len(queues[g]) |->
        IF n = 0 THEN [min |-> -1, next |-> <<>>]
        ELSE IF queues[g][n] \in Groups /\ ~NotEmptyContainer(queues, queues[g][n]) THEN f[n - 1]
        ELSE IF f[n - 1].min = -1 \/ AsInt(occ[queues[g][n]]) < f[n - 1].min
             THEN [min |-> AsInt(occ[queues[g][n]]), next |-> <<queues[g][n]>>]
             ELSE f[n - 1]]

MaybeUnit == {<<>>} \cup {<<u>> : u \in Units}

\* The u64 to int conversion of traverse_queue, exact up to INT_MAX.
LEMMA AsIntType ==
  ASSUME NEW x \in Nat
  PROVE  AsInt(x) \in Int /\ (x <= IntMax => AsInt(x) = x)
<1>1. PICK k \in Nat : k = IntMax + 1
  BY SchedAssumption
<1>2. AsInt(x) = ((x + k) % (2 * k)) - k
  BY <1>1, SchedAssumption DEF AsInt
<1>3. k > 0 /\ 2 * k \in Nat /\ 2 * k > 0
  BY <1>1, SchedAssumption
<1>4. PICK m \in Nat : m = 2 * k
  BY Zenon, <1>3
<1>5. (x + k) % m \in 0 .. (m - 1)
  BY <1>3, <1>4
<1>6. x <= IntMax => (x + k) % m = x + k
  BY <1>1, <1>3, <1>4, SchedAssumption
<1>7. PICK y \in Int : y = (x + k) % m
  BY <1>5
<1>8. AsInt(x) = y - k
  BY Zenon, <1>2, <1>4, <1>7
<1> QED
  BY <1>6, <1>7, <1>8

ScanOf(queues, occ, g, q, L, s) ==
    /\ LeastOccupied(queues, occ, g) = s[L].next
    /\ s \in [0 .. L -> [min : Int, next : MaybeUnit]]
    /\ s[0] = [min |-> -1, next |-> <<>>]
    /\ \A n \in 1 .. L :
         s[n] = IF ~Eligible(queues, q[n]) THEN s[n - 1]
                ELSE IF s[n - 1].min = -1 \/ AsInt(occ[q[n]]) < s[n - 1].min
                THEN [min |-> AsInt(occ[q[n]]), next |-> <<q[n]>>] ELSE s[n - 1]

\* The variables of the loop of traverse_queue after each entry of the queue.
LEMMA ScanSteps ==
  ASSUME NEW queues, NEW g, NEW occ \in [Units -> Nat],
         NEW q \in Seq(Units), q = queues[g], NEW L \in Nat, L = Len(q),
         NEW s, s = Scan(queues, occ, g)
  PROVE  ScanOf(queues, occ, g, q, L, s)
<1>2. PICK V : V = [min : Int, next : MaybeUnit]
  BY Zenon
<1>3. PICK a : a = [min |-> -1, next |-> <<>>]
  BY Zenon
<1>4. a \in V
  BY <1>2, <1>3 DEF MaybeUnit
<1> DEFINE New(n, v) == IF q[n] \in Groups /\ ~NotEmptyContainer(queues, q[n]) THEN v
                        ELSE IF v.min = -1 \/ AsInt(occ[q[n]]) < v.min
                        THEN [min |-> AsInt(occ[q[n]]), next |-> <<q[n]>>] ELSE v
<1>5. PICK step : step = [nv \in (1 .. L) \X V |-> New(nv[1], nv[2])]
  BY Zenon
<1>6. \A n \in 1 .. L : \A v \in V : step[<<n, v>>] = New(n, v)
  BY Zenon, <1>5
<1>7. StepIn(1 .. L, V, step)
  <2>1. ASSUME NEW n \in 1 .. L, NEW v \in V PROVE New(n, v) \in V
    <3>1. q[n] \in Units
      OBVIOUS
    <3>2. AsInt(occ[q[n]]) \in Int /\ <<q[n]>> \in MaybeUnit
      BY Zenon, <3>1, AsIntType DEF MaybeUnit
    <3> QED
      BY Zenon, <1>2, <3>2
  <2> HIDE DEF New
  <2> QED
    BY Zenon, <1>6, <2>1 DEF StepIn
<1>8. PICK f : ByStep(f, 0 .. L, V, a, step)
  BY Zenon, <1>4, <1>7, IntervalRecursion
<1>9. \A n \in 0 .. L : f[n] = IF n = 0 THEN a ELSE New(n, f[n - 1])
  <2> SUFFICES ASSUME NEW n \in 0 .. L PROVE f[n] = IF n = 0 THEN a ELSE New(n, f[n - 1])
    BY Zenon
  <2>1. CASE n = 0
    BY Zenon, <1>8, <2>1 DEF ByStep
  <2>2. CASE n # 0
    <3>1. n \in 1 .. L /\ n - 1 \in 0 .. L
      BY <2>2
    <3>2. f[n] = step[<<n, f[n - 1]>>] /\ f[n - 1] \in V
      BY Zenon, <1>8, <2>2, <3>1 DEF ByStep
    <3>3. step[<<n, f[n - 1]>>] = New(n, f[n - 1])
      BY Zenon, <1>6, <3>1, <3>2
    <3> QED
      BY Zenon, <2>2, <3>2, <3>3
  <2> QED
    BY Zenon, <2>1, <2>2
<1>10. f = [n \in 0 .. L |-> IF n = 0 THEN a ELSE New(n, f[n - 1])]
  <2> HIDE DEF New
  <2> QED
    BY Zenon, <1>8, <1>9 DEF ByStep
<1>11. Scan(queues, occ, g) = CHOOSE h : h = [n \in 0 .. L |-> IF n = 0 THEN a ELSE New(n, h[n - 1])]
  BY <1>3 DEF Scan
<1>13. s = [n \in 0 .. L |-> IF n = 0 THEN a ELSE New(n, s[n - 1])]
  <2> HIDE DEF New
  <2> QED
    BY Zenon, <1>10, <1>11
<1>14. s[0] = a /\ \A n \in 1 .. L : s[n] = New(n, s[n - 1])
  <2> HIDE DEF New
  <2> QED
    BY <1>13
<1>15. s \in [0 .. L -> V]
  <2> DEFINE T == {n \in 0 .. L : s[n] \in V}
  <2>1. 0 \in T
    BY <1>4, <1>14
  <2>2. ASSUME NEW n \in 0 .. (L - 1), n \in T PROVE n + 1 \in T
    <3>1. n + 1 \in 1 .. L /\ n + 1 \in 0 .. L /\ (n + 1) - 1 = n
      OBVIOUS
    <3>2. s[n + 1] = New(n + 1, s[n]) /\ s[n] \in V
      <4> HIDE DEF New
      <4> QED
        BY Zenon, <1>14, <2>2, <3>1
    <3>3. New(n + 1, s[n]) \in V
      <4> HIDE DEF New
      <4> QED
        BY <1>6, <1>7, <3>1, <3>2 DEF StepIn
    <3> HIDE DEF New
    <3> QED
      BY Zenon, <3>1, <3>2, <3>3
  <2>3. 0 .. L \subseteq T
    <3> HIDE DEF T
    <3> QED
      BY Zenon, <2>1, <2>2, IntervalInduction
  <2>4. \A n \in 0 .. L : s[n] \in V
    BY Zenon, <2>3
  <2> HIDE DEF New
  <2> QED
    BY Zenon, <1>13, <2>4
<1>16. LeastOccupied(queues, occ, g) = Scan(queues, occ, g)[Len(queues[g])].next
  BY Zenon DEF LeastOccupied, Scan
<1>17. \A n \in 1 .. L : s[n] = IF ~Eligible(queues, q[n]) THEN s[n - 1]
                     ELSE IF s[n - 1].min = -1 \/ AsInt(occ[q[n]]) < s[n - 1].min
                     THEN [min |-> AsInt(occ[q[n]]), next |-> <<q[n]>>] ELSE s[n - 1]
  BY Zenon, <1>14 DEF Eligible
<1> QED
  BY Zenon, <1>2, <1>3, <1>14, <1>15, <1>16, <1>17 DEF ScanOf

Chosen(queues, occ, g, r) ==
    \/ r = <<>> /\ \A i \in 1 .. Len(queues[g]) : ~Eligible(queues, queues[g][i])
    \/ \E i \in 1 .. Len(queues[g]) :
         /\ r = <<queues[g][i]>> /\ Eligible(queues, queues[g][i])
         /\ (\A j \in 1 .. Len(queues[g]) : AsInt(occ[queues[g][j]]) # -1) =>
               \A j \in 1 .. Len(queues[g]) :
                   Eligible(queues, queues[g][j]) => AsInt(occ[queues[g][i]]) <= AsInt(occ[queues[g][j]])

\* The loop of traverse_queue over one queue chooses an eligible unit if there is
\* one, and the one whose charge is least as an int when none converts to -1.
LEMMA LeastOccupiedChooses ==
  ASSUME NEW queues, NEW g, NEW occ \in [Units -> Nat], queues[g] \in Seq(Units)
  PROVE  Chosen(queues, occ, g, LeastOccupied(queues, occ, g))
<1>1. PICK q \in Seq(Units), L \in Nat : q = queues[g] /\ L = Len(q)
  OBVIOUS
<1>2. PICK s : s = Scan(queues, occ, g)
  BY Zenon
<1>3. /\ LeastOccupied(queues, occ, g) = s[L].next
      /\ s \in [0 .. L -> [min : Int, next : MaybeUnit]]
      /\ s[0] = [min |-> -1, next |-> <<>>]
      /\ \A n \in 1 .. L :
              s[n] = IF ~Eligible(queues, q[n]) THEN s[n - 1]
                     ELSE IF s[n - 1].min = -1 \/ AsInt(occ[q[n]]) < s[n - 1].min
                     THEN [min |-> AsInt(occ[q[n]]), next |-> <<q[n]>>] ELSE s[n - 1]
  <2>1. ScanOf(queues, occ, g, q, L, s)
    BY Zenon, <1>1, <1>2, ScanSteps
  <2> QED
    BY Zenon, <2>1 DEF ScanOf
<1>4. PICK key : key = [i \in 1 .. L |-> AsInt(occ[q[i]])]
  BY Zenon
<1>5. \A i \in 1 .. L : /\ key[i] = AsInt(occ[q[i]]) /\ key[i] \in Int /\ q[i] \in Units
  BY <1>1, <1>4, AsIntType
<1> DEFINE Small == \A i \in 1 .. L : key[i] # -1
           None0(n) == /\ s[n].next = <<>> /\ s[n].min = -1
                       /\ \A i \in 1 .. n : ~Eligible(queues, q[i])
           Some(n) == \E i \in 1 .. n :
                        /\ s[n].next = <<q[i]>> /\ Eligible(queues, q[i]) /\ s[n].min = key[i]
                        /\ Small => \A j \in 1 .. n : Eligible(queues, q[j]) => key[i] <= key[j]
           T == {n \in 0 .. L : None0(n) \/ Some(n)}
<1>6. 0 \in T
  BY <1>3
<1>7. ASSUME NEW m \in 0 .. (L - 1), m \in T PROVE m + 1 \in T
  <2>1. PICK n \in 1 .. L : n = m + 1
    OBVIOUS
  <2>2. n - 1 = m /\ n \in 0 .. L /\ m \in 0 .. L /\ \A i \in 1 .. n : i = n \/ i \in 1 .. m
    BY <2>1
  <2>3. /\ s[n] = IF ~Eligible(queues, q[n]) THEN s[m]
                  ELSE IF s[m].min = -1 \/ key[n] < s[m].min
                  THEN [min |-> key[n], next |-> <<q[n]>>] ELSE s[m]
        /\ s[m].min \in Int
    BY Zenon, <1>3, <1>5, <2>2
  <2>4. \A i \in 1 .. m : i \in 1 .. n /\ i \in 1 .. L
    BY <2>2
  <2>5. CASE ~Eligible(queues, q[n])
    <3>1. s[n] = s[m]
      BY Zenon, <2>3, <2>5
    <3>2. CASE None0(m)
      BY Zenon, <2>1, <2>2, <2>5, <3>1, <3>2
    <3>3. CASE Some(m)
      <4>1. PICK i \in 1 .. m :
              /\ s[m].next = <<q[i]>> /\ Eligible(queues, q[i]) /\ s[m].min = key[i]
              /\ Small => \A j \in 1 .. m : Eligible(queues, q[j]) => key[i] <= key[j]
        BY Zenon, <3>3
      <4>2. Small => \A j \in 1 .. n : Eligible(queues, q[j]) => key[i] <= key[j]
        BY Zenon, <2>2, <2>5, <4>1
      <4>3. Some(n)
        BY Zenon, <2>4, <3>1, <4>1, <4>2
      <4> QED
        BY Zenon, <2>1, <2>2, <4>3
    <3> QED
      BY Zenon, <1>7, <3>2, <3>3
  <2>6. CASE Eligible(queues, q[n])
    <3>1. key[n] \in Int /\ n \in 1 .. n
      BY <1>5
    <3>2. CASE None0(m)
      <4>1. s[n] = [min |-> key[n], next |-> <<q[n]>>]
        BY Zenon, <2>3, <2>6, <3>2
      <4>2. ASSUME NEW j \in 1 .. n, Eligible(queues, q[j]) PROVE key[n] <= key[j]
        <5>1. ~(j \in 1 .. m)
          BY Zenon, <3>2, <4>2
        <5>2. j = n
          BY Zenon, <2>2, <5>1
        <5> QED
          BY <3>1, <5>2
      <4>3. s[n].next = <<q[n]>> /\ s[n].min = key[n]
        BY <4>1
      <4>4. Small => \A j \in 1 .. n : Eligible(queues, q[j]) => key[n] <= key[j]
        BY Zenon, <4>2
      <4>5. Some(n)
        BY Zenon, <2>6, <3>1, <4>3, <4>4
      <4> QED
        BY Zenon, <2>1, <2>2, <4>5
    <3>3. CASE Some(m)
      <4>1. PICK i \in 1 .. m :
              /\ s[m].next = <<q[i]>> /\ Eligible(queues, q[i]) /\ s[m].min = key[i]
              /\ Small => \A j \in 1 .. m : Eligible(queues, q[j]) => key[i] <= key[j]
        BY Zenon, <3>3
      <4>2. i \in 1 .. L /\ i \in 1 .. n /\ key[i] \in Int /\ \A j \in 1 .. m : key[j] \in Int
        BY Zenon, <1>5, <2>4
      <4>3. Small => key[i] # -1
        BY Zenon, <4>2
      <4>4. CASE s[m].min = -1 \/ key[n] < s[m].min
        <5>1. s[n] = [min |-> key[n], next |-> <<q[n]>>]
          BY Zenon, <2>3, <2>6, <4>4
        <5>2. Small => key[n] < key[i]
          BY Zenon, <4>1, <4>3, <4>4
        <5>3. Small => \A j \in 1 .. n : Eligible(queues, q[j]) => key[n] <= key[j]
          <6> SUFFICES ASSUME Small, NEW j \in 1 .. n, Eligible(queues, q[j]) PROVE key[n] <= key[j]
            BY Zenon
          <6>1. CASE j = n
            BY <3>1, <6>1
          <6>2. CASE j \in 1 .. m
            <7>1. key[n] < key[i] /\ key[i] <= key[j]
              BY Zenon, <4>1, <5>2, <6>2
            <7> QED
              BY <3>1, <4>2, <6>2, <7>1
          <6> QED
            BY Zenon, <2>2, <6>1, <6>2
        <5>4. Some(n)
          BY <2>6, <3>1, <5>1, <5>3
        <5> QED
          BY Zenon, <2>1, <2>2, <5>4
      <4>5. CASE ~(s[m].min = -1 \/ key[n] < s[m].min)
        <5>1. s[n] = s[m] /\ key[i] <= key[n]
          BY <2>3, <2>6, <3>1, <4>1, <4>2, <4>5
        <5>2. Small => \A j \in 1 .. n : Eligible(queues, q[j]) => key[i] <= key[j]
          BY Zenon, <2>2, <4>1, <5>1
        <5>3. Some(n)
          BY Zenon, <4>1, <4>2, <5>1, <5>2
        <5> QED
          BY Zenon, <2>1, <2>2, <5>3
      <4> QED
        BY Zenon, <4>4, <4>5
    <3> QED
      BY Zenon, <1>7, <3>2, <3>3
  <2> QED
    BY Zenon, <2>5, <2>6
<1>8. 0 .. L \subseteq T
  <2> HIDE DEF T
  <2> QED
    BY Zenon, <1>6, <1>7, IntervalInduction
<1>9. None0(L) \/ Some(L)
  <2>1. L \in 0 .. L
    OBVIOUS
  <2>2. L \in T
    <3> HIDE DEF T
    <3> QED
      BY Zenon, <1>8, <2>1
  <2> QED
    BY Zenon, <2>2
<1>10. CASE None0(L)
  BY Zenon, <1>1, <1>3, <1>10 DEF Chosen
<1>11. CASE Some(L)
  <2>1. PICK i \in 1 .. L :
              /\ s[L].next = <<q[i]>> /\ Eligible(queues, q[i]) /\ s[L].min = key[i]
              /\ Small => \A j \in 1 .. L : Eligible(queues, q[j]) => key[i] <= key[j]
    BY Zenon, <1>11
  <2>2. (\A j \in 1 .. L : AsInt(occ[q[j]]) # -1) =>
           \A j \in 1 .. L : Eligible(queues, q[j]) => AsInt(occ[q[i]]) <= AsInt(occ[q[j]])
    BY Zenon, <1>5, <2>1
  <2> QED
    BY Zenon, <1>1, <1>3, <2>1, <2>2 DEF Chosen
<1> QED
  BY Zenon, <1>9, <1>10, <1>11

-----------------------------------------------------------------------------
(* The groups above a unit.                                                  *)

Parents(X) == {GroupOf[h] : h \in X \ {RootGroup}}
Up(u) == CHOOSE f : f = [n \in Nat |-> IF n = 0 THEN {GroupOf[u]} ELSE f[n - 1] \cup Parents(f[n - 1])]

\* The parents update_this_state goes to are groups.
LEMMA ParentsType ==
  ASSUME NEW X \in SUBSET Groups
  PROVE  Parents(X) \in SUBSET Groups
BY Zenon, SchedAssumption DEF Parents

\* The sets that the loop of update_this_state runs through.
LEMMA UpRounds ==
  ASSUME NEW u \in Units
  PROVE  /\ Up(u) \in [Nat -> SUBSET Groups]
         /\ Up(u)[0] = {GroupOf[u]}
         /\ \A n \in Nat : Up(u)[n + 1] = Up(u)[n] \cup Parents(Up(u)[n])
         /\ GroupsAbove(u) = Up(u)[Cardinality(Groups)]
<1>1. PICK a, step : /\ a = {GroupOf[u]}
                     /\ step = [nv \in Nat \X SUBSET Groups |-> nv[2] \cup Parents(nv[2])]
  BY Zenon
<1>2. a \in SUBSET Groups
  BY Zenon, <1>1, SchedAssumption DEF Units
<1>3. \A n \in Nat : \A v \in SUBSET Groups : step[<<n, v>>] = v \cup Parents(v)
  BY Zenon, <1>1
<1>4. StepIn(Nat \ {0}, SUBSET Groups, step)
  BY <1>3, ParentsType DEF StepIn
<1>5. PICK f : ByStep(f, Nat, SUBSET Groups, a, step)
  BY Zenon, <1>2, <1>4, NatRecursion
<1>6. \A n \in Nat : f[n] = IF n = 0 THEN a ELSE f[n - 1] \cup Parents(f[n - 1])
  <2> SUFFICES ASSUME NEW n \in Nat, n # 0 PROVE f[n] = f[n - 1] \cup Parents(f[n - 1])
    BY Zenon, <1>5 DEF ByStep
  <2>1. n - 1 \in Nat
    OBVIOUS
  <2>2. f[n] = step[<<n, f[n - 1]>>] /\ f[n - 1] \in SUBSET Groups
    BY Zenon, <1>5, <2>1 DEF ByStep
  <2> QED
    BY Zenon, <1>3, <2>2
<1>7. f = [n \in Nat |-> IF n = 0 THEN a ELSE f[n - 1] \cup Parents(f[n - 1])]
  BY Zenon, <1>5, <1>6 DEF ByStep
<1>8. PICK d : d = Up(u)
  BY Zenon
<1>9. d = [n \in Nat |-> IF n = 0 THEN a ELSE d[n - 1] \cup Parents(d[n - 1])]
  <2>1. d = CHOOSE h : h = [n \in Nat |-> IF n = 0 THEN a ELSE h[n - 1] \cup Parents(h[n - 1])]
    BY Zenon, <1>1, <1>8 DEF Up
  <2> QED
    BY Zenon, <1>7, <2>1
<1>10. d[0] = a
  BY Zenon, <1>9
<1>11. ASSUME NEW n \in Nat PROVE d[n + 1] = d[n] \cup Parents(d[n])
  <2>1. n + 1 \in Nat /\ n + 1 # 0 /\ (n + 1) - 1 = n
    OBVIOUS
  <2> QED
    BY Zenon, <1>9, <2>1
<1>12. d \in [Nat -> SUBSET Groups]
  <2> DEFINE T == {n \in Nat : d[n] \in SUBSET Groups}
  <2>1. 0 \in T
    BY Zenon, <1>2, <1>10
  <2>2. ASSUME NEW n \in Nat, n \in T PROVE n + 1 \in T
    BY <1>11, <2>2, ParentsType
  <2>3. Nat \subseteq T
    <3> HIDE DEF T
    <3> QED
      BY Zenon, <2>1, <2>2, NatInductionSet
  <2> QED
    BY Zenon, <1>9, <2>3
<1>13. GroupsAbove(u) = Up(u)[Cardinality(Groups)]
  BY Zenon DEF GroupsAbove, Up, Parents
<1> QED
  BY Zenon, <1>1, <1>8, <1>10, <1>11, <1>12, <1>13

\* update_this_state charges the unit's own group and, with a group, its parent,
\* up to the root, and no other group.
LEMMA GroupsAboveClosed ==
  ASSUME NEW u \in Units
  PROVE  /\ GroupsAbove(u) \in SUBSET Groups /\ GroupOf[u] \in GroupsAbove(u)
         /\ \A h \in GroupsAbove(u) \ {RootGroup} : GroupOf[h] \in GroupsAbove(u)
         /\ \A X \in SUBSET Groups :
              GroupOf[u] \in X /\ (\A h \in X \ {RootGroup} : GroupOf[h] \in X) => GroupsAbove(u) \subseteq X
<1>1. PICK A : A = Up(u)
  BY Zenon
<1>2. /\ A \in [Nat -> SUBSET Groups] /\ A[0] = {GroupOf[u]}
      /\ \A n \in Nat : A[n + 1] = A[n] \cup Parents(A[n])
      /\ GroupsAbove(u) = A[Cardinality(Groups)]
  BY Zenon, <1>1, UpRounds
<1>3. IsFiniteSet(Groups) /\ Cardinality(Groups) \in Nat
  BY Zenon, SchedAssumption, FS_CardinalityType
<1>4. \A n \in Nat : A[n] \subseteq A[n + 1]
  BY Zenon, <1>2
<1>5. \A n \in Nat : A[n] = A[n + 1] => A[n + 1] = A[n + 2]
  <2> SUFFICES ASSUME NEW n \in Nat, A[n] = A[n + 1] PROVE A[n + 1] = A[n + 2]
    BY Zenon
  <2>1. PICK m \in Nat : m = n + 1
    OBVIOUS
  <2>2. A[m + 1] = A[m] \cup Parents(A[m]) /\ A[n + 1] = A[n] \cup Parents(A[n]) /\ m + 1 = n + 2
    BY <1>2, <2>1
  <2> QED
    BY Zenon, <2>1, <2>2
<1>6. A[Cardinality(Groups)] = A[Cardinality(Groups) + 1]
  BY Zenon, <1>2, <1>3, <1>4, <1>5, Saturation
<1>7. \A n \in Nat : GroupOf[u] \in A[n]
  <2> DEFINE T == {n \in Nat : GroupOf[u] \in A[n]}
  <2>1. 0 \in T
    BY Zenon, <1>2
  <2>2. ASSUME NEW n \in Nat, n \in T PROVE n + 1 \in T
    BY <1>4, <2>2
  <2>3. Nat \subseteq T
    <3> HIDE DEF T
    <3> QED
      BY Zenon, <2>1, <2>2, NatInductionSet
  <2> QED
    BY Zenon, <2>3
<1>8. ASSUME NEW X \in SUBSET Groups, GroupOf[u] \in X, \A h \in X \ {RootGroup} : GroupOf[h] \in X
      PROVE  \A n \in Nat : A[n] \subseteq X
  <2> DEFINE T == {n \in Nat : A[n] \subseteq X}
  <2>1. 0 \in T
    BY Zenon, <1>2, <1>8
  <2>2. ASSUME NEW n \in Nat, n \in T PROVE n + 1 \in T
    <3>1. Parents(A[n]) \subseteq X
      BY Zenon, <1>8, <2>2 DEF Parents
    <3> QED
      BY <1>2, <2>2, <3>1
  <2>3. Nat \subseteq T
    <3> HIDE DEF T
    <3> QED
      BY Zenon, <2>1, <2>2, NatInductionSet
  <2> QED
    BY Zenon, <2>3
<1>9. Parents(A[Cardinality(Groups)]) \subseteq A[Cardinality(Groups)]
  BY Zenon, <1>2, <1>3, <1>6
<1> QED
  BY <1>2, <1>3, <1>7, <1>8, <1>9 DEF Parents

\* The groups above a unit are its own group and those above that one.
LEMMA GroupsAboveStep ==
  ASSUME NEW u \in Units
  PROVE  GroupsAbove(u) \subseteq
           {GroupOf[u]} \cup (IF GroupOf[u] = RootGroup THEN {} ELSE GroupsAbove(GroupOf[u]))
<1>1. PICK g \in Groups : g = GroupOf[u]
  BY Zenon, SchedAssumption DEF Units
<1>2. PICK X : X = {g} \cup (IF g = RootGroup THEN {} ELSE GroupsAbove(g))
  BY Zenon
<1>3. CASE g = RootGroup
  <2>1. X \in SUBSET Groups /\ \A h \in X \ {RootGroup} : GroupOf[h] \in X
    BY Zenon, <1>2, <1>3
  <2> QED
    BY <1>1, <1>2, <2>1, GroupsAboveClosed
<1>4. CASE g # RootGroup
  <2>1. g \in Units
    BY Zenon, <1>4 DEF Units
  <2>2. X \in SUBSET Groups /\ \A h \in X \ {RootGroup} : GroupOf[h] \in X
    BY Zenon, <1>2, <1>4, <2>1, GroupsAboveClosed
  <2> QED
    BY <1>1, <1>2, <2>2, GroupsAboveClosed
<1> QED
  BY Zenon, <1>3, <1>4

-----------------------------------------------------------------------------
(* traverse_queue.                                                           *)

Descend(queues, occ, u) ==
    IF u # <<>> /\ u[1] \in Groups THEN LeastOccupied(queues, occ, u[1]) ELSE u
Down(queues, occ) ==
    CHOOSE f : f = [n \in Nat |-> Descend(queues, occ, IF n = 0 THEN <<RootGroup>> ELSE f[n - 1])]

\* A unit is queued in its own group.
QueuesOK(queues) ==
    /\ queues \in [Groups -> Seq(Units)]
    /\ \A g \in Groups : \A i \in 1 .. Len(queues[g]) : GroupOf[queues[g][i]] = g

\* From the root or a unit, traverse_queue goes on to a unit or to NULL.
LEMMA DescendType ==
  ASSUME NEW queues, QueuesOK(queues), NEW occ \in [Units -> Nat],
         NEW u \in MaybeUnit \cup {<<RootGroup>>}
  PROVE  Descend(queues, occ, u) \in MaybeUnit
<1>1. CASE u # <<>> /\ u[1] \in Groups
  <2>1. PICK g \in Groups : g = u[1]
    BY Zenon, <1>1
  <2>2. queues[g] \in Seq(Units)
    BY Zenon DEF QueuesOK
  <2>3. Chosen(queues, occ, g, LeastOccupied(queues, occ, g))
    BY Zenon, <2>2, LeastOccupiedChooses
  <2>4. LeastOccupied(queues, occ, g) \in MaybeUnit
    BY <2>2, <2>3 DEF Chosen, MaybeUnit
  <2> QED
    BY Zenon, <1>1, <2>1, <2>4 DEF Descend
<1>2. CASE ~(u # <<>> /\ u[1] \in Groups)
  <2>1. <<RootGroup>> # <<>> /\ <<RootGroup>>[1] = RootGroup
    BY Zenon
  <2> QED
    BY Zenon, <1>2, <2>1, SchedAssumption DEF Descend
<1> QED
  BY Zenon, <1>1, <1>2

\* The units that traverse_queue goes through, one group deeper each time.
LEMMA DownRounds ==
  ASSUME NEW queues, QueuesOK(queues), NEW occ \in [Units -> Nat]
  PROVE  /\ Down(queues, occ) \in [Nat -> MaybeUnit]
         /\ Down(queues, occ)[0] = LeastOccupied(queues, occ, RootGroup)
         /\ \A n \in Nat : Down(queues, occ)[n + 1] = Descend(queues, occ, Down(queues, occ)[n])
         /\ TraverseQueue(queues, occ) = Down(queues, occ)[Cardinality(Groups)]
<1>1. PICK a, step : /\ a = Descend(queues, occ, <<RootGroup>>)
                     /\ step = [nv \in Nat \X MaybeUnit |-> Descend(queues, occ, nv[2])]
  BY Zenon
<1>2. a \in MaybeUnit
  BY Zenon, <1>1, DescendType
<1>3. \A n \in Nat : \A v \in MaybeUnit : step[<<n, v>>] = Descend(queues, occ, v)
  BY Zenon, <1>1
<1>4. StepIn(Nat \ {0}, MaybeUnit, step)
  <2>1. \A v \in MaybeUnit : Descend(queues, occ, v) \in MaybeUnit
    BY Zenon, DescendType
  <2> QED
    BY Zenon, <1>3, <2>1 DEF StepIn
<1>5. PICK f : ByStep(f, Nat, MaybeUnit, a, step)
  BY Zenon, <1>2, <1>4, NatRecursion
<1>6. \A n \in Nat : f[n] = Descend(queues, occ, IF n = 0 THEN <<RootGroup>> ELSE f[n - 1])
  <2> SUFFICES ASSUME NEW n \in Nat
               PROVE  f[n] = Descend(queues, occ, IF n = 0 THEN <<RootGroup>> ELSE f[n - 1])
    BY Zenon
  <2>1. CASE n = 0
    BY Zenon, <1>1, <1>5, <2>1 DEF ByStep
  <2>2. CASE n # 0
    <3>1. n - 1 \in Nat
      BY <2>2
    <3>2. f[n] = step[<<n, f[n - 1]>>] /\ f[n - 1] \in MaybeUnit
      BY Zenon, <1>5, <2>2, <3>1 DEF ByStep
    <3> QED
      BY Zenon, <1>3, <2>2, <3>2
  <2> QED
    BY Zenon, <2>1, <2>2
<1>7. f = [n \in Nat |-> Descend(queues, occ, IF n = 0 THEN <<RootGroup>> ELSE f[n - 1])]
  BY Zenon, <1>5, <1>6 DEF ByStep
<1>8. PICK d : d = Down(queues, occ)
  BY Zenon
<1>9. d = [n \in Nat |-> Descend(queues, occ, IF n = 0 THEN <<RootGroup>> ELSE d[n - 1])]
  BY Zenon, <1>7, <1>8 DEF Down
<1>10. d[0] = a
  BY Zenon, <1>1, <1>9
<1>11. ASSUME NEW n \in Nat PROVE d[n + 1] = Descend(queues, occ, d[n])
  <2>1. n + 1 \in Nat /\ n + 1 # 0 /\ (n + 1) - 1 = n
    OBVIOUS
  <2> QED
    BY Zenon, <1>9, <2>1
<1>12. d \in [Nat -> MaybeUnit]
  <2> DEFINE T == {n \in Nat : d[n] \in MaybeUnit}
  <2>1. 0 \in T
    BY Zenon, <1>2, <1>10
  <2>2. ASSUME NEW n \in Nat, n \in T PROVE n + 1 \in T
    BY <1>11, <2>2, DescendType
  <2>3. Nat \subseteq T
    <3> HIDE DEF T
    <3> QED
      BY Zenon, <2>1, <2>2, NatInductionSet
  <2> QED
    BY Zenon, <1>9, <2>3
<1>13. a = LeastOccupied(queues, occ, RootGroup)
  BY Zenon, <1>1, SchedAssumption DEF Descend
<1>14. TraverseQueue(queues, occ) = Down(queues, occ)[Cardinality(Groups)]
  BY Zenon DEF TraverseQueue, Down, Descend
<1> QED
  BY Zenon, <1>8, <1>10, <1>11, <1>12, <1>13, <1>14

\* Whatever traverse_queue comes by was chosen from the queue of its group, and
\* so were the groups above it.
OnPath(queues, occ, u) ==
    /\ u \in Units /\ <<u>> = LeastOccupied(queues, occ, GroupOf[u])
    /\ u \in Listed(queues[GroupOf[u]]) /\ Eligible(queues, u)
    /\ \A h \in GroupsAbove(u) \ {RootGroup} : <<h>> = LeastOccupied(queues, occ, GroupOf[h])

\* What the loop of traverse_queue chooses is queued there and eligible.
LEMMA LeastOccupiedFound ==
  ASSUME NEW queues, QueuesOK(queues), NEW occ \in [Units -> Nat], NEW g \in Groups,
         LeastOccupied(queues, occ, g) # <<>>
  PROVE  \E u \in Units : /\ LeastOccupied(queues, occ, g) = <<u>> /\ GroupOf[u] = g
                          /\ u \in Listed(queues[g]) /\ Eligible(queues, u)
<1>1. queues[g] \in Seq(Units)
  BY Zenon DEF QueuesOK
<1>2. Chosen(queues, occ, g, LeastOccupied(queues, occ, g))
  BY Zenon, <1>1, LeastOccupiedChooses
<1>3. PICK i \in 1 .. Len(queues[g]) : /\ LeastOccupied(queues, occ, g) = <<queues[g][i]>>
                                       /\ Eligible(queues, queues[g][i])
  BY Zenon, <1>2 DEF Chosen
<1> QED
  BY <1>1, <1>3 DEF QueuesOK, Listed

\* Going down from a group on the path of least charged units stays on it.
LEMMA PathStep ==
  ASSUME NEW queues, QueuesOK(queues), NEW occ \in [Units -> Nat], NEW g \in Groups,
         g = RootGroup \/ OnPath(queues, occ, g), LeastOccupied(queues, occ, g) # <<>>
  PROVE  \E u \in Units : /\ LeastOccupied(queues, occ, g) = <<u>> /\ GroupOf[u] = g
                          /\ OnPath(queues, occ, u)
<1>1. PICK u \in Units : /\ LeastOccupied(queues, occ, g) = <<u>> /\ GroupOf[u] = g
                         /\ u \in Listed(queues[g]) /\ Eligible(queues, u)
  BY Zenon, LeastOccupiedFound
<1>2. ASSUME NEW h \in GroupsAbove(u) \ {RootGroup} PROVE <<h>> = LeastOccupied(queues, occ, GroupOf[h])
  <2>1. g # RootGroup /\ (h = g \/ h \in GroupsAbove(g))
    BY Zenon, <1>1, GroupsAboveStep
  <2> QED
    BY Zenon, <2>1 DEF OnPath
<1> QED
  BY Zenon, <1>1, <1>2 DEF OnPath

\* traverse_queue returns NULL or a process that is queued in its group.
LEMMA TraverseFinds ==
  ASSUME NEW queues, QueuesOK(queues), NEW occ \in [Units -> Nat]
  PROVE  \/ TraverseQueue(queues, occ) = <<>>
         \/ \E p \in Tasks : TraverseQueue(queues, occ) = <<p>> /\ OnPath(queues, occ, p)
<1>1. PICK d, c : d = Down(queues, occ) /\ c = Cardinality(Groups)
  BY Zenon
<1>2. c \in Nat /\ IsFiniteSet(Groups)
  BY Zenon, <1>1, SchedAssumption, FS_CardinalityType
<1>3. /\ d \in [Nat -> MaybeUnit] /\ d[0] = LeastOccupied(queues, occ, RootGroup)
      /\ \A n \in Nat : d[n + 1] = Descend(queues, occ, d[n])
      /\ TraverseQueue(queues, occ) = d[c]
  BY Zenon, <1>1, DownRounds
<1> DEFINE Good(n) == d[n] = <<>> \/ \E u \in Units : d[n] = <<u>> /\ OnPath(queues, occ, u)
           IsG(n) == d[n] # <<>> /\ d[n][1] \in Groups
<1>4. \A n \in Nat : Good(n)
  <2> DEFINE T == {n \in Nat : Good(n)}
  <2>1. Good(0)
    <3>1. RootGroup \in Groups
      BY Zenon, SchedAssumption
    <3>2. d[0] # <<>> => \E u \in Units : d[0] = <<u>> /\ OnPath(queues, occ, u)
      BY <1>3, <3>1, PathStep
    <3> QED
      BY Zenon, <3>2
  <2>2. ASSUME NEW n \in Nat, Good(n) PROVE Good(n + 1)
    <3>0. d[n + 1] = IF IsG(n) THEN LeastOccupied(queues, occ, d[n][1]) ELSE d[n]
      BY Zenon, <1>3 DEF Descend
    <3>1. CASE IsG(n)
      <4>1. PICK u \in Units : d[n] = <<u>> /\ OnPath(queues, occ, u)
        BY Zenon, <2>2, <3>1
      <4>2. u \in Groups /\ d[n + 1] = LeastOccupied(queues, occ, u)
        <5>1. d[n][1] = u
          BY <4>1
        <5> QED
          BY Zenon, <3>0, <3>1, <5>1
      <4>3. LeastOccupied(queues, occ, u) # <<>> =>
              \E w \in Units : LeastOccupied(queues, occ, u) = <<w>> /\ OnPath(queues, occ, w)
        BY Zenon, <4>1, <4>2, PathStep
      <4> QED
        BY Zenon, <4>2, <4>3
    <3>2. CASE ~IsG(n)
      <4>1. d[n + 1] = d[n]
        BY Zenon, <3>0, <3>2
      <4> QED
        BY Zenon, <2>2, <4>1
    <3> QED
      BY Zenon, <3>1, <3>2
  <2>3. Nat \subseteq T
    <3>1. 0 \in T /\ \A n \in Nat : n \in T => n + 1 \in T
      <4> HIDE DEF Good
      <4> QED
        BY <2>1, <2>2
    <3> HIDE DEF T
    <3> QED
      BY Zenon, <3>1, NatInductionSet
  <2> QED
    BY Zenon, <2>3
<1>5. ASSUME NEW n \in Nat, IsG(n + 1) PROVE IsG(n) /\ GroupOf[d[n + 1][1]] = d[n][1]
  <2>1. IsG(n)
    BY Zenon, <1>3, <1>5 DEF Descend
  <2>2. PICK g \in Groups : g = d[n][1]
    BY Zenon, <2>1
  <2>3. d[n + 1] = LeastOccupied(queues, occ, g)
    BY Zenon, <1>3, <2>1, <2>2 DEF Descend
  <2> QED
    BY <1>5, <2>1, <2>2, <2>3, LeastOccupiedFound
<1>6. IsG(0) => GroupOf[d[0][1]] = RootGroup
  BY <1>3, LeastOccupiedFound, SchedAssumption
<1>7. ASSUME NEW n \in Nat, IsG(n) PROVE d[n][1] \in Groups \ {RootGroup}
  <2>1. PICK u \in Units : d[n] = <<u>>
    BY Zenon, <1>4, <1>7
  <2> QED
    BY <1>7, <2>1, SchedAssumption DEF Units
<1>8. ~IsG(c)
  <2> SUFFICES ASSUME IsG(c) PROVE FALSE
    BY Zenon
  <2>1. \A k \in 0 .. c : IsG(c - k)
    <3> DEFINE T == {k \in 0 .. c : IsG(c - k)}
    <3>1. 0 \in T
      BY <1>2
    <3>2. ASSUME NEW k \in 0 .. (c - 1), k \in T PROVE k + 1 \in T
      <4>1. PICK m \in Nat : m = c - (k + 1)
        BY <1>2
      <4>2. m + 1 = c - k /\ k + 1 \in 0 .. c
        BY <1>2, <4>1
      <4>3. IsG(m + 1)
        BY Zenon, <3>2, <4>2
      <4>4. IsG(m)
        BY Zenon, <1>5, <4>3
      <4> QED
        BY Zenon, <4>1, <4>2, <4>4
    <3>3. 0 .. c \subseteq T
      <4> HIDE DEF T
      <4> QED
        BY Zenon, <1>2, <3>1, <3>2, IntervalInduction
    <3> QED
      BY Zenon, <3>3
  <2>2. \A k \in 0 .. c : IsG(k)
    <3> SUFFICES ASSUME NEW k \in 0 .. c PROVE IsG(k)
      BY Zenon
    <3>1. c - k \in 0 .. c /\ c - (c - k) = k
      BY <1>2
    <3> QED
      BY Zenon, <2>1, <3>1
  <2>3. PICK x : x = [k \in 0 .. c |-> d[k][1]]
    BY Zenon
  <2>4. \A k \in 0 .. c : x[k] = d[k][1] /\ x[k] \in Groups \ {RootGroup}
    BY <1>2, <1>7, <2>2, <2>3
  <2>5. x \in [0 .. c -> Groups]
    BY Zenon, <2>3, <2>4
  <2>6. ASSUME NEW k \in 0 .. c, k # 0 PROVE k - 1 \in 0 .. c /\ GroupOf[x[k]] = x[k - 1]
    <3>1. PICK m \in Nat : m = k - 1
      BY <1>2, <2>6
    <3>2. m + 1 = k /\ m \in 0 .. c
      BY <1>2, <3>1
    <3>3. GroupOf[d[m + 1][1]] = d[m][1]
      BY Zenon, <1>5, <2>2, <3>2
    <3> QED
      BY Zenon, <2>4, <3>1, <3>2, <3>3
  <2>7. x[0] \in Groups /\ GroupOf[x[0]] = RootGroup
    BY <1>2, <1>6, <2>2, <2>4
  <2> DEFINE T == {i \in 0 .. c : \A j \in 0 .. c : i < j => x[i] # x[j]}
  <2>8. 0 \in T
    <3> SUFFICES ASSUME NEW j \in 0 .. c, 0 < j PROVE x[0] # x[j]
      BY <1>2
    <3>1. GroupOf[x[j]] # RootGroup
      BY <2>4, <2>6
    <3> QED
      BY Zenon, <2>7, <3>1
  <2>9. ASSUME NEW i \in 0 .. (c - 1), i \in T PROVE i + 1 \in T
    <3>1. i + 1 \in 0 .. c /\ (i + 1) - 1 = i /\ i + 1 # 0
      BY <1>2
    <3> SUFFICES ASSUME NEW j \in 0 .. c, i + 1 < j, x[i + 1] = x[j] PROVE FALSE
      BY Zenon, <3>1
    <3>2. j # 0 /\ i < j - 1 /\ j - 1 \in 0 .. c
      BY <1>2
    <3>3. x[i] = x[j - 1]
      BY Zenon, <2>6, <3>1, <3>2
    <3> QED
      BY Zenon, <2>9, <3>2, <3>3
  <2>10. 0 .. c \subseteq T
    <3> HIDE DEF T
    <3> QED
      BY Zenon, <1>2, <2>8, <2>9, IntervalInduction
  <2>11. PICK i, j \in 0 .. c : i < j /\ x[i] = x[j]
    BY Zenon, <1>1, <1>2, <2>5, WalkRepeats
  <2> QED
    BY Zenon, <2>10, <2>11
<1>9. CASE d[c] # <<>>
  <2>1. PICK u \in Units : d[c] = <<u>> /\ OnPath(queues, occ, u)
    BY Zenon, <1>2, <1>4, <1>9
  <2>2. u \in Tasks
    BY <1>8, <1>9, <2>1 DEF Units
  <2> QED
    BY Zenon, <1>3, <2>1, <2>2
<1> QED
  BY Zenon, <1>3, <1>9

\* The process is queued under groups that are all queued themselves.
Hangs(queues, p) ==
    /\ p \in Listed(queues[GroupOf[p]])
    /\ \A g \in GroupsAbove(p) \ {RootGroup} : g \in Listed(queues[GroupOf[g]])

\* not_empty_container finds a queued process from every group above it.
LEMMA HangingFound ==
  ASSUME NEW queues, QueuesOK(queues), NEW p \in Tasks, Hangs(queues, p), NEW h \in GroupsAbove(p)
  PROVE  NotEmptyContainer(queues, h)
<1>1. p \in Units
  BY Zenon DEF Units
<1>2. /\ GroupsAbove(p) \in SUBSET Groups /\ GroupOf[p] \in GroupsAbove(p)
      /\ \A g \in GroupsAbove(p) \ {RootGroup} : GroupOf[g] \in GroupsAbove(p)
  BY Zenon, <1>1, GroupsAboveClosed
<1>3. PICK X : X = {g \in GroupsAbove(p) : NotEmptyContainer(queues, g)}
  BY Zenon
<1>4. GroupOf[p] \in X
  BY <1>2, <1>3, NotEmptyFixpoint DEF Hangs, Listed
<1>5. ASSUME NEW g \in X \ {RootGroup} PROVE GroupOf[g] \in X
  <2>1. g \in Groups /\ NotEmptyContainer(queues, g) /\ GroupOf[g] \in GroupsAbove(p)
    BY Zenon, <1>2, <1>3
  <2>2. g \in Listed(queues[GroupOf[g]])
    BY Zenon, <1>3 DEF Hangs
  <2>3. NotEmptyContainer(queues, GroupOf[g])
    BY <1>2, <2>1, <2>2, NotEmptyFixpoint DEF Listed
  <2> QED
    BY Zenon, <1>3, <2>1, <2>3
<1>6. GroupsAbove(p) \subseteq X
  BY <1>1, <1>2, <1>3, <1>4, <1>5, GroupsAboveClosed
<1> QED
  BY Zenon, <1>3, <1>6

\* A group that is not empty has something to choose.
LEMMA NotEmptyChooses ==
  ASSUME NEW queues, QueuesOK(queues), NEW occ \in [Units -> Nat], NEW g \in Groups,
         NotEmptyContainer(queues, g)
  PROVE  LeastOccupied(queues, occ, g) # <<>>
<1>1. queues[g] \in Seq(Units)
  BY Zenon DEF QueuesOK
<1>2. PICK i \in 1 .. Len(queues[g]) :
             \/ queues[g][i] \in Tasks
             \/ queues[g][i] \in Groups /\ NotEmptyContainer(queues, queues[g][i])
  BY Zenon, NotEmptyFixpoint
<1>3. Eligible(queues, queues[g][i])
  BY Zenon, <1>2, SchedAssumption DEF Eligible
<1>4. Chosen(queues, occ, g, LeastOccupied(queues, occ, g))
  BY Zenon, <1>1, LeastOccupiedChooses
<1>5. \E k \in 1 .. Len(queues[g]) : LeastOccupied(queues, occ, g) = <<queues[g][k]>>
  BY Zenon, <1>2, <1>3, <1>4 DEF Chosen
<1> QED
  BY <1>5

\* traverse_queue returns NULL only if no process hangs below the root: the test
\* for emptiness and the descent agree.
LEMMA TraverseNotNull ==
  ASSUME NEW queues, QueuesOK(queues), NEW occ \in [Units -> Nat],
         NEW p \in Tasks, Hangs(queues, p)
  PROVE  TraverseQueue(queues, occ) # <<>>
<1>1. PICK d : d = Down(queues, occ)
  BY Zenon
<1>2. Cardinality(Groups) \in Nat
  BY Zenon, SchedAssumption, FS_CardinalityType
<1>3. /\ d \in [Nat -> MaybeUnit] /\ d[0] = LeastOccupied(queues, occ, RootGroup)
      /\ \A n \in Nat : d[n + 1] = Descend(queues, occ, d[n])
      /\ TraverseQueue(queues, occ) = d[Cardinality(Groups)]
  BY Zenon, <1>1, DownRounds
<1>4. ASSUME NEW g \in Groups, NotEmptyContainer(queues, g)
      PROVE  LET r == LeastOccupied(queues, occ, g) IN
             r # <<>> /\ (r[1] \in Groups => NotEmptyContainer(queues, r[1]))
  <2>1. LeastOccupied(queues, occ, g) # <<>>
    BY Zenon, <1>4, NotEmptyChooses
  <2>2. PICK u \in Units : LeastOccupied(queues, occ, g) = <<u>> /\ Eligible(queues, u)
    BY Zenon, <2>1, LeastOccupiedFound
  <2> QED
    BY <2>1, <2>2 DEF Eligible
<1> DEFINE Live(n) == d[n] # <<>> /\ (d[n][1] \in Groups => NotEmptyContainer(queues, d[n][1]))
           T == {n \in Nat : Live(n)}
<1>5. Live(0)
  <2>1. RootGroup \in Groups /\ NotEmptyContainer(queues, RootGroup)
    BY Zenon, SchedAssumption, GroupTree, HangingFound DEF Units
  <2> QED
    BY Zenon, <1>3, <1>4, <2>1
<1>6. ASSUME NEW n \in Nat, Live(n) PROVE Live(n + 1)
  <2>1. CASE d[n][1] \in Groups
    <3>1. d[n + 1] = LeastOccupied(queues, occ, d[n][1])
      BY Zenon, <1>3, <1>6, <2>1 DEF Descend
    <3> QED
      BY Zenon, <1>4, <1>6, <2>1, <3>1
  <2>2. CASE d[n][1] \notin Groups
    <3>1. d[n + 1] = d[n]
      BY Zenon, <1>3, <2>2 DEF Descend
    <3> QED
      BY Zenon, <1>6, <3>1
  <2> QED
    BY Zenon, <2>1, <2>2
<1>7. 0 \in T /\ \A n \in Nat : n \in T => n + 1 \in T
  <2> HIDE DEF Live
  <2> QED
    BY <1>5, <1>6
<1>8. Nat \subseteq T
  <2> HIDE DEF T
  <2> QED
    BY Zenon, <1>7, NatInductionSet
<1> QED
  BY Zenon, <1>2, <1>3, <1>8

\* Of the units on the way to the process that traverse_queue returns, each is the
\* least charged one, as an int, of its queue that a process hangs below.
LEMMA TraverseLeast ==
  ASSUME NEW queues, QueuesOK(queues), NEW occ \in [Units -> Nat],
         NEW t \in Tasks, OnPath(queues, occ, t), NEW u \in {t} \cup (GroupsAbove(t) \ {RootGroup}),
         NEW p \in Tasks, Hangs(queues, p), NEW v \in {p} \cup (GroupsAbove(p) \ {RootGroup}),
         GroupOf[v] = GroupOf[u],
         \A w \in Listed(queues[GroupOf[u]]) : AsInt(occ[w]) # -1
  PROVE  AsInt(occ[u]) <= AsInt(occ[v])
<1>1. t \in Units /\ p \in Units
  BY Zenon DEF Units
<1>2. GroupsAbove(t) \in SUBSET Groups /\ GroupsAbove(p) \in SUBSET Groups
  BY Zenon, <1>1, GroupsAboveClosed
<1>3. u \in Units /\ v \in Units
  BY Zenon, <1>1, <1>2 DEF Units
<1>4. PICK g \in Groups : g = GroupOf[u]
  BY Zenon, <1>3, SchedAssumption DEF Units
<1>5. LeastOccupied(queues, occ, g) = <<u>>
  BY Zenon, <1>4 DEF OnPath
<1>6. v \in Listed(queues[g]) /\ Eligible(queues, v)
  BY Zenon, <1>4, HangingFound, SchedAssumption DEF Hangs, Eligible
<1>7. queues[g] \in Seq(Units)
  BY Zenon DEF QueuesOK
<1>8. Chosen(queues, occ, g, LeastOccupied(queues, occ, g))
  BY Zenon, <1>7, LeastOccupiedChooses
<1>9. PICK i \in 1 .. Len(queues[g]) :
         /\ LeastOccupied(queues, occ, g) = <<queues[g][i]>>
         /\ \A j \in 1 .. Len(queues[g]) :
                Eligible(queues, queues[g][j]) => AsInt(occ[queues[g][i]]) <= AsInt(occ[queues[g][j]])
  <2>1. PICK r : r = LeastOccupied(queues, occ, g)
    BY Zenon
  <2>2. r # <<>>
    BY <1>5, <2>1
  <2>3. Chosen(queues, occ, g, r)
    BY Zenon, <1>8, <2>1
  <2>4. \A j \in 1 .. Len(queues[g]) : AsInt(occ[queues[g][j]]) # -1
    BY Zenon, <1>4 DEF Listed
  <2> QED
    BY Zenon, <2>1, <2>2, <2>3, <2>4 DEF Chosen
<1>10. queues[g][i] = u
  BY <1>5, <1>9
<1> QED
  BY Zenon, <1>6, <1>9, <1>10 DEF Listed

-----------------------------------------------------------------------------
(* The time charged to the members of a group.                               *)

Partial(f, S) ==
    CHOOSE it : it = [s \in SUBSET S |->
        IF s = {} THEN 0 ELSE f[CHOOSE x \in s : TRUE] + it[s \ {CHOOSE x \in s : TRUE}]]

Summing(f, S, it) ==
    /\ it \in [SUBSET S -> Nat] /\ it[{}] = 0
    /\ \A s \in SUBSET S : s # {} =>
         it[s] = f[CHOOSE x \in s : TRUE] + it[s \ {CHOOSE x \in s : TRUE}]
    /\ Total(f, S) = it[S]

\* The sum over a finite set, one element taken out after the other.
LEMMA PartialSums ==
  ASSUME NEW S, IsFiniteSet(S), NEW f, \A x \in S : f[x] \in Nat
  PROVE  Summing(f, S, Partial(f, S))
<1>1. PICK pick, step : /\ pick = [s \in SUBSET S |-> CHOOSE x \in s : TRUE]
                        /\ step = [xv \in S \X Nat |-> f[xv[1]] + xv[2]]
  BY Zenon
<1>2. \A s \in SUBSET S : pick[s] = CHOOSE x \in s : TRUE
  BY Zenon, <1>1
<1>3. \A s \in SUBSET S : s # {} => pick[s] \in s
  <2> SUFFICES ASSUME NEW s \in SUBSET S, s # {} PROVE pick[s] \in s
    BY Zenon
  <2>1. \E x \in s : TRUE
    BY Zenon
  <2>2. (CHOOSE x \in s : TRUE) \in s
    BY Zenon, <2>1
  <2> QED
    BY Zenon, <1>2, <2>2
<1>4. \A x \in S : \A v \in Nat : step[<<x, v>>] = f[x] + v
  BY Zenon, <1>1
<1>5. PicksFrom(pick, S) /\ StepIn(S, Nat, step)
  BY <1>3, <1>4 DEF PicksFrom, StepIn
<1>6. PICK h : ByRemoval(h, S, Nat, 0, pick, step)
  BY Zenon, <1>5, SubsetRecursion
<1> DEFINE Def(g, s) == IF s = {} THEN 0 ELSE f[CHOOSE x \in s : TRUE] + g[s \ {CHOOSE x \in s : TRUE}]
<1>7. \A s \in SUBSET S : h[s] = Def(h, s)
  <2> SUFFICES ASSUME NEW s \in SUBSET S PROVE h[s] = Def(h, s)
    BY Zenon
  <2>1. CASE s = {}
    BY Zenon, <1>6, <2>1 DEF ByRemoval
  <2>2. CASE s # {}
    <3>1. PICK x : x = CHOOSE y \in s : TRUE
      BY Zenon
    <3>2. pick[s] = x /\ x \in s
      BY Zenon, <1>2, <1>3, <2>2, <3>1
    <3>3. h[s] = step[<<x, h[s \ {x}]>>] /\ h[s \ {x}] \in Nat
      BY Zenon, <1>6, <2>2, <3>2 DEF ByRemoval
    <3>4. h[s] = f[x] + h[s \ {x}]
      BY Zenon, <1>4, <3>2, <3>3
    <3> QED
      BY Zenon, <2>2, <3>1, <3>4
  <2> QED
    BY Zenon, <2>1, <2>2
<1>8. h = [s \in SUBSET S |-> Def(h, s)]
  <2> HIDE DEF Def
  <2> QED
    BY Zenon, <1>6, <1>7 DEF ByRemoval
<1>9. PICK it : it = Partial(f, S)
  BY Zenon
<1>10. it = CHOOSE g : g = [s \in SUBSET S |-> Def(g, s)]
  BY Zenon, <1>9 DEF Partial
<1>11. it = [s \in SUBSET S |-> Def(it, s)]
  <2> HIDE DEF Def
  <2> QED
    BY Zenon, <1>8, <1>10
<1>12. \A s \in SUBSET S : it[s] = Def(it, s)
  <2> HIDE DEF Def
  <2> QED
    BY Zenon, <1>11
<1>13. it[{}] = 0
  BY Zenon, <1>12
<1>14. \A s \in SUBSET S : s # {} => it[s] = f[CHOOSE x \in s : TRUE] + it[s \ {CHOOSE x \in s : TRUE}]
  BY Zenon, <1>12
<1>15. it \in [SUBSET S -> Nat]
  <2> DEFINE F == {s \in SUBSET S : it[s] \in Nat}
  <2>1. {} \in F
    BY <1>13
  <2>2. ASSUME NEW s \in SUBSET S, s # {}, \A x \in s : s \ {x} \in F PROVE s \in F
    <3>1. PICK x : x = CHOOSE y \in s : TRUE
      BY Zenon
    <3>2. x \in s
      BY Zenon, <1>2, <1>3, <2>2, <3>1
    <3>3. it[s] = f[x] + it[s \ {x}]
      BY Zenon, <1>14, <2>2, <3>1
    <3> QED
      BY <2>2, <3>2, <3>3
  <2>3. SUBSET S \subseteq F
    <3> HIDE DEF F
    <3> QED
      BY Zenon, <2>1, <2>2, SubsetInduction
  <2>4. \A s \in SUBSET S : it[s] \in Nat
    BY Zenon, <2>3
  <2> HIDE DEF Def
  <2> QED
    BY Zenon, <1>11, <2>4
<1>16. Total(f, S) = Partial(f, S)[S]
  BY Zenon DEF Total, MapThenSumSet, MapThenFoldSet, Partial
<1> QED
  BY Zenon, <1>9, <1>13, <1>14, <1>15, <1>16 DEF Summing

Charged(f, g, S, p, dt) ==
    \A x \in S : f[x] \in Nat /\ g[x] = IF x = p THEN f[x] + dt ELSE f[x]

\* Charging one process adds to the sum over a set exactly if it is in the set.
LEMMA TotalCharged ==
  ASSUME NEW S, IsFiniteSet(S), NEW f, NEW p, NEW dt \in Nat, NEW g, Charged(f, g, S, p, dt)
  PROVE  /\ Total(f, S) \in Nat
         /\ p \in S => Total(g, S) = Total(f, S) + dt
         /\ p \notin S => Total(g, S) = Total(f, S)
<1> USE DEF Charged
<1>1. \A x \in S : g[x] \in Nat
  OBVIOUS
<1>2. PICK a, b : a = Partial(f, S) /\ b = Partial(g, S)
  BY Zenon
<1>3. /\ a \in [SUBSET S -> Nat] /\ a[{}] = 0
      /\ \A s \in SUBSET S : s # {} => a[s] = f[CHOOSE x \in s : TRUE] + a[s \ {CHOOSE x \in s : TRUE}]
      /\ Total(f, S) = a[S]
  <2>1. Summing(f, S, a)
    BY Zenon, <1>2, PartialSums
  <2> QED
    BY Zenon, <2>1 DEF Summing
<1>4. /\ b \in [SUBSET S -> Nat] /\ b[{}] = 0
      /\ \A s \in SUBSET S : s # {} => b[s] = g[CHOOSE x \in s : TRUE] + b[s \ {CHOOSE x \in s : TRUE}]
      /\ Total(g, S) = b[S]
  <2>1. Summing(g, S, b)
    BY Zenon, <1>1, <1>2, PartialSums
  <2> QED
    BY Zenon, <2>1 DEF Summing
<1> DEFINE F == {s \in SUBSET S : b[s] = a[s] + (IF p \in s THEN dt ELSE 0)}
<1>5. {} \in F
  BY <1>3, <1>4
<1>6. ASSUME NEW s \in SUBSET S, s # {}, \A x \in s : s \ {x} \in F PROVE s \in F
  <2>1. PICK x : x = CHOOSE y \in s : TRUE
    BY Zenon
  <2>2. x \in s
    <3>1. \E y \in s : TRUE
      BY Zenon, <1>6
    <3> QED
      BY Zenon, <2>1, <3>1
  <2>3. a[s] = f[x] + a[s \ {x}] /\ b[s] = g[x] + b[s \ {x}]
    BY Zenon, <1>3, <1>4, <1>6, <2>1
  <2>4. b[s \ {x}] = a[s \ {x}] + (IF p \in s \ {x} THEN dt ELSE 0)
    BY Zenon, <1>6, <2>2
  <2>5. a[s \ {x}] \in Nat /\ f[x] \in Nat /\ g[x] = IF x = p THEN f[x] + dt ELSE f[x]
    BY Zenon, <1>3, <2>2
  <2>6. p \in s \ {x} <=> p \in s /\ p # x
    BY Zenon
  <2>7. b[s] = a[s] + (IF p \in s THEN dt ELSE 0)
    <3>1. CASE x = p
      BY <2>2, <2>3, <2>4, <2>5, <2>6, <3>1
    <3>2. CASE x # p
      BY <2>3, <2>4, <2>5, <2>6, <3>2
    <3> QED
      BY Zenon, <3>1, <3>2
  <2> QED
    BY Zenon, <2>7
<1>7. SUBSET S \subseteq F
  <2> HIDE DEF F
  <2> QED
    BY Zenon, <1>5, <1>6, SubsetInduction
<1>8. S \in F
  <2> HIDE DEF F
  <2> QED
    BY Zenon, <1>7
<1> QED
  BY <1>3, <1>4, <1>8

-----------------------------------------------------------------------------
(* The invariant.                                                            *)

\* A processor runs a process or its own idle process.
OwnIdle == \A c \in Cpus : thisproc[c] \in Tasks \cup {c}

SchedIndInv == SchedInv /\ OwnIdle

\* The queues as update_this_state leaves them.
LEMMA RequeueKeeps ==
  ASSUME SchedIndInv, NEW c \in Cpus, NEW new,
         NEW queues, queues = Requeue(thisproc[c], new)
  PROVE  /\ QueuesOK(queues)
         /\ \A g \in Groups : Distinct(queues[g])
         /\ \A p \in Tasks : p \in Listed(queues[GroupOf[p]]) <=>
              IF p = thisproc[c] THEN new = "RUNNABLE" ELSE st[p] = "RUNNABLE"
<1> DEFINE this == thisproc[c]
<1>1. SchedTypeOK /\ RunQueuesExact /\ OwnIdle
  BY Zenon DEF SchedIndInv, SchedInv
<1>2. /\ rq \in [Groups -> Seq(Units)]
      /\ \A g \in Groups : Distinct(rq[g]) /\ \A i \in 1 .. Len(rq[g]) : GroupOf[rq[g][i]] = g
  BY <1>1 DEF SchedTypeOK, RunQueuesExact, Listed
<1>3. \A p \in Tasks : (p \in Listed(rq[GroupOf[p]])) = (st[p] = "RUNNABLE")
  BY <1>1 DEF RunQueuesExact
<1>4. this \in Tasks => st[this] = "RUNNING" /\ this \notin Listed(rq[GroupOf[this]])
  BY Zenon, <1>1, <1>3 DEF RunQueuesExact
<1>5. CASE new = "RUNNABLE" /\ this \in Tasks
  <2>1. PICK g \in Groups : g = GroupOf[this]
    BY Zenon, <1>5, SchedAssumption
  <2>2. PICK l : l = <<this>> \o rq[g]
    BY Zenon
  <2>3. queues = [rq EXCEPT ![g] = l]
    BY Zenon, <1>5, <2>1, <2>2 DEF Requeue
  <2>4. l \in Seq(Units) /\ Listed(l) = Listed(rq[g]) \cup {this} /\ Distinct(l)
    <3>1. rq[g] \in Seq(Units) /\ Distinct(rq[g]) /\ this \in Units /\ this \notin Listed(rq[g])
      BY Zenon, <1>2, <1>4, <1>5, <2>1 DEF Units
    <3> QED
      BY <2>2, <3>1, PushEntry
  <2>5. queues \in [Groups -> Seq(Units)] /\ queues[g] = l /\ \A h \in Groups : h # g => queues[h] = rq[h]
    BY Zenon, <1>2, <2>3, <2>4
  <2>6. \A i \in 1 .. Len(l) : GroupOf[l[i]] = g
    <3>1. \A u \in Listed(rq[g]) : GroupOf[u] = g
      BY Zenon, <1>2 DEF Listed
    <3>2. \A u \in Listed(l) : GroupOf[u] = g
      BY Zenon, <2>1, <2>4, <3>1
    <3> QED
      BY Zenon, <3>2 DEF Listed
  <2>7. QueuesOK(queues)
    BY <1>2, <2>5, <2>6 DEF QueuesOK
  <2>8. \A h \in Groups : Distinct(queues[h])
    BY Zenon, <1>2, <2>4, <2>5
  <2>9. ASSUME NEW p \in Tasks
        PROVE  p \in Listed(queues[GroupOf[p]]) <=> IF p = this THEN new = "RUNNABLE" ELSE st[p] = "RUNNABLE"
    <3>1. GroupOf[p] \in Groups
      BY Zenon, SchedAssumption
    <3> QED
      BY Zenon, <1>3, <1>5, <2>1, <2>4, <2>5, <3>1
  <2> QED
    BY Zenon, <2>7, <2>8, <2>9
<1>6. CASE ~(new = "RUNNABLE" /\ this \in Tasks)
  <2>1. queues = rq
    BY Zenon, <1>6 DEF Requeue
  <2> QED
    BY Zenon, <1>2, <1>3, <1>4, <1>6, <2>1 DEF QueuesOK
<1> QED
  BY Zenon, <1>5, <1>6

\* What a process is charged, the groups above it are.
LEMMA ChargeKeeps ==
  ASSUME SchedIndInv, NEW p \in Tasks, NEW dt \in Slices, NEW occ, occ = Charge(p, dt),
         \A u \in Units : occ[u] <= MaxOccupy
  PROVE  /\ occ \in [Units -> 0 .. MaxOccupy]
         /\ \A g \in Groups \ {RootGroup} : occ[g] = Total(occ, {q \in Tasks : g \in GroupsAbove(q)})
<1>1. occupy \in [Units -> 0 .. MaxOccupy] /\ MaxOccupy \in Nat /\ dt \in Nat
  BY Zenon, SchedAssumption DEF SchedIndInv, SchedInv, SchedTypeOK
<1>2. occ = [u \in Units |-> IF u \in {p} \cup (GroupsAbove(p) \ {RootGroup}) THEN occupy[u] + dt ELSE occupy[u]]
  BY Zenon DEF Charge
<1>3. \A u \in Units : /\ occ[u] = IF u \in {p} \cup (GroupsAbove(p) \ {RootGroup})
                                   THEN occupy[u] + dt ELSE occupy[u]
                       /\ occupy[u] \in Nat
  BY <1>1, <1>2
<1>4. \A u \in Units : occ[u] \in 0 .. MaxOccupy
  BY <1>1, <1>3
<1>5. occ \in [Units -> 0 .. MaxOccupy]
  BY Zenon, <1>2, <1>4
<1>6. ASSUME NEW g \in Groups \ {RootGroup}
      PROVE  occ[g] = Total(occ, {q \in Tasks : g \in GroupsAbove(q)})
  <2>1. PICK S : S = {q \in Tasks : g \in GroupsAbove(q)}
    BY Zenon
  <2>2. occupy[g] = Total(occupy, S)
    BY Zenon, <2>1 DEF SchedIndInv, SchedInv, GroupPaysForMembers
  <2>3. IsFiniteSet(S)
    <3>1. S \in SUBSET Tasks
      BY Zenon, <2>1
    <3> QED
      BY Zenon, <3>1, SchedAssumption, FS_Subset
  <2>4. \A q \in S : q \in Units /\ q \in Tasks /\ q \notin Groups
    BY Zenon, <2>1, SchedAssumption DEF Units
  <2>5. \A q \in S : occupy[q] \in Nat /\ occ[q] = IF q = p THEN occupy[q] + dt ELSE occupy[q]
    <3>1. GroupsAbove(p) \in SUBSET Groups
      BY Zenon, GroupsAboveClosed DEF Units
    <3> QED
      BY Zenon, <1>3, <2>4, <3>1
  <2>6. PICK f : f = occupy
    BY Zenon
  <2>7. /\ p \in S => Total(occ, S) = Total(f, S) + dt
        /\ p \notin S => Total(occ, S) = Total(f, S)
    <3>1. Charged(f, occ, S, p, dt)
      BY Zenon, <2>5, <2>6 DEF Charged
    <3> QED
      BY <1>1, <2>3, <3>1, TotalCharged
  <2>8. g \in Units /\ g # p /\ (p \in S <=> g \in GroupsAbove(p))
    BY Zenon, <2>1, SchedAssumption DEF Units
  <2>9. occ[g] = IF p \in S THEN occupy[g] + dt ELSE occupy[g]
    BY Zenon, <1>3, <2>8
  <2> QED
    BY Zenon, <1>1, <2>1, <2>2, <2>6, <2>7, <2>8, <2>9
<1> QED
  BY Zenon, <1>5, <1>6

NewStates == {"RUNNABLE", "SLEEPING", "DEEPSLEEPING", "ZOMBIE"}

\* One call of simple_sched that switches.
Switches(c, new) ==
    \E dt \in Slices :
        LET this == thisproc[c]
            occ == IF this \in Tasks THEN Charge(this, dt) ELSE occupy IN
        /\ \A u \in Units : occ[u] <= MaxOccupy
        /\ SwitchTo(c, Requeue(this, new), occ, new)

\* What a switch does, with the queues and the times that pick_next sees.
SwitchedTo(c, new, queues, occ, next) ==
    /\ QueuesOK(queues) /\ \A g \in Groups : Distinct(queues[g])
    /\ \A p \in Tasks : p \in Listed(queues[GroupOf[p]]) <=>
         IF p = thisproc[c] THEN new = "RUNNABLE" ELSE st[p] = "RUNNABLE"
    /\ occ \in [Units -> 0 .. MaxOccupy]
    /\ \A g \in Groups \ {RootGroup} : occ[g] = Total(occ, {q \in Tasks : g \in GroupsAbove(q)})
    /\ \/ TraverseQueue(queues, occ) = <<>> /\ next = c /\ rq' = queues
       \/ /\ TraverseQueue(queues, occ) = <<next>> /\ next \in Tasks /\ OnPath(queues, occ, next)
          /\ rq' = [queues EXCEPT ![GroupOf[next]] = Detach(@, next)]
    /\ occupy' = occ
    /\ st' = [st EXCEPT ![thisproc[c]] = new, ![next] = "RUNNING"]
    /\ thisproc' = [thisproc EXCEPT ![c] = next]

\* What simple_sched does when it switches, update_this_state to update_this_proc.
LEMMA SwitchFacts ==
  ASSUME SchedIndInv, NEW c \in Cpus, NEW new \in NewStates, Switches(c, new)
  PROVE  \E queues, occ, next : SwitchedTo(c, new, queues, occ, next)
<1>1. PICK dt \in Slices :
        LET this == thisproc[c]
            occ == IF this \in Tasks THEN Charge(this, dt) ELSE occupy IN
        /\ \A u \in Units : occ[u] <= MaxOccupy
        /\ SwitchTo(c, Requeue(this, new), occ, new)
  BY Zenon DEF Switches
<1>2. PICK this : this = thisproc[c]
  BY Zenon
<1>3. PICK occ : occ = IF this \in Tasks THEN Charge(this, dt) ELSE occupy
  BY Zenon
<1>4. PICK queues : queues = Requeue(this, new)
  BY Zenon
<1>5. (\A u \in Units : occ[u] <= MaxOccupy) /\ SwitchTo(c, queues, occ, new)
  BY Zenon, <1>1, <1>2, <1>3, <1>4
<1>6. /\ QueuesOK(queues) /\ \A g \in Groups : Distinct(queues[g])
      /\ \A p \in Tasks : p \in Listed(queues[GroupOf[p]]) <=>
           IF p = thisproc[c] THEN new = "RUNNABLE" ELSE st[p] = "RUNNABLE"
  BY <1>2, <1>4, RequeueKeeps
<1>7. /\ occ \in [Units -> 0 .. MaxOccupy]
      /\ \A g \in Groups \ {RootGroup} : occ[g] = Total(occ, {q \in Tasks : g \in GroupsAbove(q)})
  <2>1. CASE this \in Tasks
    BY Zenon, <1>3, <1>5, <2>1, ChargeKeeps
  <2>2. CASE this \notin Tasks
    <3>1. occ = occupy
      BY Zenon, <1>3, <2>2
    <3>2. occupy \in [Units -> 0 .. MaxOccupy] /\ GroupPaysForMembers
      BY Zenon DEF SchedIndInv, SchedInv, SchedTypeOK
    <3>3. \A g \in Groups \ {RootGroup} : occupy[g] = Total(occupy, {q \in Tasks : g \in GroupsAbove(q)})
      BY Zenon, <3>2 DEF GroupPaysForMembers
    <3> QED
      BY Zenon, <3>1, <3>2, <3>3
  <2> QED
    BY Zenon, <2>1, <2>2
<1>8. PICK picked : picked = TraverseQueue(queues, occ)
  BY Zenon
<1>9. PICK next : next = IF picked = <<>> THEN c ELSE picked[1]
  BY Zenon
<1>10. /\ rq' = IF next = c THEN queues ELSE [queues EXCEPT ![GroupOf[next]] = Detach(@, next)]
       /\ occupy' = occ
       /\ st' = [st EXCEPT ![thisproc[c]] = new, ![next] = "RUNNING"]
       /\ thisproc' = [thisproc EXCEPT ![c] = next]
  BY Zenon, <1>5, <1>8, <1>9 DEF SwitchTo
<1>11. occ \in [Units -> Nat]
  <2>1. \A u \in Units : occ[u] \in Nat
    BY <1>7, SchedAssumption
  <2> QED
    BY Zenon, <1>7, <2>1
<1>12. picked = <<>> \/ \E p \in Tasks : picked = <<p>> /\ OnPath(queues, occ, p)
  BY Zenon, <1>6, <1>8, <1>11, TraverseFinds
<1>13. \/ TraverseQueue(queues, occ) = <<>> /\ next = c /\ rq' = queues
       \/ /\ TraverseQueue(queues, occ) = <<next>> /\ next \in Tasks /\ OnPath(queues, occ, next)
          /\ rq' = [queues EXCEPT ![GroupOf[next]] = Detach(@, next)]
  <2>1. CASE picked = <<>>
    BY Zenon, <1>8, <1>9, <1>10, <2>1
  <2>2. CASE picked # <<>>
    <3>1. PICK p \in Tasks : picked = <<p>> /\ OnPath(queues, occ, p)
      BY Zenon, <1>12, <2>2
    <3>2. next = p
      BY Zenon, <1>9, <2>2, <3>1
    <3>3. next # c
      BY Zenon, <3>2, SchedAssumption
    <3> QED
      BY Zenon, <1>8, <1>10, <3>1, <3>2, <3>3
  <2> QED
    BY Zenon, <2>1, <2>2
<1> QED
  BY Zenon, <1>6, <1>7, <1>10, <1>13 DEF SwitchedTo

\* A switch keeps the invariant, whichever process is switched out and whatever
\* pick_next chooses.
LEMMA SwitchKeeps ==
  ASSUME SchedIndInv, NEW c \in Cpus, NEW new \in NewStates, Switches(c, new),
         thisproc[c] \in Tasks \/ new = "RUNNABLE",
         armed' = [armed EXCEPT ![c] = TRUE], UNCHANGED skilled
  PROVE  SchedIndInv'
<1>1. PICK queues, occ, next : SwitchedTo(c, new, queues, occ, next)
  BY Zenon, SwitchFacts
<1>2. PICK this : this = thisproc[c]
  BY Zenon
<1>3. /\ SchedTypeOK /\ RunQueuesExact /\ IdleAlwaysPickable /\ PreemptionArmed /\ OwnIdle
  BY Zenon DEF SchedIndInv, SchedInv
<1>4. this \in Tasks \cup {c} /\ next \in Tasks \cup {c} /\ Tasks \cap Cpus = {}
  BY Zenon, <1>1, <1>2, <1>3, SchedAssumption DEF SwitchedTo, OwnIdle
<1>5. \A p \in Tasks : p \in Listed(queues[GroupOf[p]]) <=>
         IF p = this THEN new = "RUNNABLE" ELSE st[p] = "RUNNABLE"
  BY Zenon, <1>1, <1>2 DEF SwitchedTo
<1>6. /\ occupy' = occ /\ occ \in [Units -> 0 .. MaxOccupy]
      /\ st' = [st EXCEPT ![this] = new, ![next] = "RUNNING"]
      /\ thisproc' = [thisproc EXCEPT ![c] = next]
  BY Zenon, <1>1, <1>2 DEF SwitchedTo
<1>7. /\ next \in Tasks => next \in Listed(queues[GroupOf[next]])
      /\ queues \in [Groups -> Seq(Units)]
      /\ \A g \in Groups : Distinct(queues[g]) /\ \A u \in Listed(queues[g]) : GroupOf[u] = g
  <2>1. QueuesOK(queues) /\ \A g \in Groups : Distinct(queues[g])
    BY Zenon, <1>1 DEF SwitchedTo
  <2>2. /\ queues \in [Groups -> Seq(Units)]
        /\ \A g \in Groups : \A u \in Listed(queues[g]) : GroupOf[u] = g
    BY Zenon, <2>1 DEF QueuesOK, Listed
  <2>3. next \in Tasks => OnPath(queues, occ, next)
    BY Zenon, <1>1, <1>4 DEF SwitchedTo
  <2>4. next \in Tasks => next \in Listed(queues[GroupOf[next]])
    BY Zenon, <2>3 DEF OnPath
  <2> QED
    BY Zenon, <2>1, <2>2, <2>4
<1>8. /\ rq' \in [Groups -> Seq(Units)]
      /\ \A g \in Groups : Distinct(rq'[g]) /\ \A u \in Listed(rq'[g]) : GroupOf[u] = g
      /\ \A p \in Tasks : p \in Listed(rq'[GroupOf[p]]) <=> p # next /\ p \in Listed(queues[GroupOf[p]])
  <2>1. CASE next = c
    <3>1. rq' = queues
      BY Zenon, <1>1, <1>4, <2>1 DEF SwitchedTo
    <3> QED
      BY <1>4, <1>7, <2>1, <3>1
  <2>2. CASE next # c
    <3>1. next \in Tasks /\ rq' = [queues EXCEPT ![GroupOf[next]] = Detach(@, next)]
      BY Zenon, <1>1, <2>2 DEF SwitchedTo
    <3>2. PICK g \in Groups : g = GroupOf[next]
      BY Zenon, <3>1, SchedAssumption
    <3>3. PICK l : l = Detach(queues[g], next)
      BY Zenon
    <3>4. l \in Seq(Units) /\ Distinct(l) /\ Listed(l) = Listed(queues[g]) \ {next}
      <4>1. queues[g] \in Seq(Units) /\ Distinct(queues[g]) /\ next \in Listed(queues[g])
        BY Zenon, <1>7, <3>1, <3>2
      <4> QED
        BY Zenon, <3>3, <4>1, DetachEntry
    <3>5. rq' = [queues EXCEPT ![g] = l]
      BY Zenon, <3>1, <3>2, <3>3
    <3>6. rq' \in [Groups -> Seq(Units)] /\ rq'[g] = l /\ \A h \in Groups : h # g => rq'[h] = queues[h]
      BY Zenon, <1>7, <3>4, <3>5
    <3>7. \A h \in Groups : Distinct(rq'[h]) /\ \A u \in Listed(rq'[h]) : GroupOf[u] = h
      BY Zenon, <1>7, <3>4, <3>6
    <3>8. ASSUME NEW p \in Tasks
          PROVE  p \in Listed(rq'[GroupOf[p]]) <=> p # next /\ p \in Listed(queues[GroupOf[p]])
      <4>1. GroupOf[p] \in Groups
        BY Zenon, SchedAssumption
      <4> QED
        BY Zenon, <3>2, <3>4, <3>6, <4>1
    <3> QED
      BY Zenon, <3>6, <3>7, <3>8
  <2> QED
    BY Zenon, <2>1, <2>2
<1>9. /\ st \in [Tasks \cup Cpus -> SchedStates] /\ thisproc \in [Cpus -> Tasks \cup Cpus]
      /\ armed \in [Cpus -> BOOLEAN] /\ skilled \in [Tasks -> BOOLEAN]
  BY Zenon, <1>3 DEF SchedTypeOK
<1>10. this \in Tasks \cup Cpus /\ next \in Tasks \cup Cpus
  BY Zenon, <1>4
<1>11. \A p \in Tasks \cup Cpus : st'[p] = IF p = next THEN "RUNNING" ELSE IF p = this THEN new ELSE st[p]
  BY Zenon, <1>6, <1>9, <1>10
<1>12. \A d \in Cpus : thisproc'[d] = IF d = c THEN next ELSE thisproc[d]
  BY Zenon, <1>6, <1>9
<1>13. SchedTypeOK'
  <2>1. st' \in [Tasks \cup Cpus -> SchedStates]
    BY Zenon, <1>6, <1>9, <1>10 DEF NewStates, SchedStates
  <2>2. thisproc' \in [Cpus -> Tasks \cup Cpus]
    BY Zenon, <1>6, <1>9, <1>10
  <2>3. armed' \in [Cpus -> BOOLEAN] /\ skilled' \in [Tasks -> BOOLEAN]
    BY Zenon, <1>9
  <2> QED
    BY Zenon, <1>6, <1>8, <2>1, <2>2, <2>3 DEF SchedTypeOK
<1>14. \A d \in Cpus : d # c => thisproc[d] # next
  <2> SUFFICES ASSUME NEW d \in Cpus, d # c, thisproc[d] = next PROVE FALSE
    BY Zenon
  <2>1. CASE next = c
    BY Zenon, <1>3, <1>4, <2>1 DEF OwnIdle
  <2>2. CASE next \in Tasks
    <3>1. st[next] = "RUNNING"
      BY Zenon, <1>3, <2>2 DEF RunQueuesExact
    <3>2. next = this
      BY Zenon, <1>5, <1>7, <2>2, <3>1
    <3> QED
      BY <1>2, <1>3, <3>2 DEF RunQueuesExact
  <2> QED
    BY Zenon, <1>4, <2>1, <2>2
<1>15. RunQueuesExact'
  <2>1. ASSUME NEW p \in Tasks PROVE st'[p] = "RUNNABLE" <=> p \in Listed(rq'[GroupOf[p]])
    BY Zenon, <1>5, <1>8, <1>11
  <2>2. ASSUME NEW p \in Tasks PROVE st'[p] = "RUNNING" <=> \E d \in Cpus : thisproc'[d] = p
    <3>1. CASE p = next
      BY Zenon, <1>11, <1>12, <3>1
    <3>2. CASE p # next /\ p = this
      <4>1. st'[p] = new /\ new # "RUNNING"
        BY Zenon, <1>11, <3>2 DEF NewStates
      <4>2. \A d \in Cpus : thisproc'[d] # p
        BY <1>2, <1>3, <1>12, <3>2 DEF RunQueuesExact
      <4> QED
        BY Zenon, <4>1, <4>2
    <3>3. CASE p # next /\ p # this
      <4>1. st'[p] = st[p]
        BY Zenon, <1>11, <3>3
      <4>2. \A d \in Cpus : thisproc'[d] = p <=> thisproc[d] = p
        BY Zenon, <1>2, <1>12, <3>3
      <4> QED
        BY <1>3, <4>1, <4>2 DEF RunQueuesExact
    <3> QED
      BY Zenon, <3>1, <3>2, <3>3
  <2>3. \A d, e \in Cpus : thisproc'[d] = thisproc'[e] => d = e
    BY <1>3, <1>12, <1>14 DEF RunQueuesExact
  <2> QED
    BY Zenon, <1>8, <2>1, <2>2, <2>3 DEF RunQueuesExact
<1>16. IdleAlwaysPickable'
  <2> SUFFICES ASSUME NEW d \in Cpus PROVE st'[d] = IF thisproc'[d] = d THEN "RUNNING" ELSE "RUNNABLE"
    BY Zenon DEF IdleAlwaysPickable
  <2>1. CASE d = c
    BY Zenon, <1>2, <1>3, <1>4, <1>11, <1>12, <2>1 DEF IdleAlwaysPickable
  <2>2. CASE d # c
    BY Zenon, <1>3, <1>4, <1>11, <1>12, <2>2 DEF IdleAlwaysPickable
  <2> QED
    BY Zenon, <2>1, <2>2
<1>17. PreemptionArmed'
  BY Zenon, <1>3, <1>9, <1>12 DEF PreemptionArmed
<1>18. GroupPaysForMembers'
  BY Zenon, <1>1, <1>6 DEF SwitchedTo, GroupPaysForMembers
<1>19. OwnIdle'
  BY Zenon, <1>3, <1>4, <1>12 DEF OwnIdle
<1> QED
  BY Zenon, <1>13, <1>15, <1>16, <1>17, <1>18, <1>19 DEF SchedIndInv, SchedInv

\* The step of a call of simple_sched that switches.
SwitchStep(c, new) ==
    /\ new \in NewStates /\ Switches(c, new)
    /\ thisproc[c] \in Tasks \/ new = "RUNNABLE"
    /\ armed' = [armed EXCEPT ![c] = TRUE] /\ UNCHANGED skilled

\* simple_sched switches, or the process it would switch out is killed.
LEMMA SimpleSchedSteps ==
  ASSUME NEW c \in Cpus, NEW new \in NewStates, SimpleSched(c, new), UNCHANGED skilled,
         thisproc[c] \in Tasks \/ new = "RUNNABLE"
  PROVE  SwitchStep(c, new) \/ UNCHANGED schedvars
<1>1. CASE thisproc[c] \in Tasks /\ skilled[thisproc[c]] /\ new # "ZOMBIE"
  BY Zenon, <1>1 DEF SimpleSched, schedvars
<1>2. CASE ~(thisproc[c] \in Tasks /\ skilled[thisproc[c]] /\ new # "ZOMBIE")
  BY Zenon, <1>2 DEF SimpleSched, Switches, SwitchStep
<1> QED
  BY Zenon, <1>1, <1>2

\* What the scheduler can do in one step: only a switch changes who runs.
LEMMA SchedSteps ==
  ASSUME [SchedNext]_schedvars
  PROVE  \/ UNCHANGED schedvars
         \/ \E c \in Cpus : \E new \in NewStates : SwitchStep(c, new)
         \/ \E c \in Cpus : /\ thisproc[c] \in Tasks /\ skilled[thisproc[c]]
                            /\ armed' = [armed EXCEPT ![c] = FALSE]
                            /\ UNCHANGED <<st, rq, occupy, thisproc, skilled>>
         \/ \E p \in Tasks : Activate(p) \/ Alert(p)
         \/ \E g \in Groups : ActivateGroup(g)
<1>1. CASE UNCHANGED schedvars
  BY Zenon, <1>1
<1>2. ASSUME NEW c \in Cpus, Yield(c) PROVE SwitchStep(c, "RUNNABLE") \/ UNCHANGED schedvars
  BY Zenon, <1>2, SimpleSchedSteps DEF Yield, NewStates
<1>3. ASSUME NEW c \in Cpus, GoToSleep(c)
      PROVE  (\E new \in NewStates : SwitchStep(c, new)) \/ UNCHANGED schedvars
  <2>1. PICK deep \in {"SLEEPING", "DEEPSLEEPING"} : SimpleSched(c, deep)
    BY Zenon, <1>3 DEF GoToSleep
  <2>2. deep \in NewStates
    BY Zenon DEF NewStates
  <2> QED
    BY Zenon, <1>3, <2>1, <2>2, SimpleSchedSteps DEF GoToSleep
<1>4. ASSUME NEW c \in Cpus, Exit(c) PROVE SwitchStep(c, "ZOMBIE") \/ UNCHANGED schedvars
  BY Zenon, <1>4, SimpleSchedSteps DEF Exit, NewStates
<1>5. ASSUME NEW c \in Cpus, Tick(c)
      PROVE  \/ SwitchStep(c, "RUNNABLE") \/ UNCHANGED schedvars
             \/ /\ thisproc[c] \in Tasks /\ skilled[thisproc[c]]
                /\ armed' = [armed EXCEPT ![c] = FALSE]
                /\ UNCHANGED <<st, rq, occupy, thisproc, skilled>>
  <2>1. CASE thisproc[c] \in Tasks /\ skilled[thisproc[c]]
    BY Zenon, <1>5, <2>1 DEF Tick
  <2>2. CASE ~(thisproc[c] \in Tasks /\ skilled[thisproc[c]])
    <3>1. SimpleSched(c, "RUNNABLE") /\ UNCHANGED skilled
      BY Zenon, <1>5, <2>2 DEF Tick
    <3> QED
      BY Zenon, <3>1, SimpleSchedSteps DEF NewStates
  <2> QED
    BY Zenon, <2>1, <2>2
<1>6. "RUNNABLE" \in NewStates /\ "ZOMBIE" \in NewStates
  BY Zenon DEF NewStates
<1> QED
  BY Zenon, <1>1, <1>2, <1>3, <1>4, <1>5, <1>6 DEF SchedNext

\* Each process starts UNUSED and unqueued, and nothing has been charged.
LEMMA SchedIndInit == SchedInit => SchedIndInv
<1> SUFFICES ASSUME SchedInit PROVE SchedIndInv
  BY Zenon
<1>1. SchedTypeOK
  <2>1. st \in [Tasks \cup Cpus -> SchedStates]
    BY Zenon DEF SchedInit, SchedStates
  <2>2. rq \in [Groups -> Seq(Units)]
    BY DEF SchedInit
  <2>3. occupy \in [Units -> 0 .. MaxOccupy]
    BY SchedAssumption DEF SchedInit
  <2>4. thisproc \in [Cpus -> Tasks \cup Cpus] /\ skilled \in [Tasks -> BOOLEAN] /\ armed \in [Cpus -> BOOLEAN]
    BY Zenon DEF SchedInit
  <2> QED
    BY Zenon, <2>1, <2>2, <2>3, <2>4 DEF SchedTypeOK
<1>2. RunQueuesExact
  <2>1. \A g \in Groups : Listed(rq[g]) = {} /\ Distinct(rq[g])
    BY DEF SchedInit, Listed, Distinct
  <2>2. \A p \in Tasks : st[p] = "UNUSED" /\ p \notin Cpus /\ GroupOf[p] \in Groups
    BY Zenon, SchedAssumption DEF SchedInit
  <2>3. \A c \in Cpus : thisproc[c] = c
    BY Zenon DEF SchedInit
  <2> QED
    BY Zenon, <2>1, <2>2, <2>3 DEF RunQueuesExact
<1>3. IdleAlwaysPickable /\ OwnIdle
  BY Zenon DEF SchedInit, IdleAlwaysPickable, OwnIdle
<1>4. PreemptionArmed
  BY Zenon DEF SchedInit, PreemptionArmed
<1>5. GroupPaysForMembers
  <2>1. PICK f : f = occupy
    BY Zenon
  <2>2. ASSUME NEW g \in Groups \ {RootGroup}
        PROVE  f[g] = Total(f, {q \in Tasks : g \in GroupsAbove(q)})
    <3>1. PICK S : S = {q \in Tasks : g \in GroupsAbove(q)}
      BY Zenon
    <3>2. S \in SUBSET Tasks /\ IsFiniteSet(S)
      BY Zenon, <3>1, SchedAssumption, FS_Subset
    <3>3. f[g] = 0 /\ \A x \in S : f[x] = 0
      BY Zenon, <2>1, <3>2 DEF SchedInit, Units
    <3>4. PICK a : a = Partial(f, S)
      BY Zenon
    <3>5. Summing(f, S, a)
      <4>1. \A x \in S : f[x] \in Nat
        BY <3>3
      <4> QED
        BY Zenon, <3>2, <3>4, <4>1, PartialSums
    <3> DEFINE F == {s \in SUBSET S : a[s] = 0}
    <3>6. {} \in F
      BY Zenon, <3>5 DEF Summing
    <3>7. ASSUME NEW s \in SUBSET S, s # {}, \A x \in s : s \ {x} \in F PROVE s \in F
      <4>1. PICK x : x = CHOOSE y \in s : TRUE
        BY Zenon
      <4>2. x \in s
        <5>1. \E y \in s : TRUE
          BY Zenon, <3>7
        <5> QED
          BY Zenon, <4>1, <5>1
      <4>3. a[s] = f[x] + a[s \ {x}]
        BY Zenon, <3>5, <3>7, <4>1 DEF Summing
      <4> QED
        BY <3>3, <3>7, <4>2, <4>3
    <3>8. SUBSET S \subseteq F
      <4> HIDE DEF F
      <4> QED
        BY Zenon, <3>2, <3>6, <3>7, SubsetInduction
    <3>9. Total(f, S) = 0
      BY Zenon, <3>5, <3>8 DEF Summing
    <3> QED
      BY Zenon, <3>1, <3>3, <3>9
  <2>3. \A g \in Groups \ {RootGroup} : occupy[g] = Total(occupy, {q \in Tasks : g \in GroupsAbove(q)})
    BY Zenon, <2>1, <2>2
  <2> QED
    BY Zenon, <2>3 DEF GroupPaysForMembers
<1> QED
  BY Zenon, <1>1, <1>2, <1>3, <1>4, <1>5 DEF SchedIndInv, SchedInv

\* A step that charges nobody leaves the groups' accounts right.
LEMMA NobodyCharged == GroupPaysForMembers /\ UNCHANGED occupy => GroupPaysForMembers'
  BY Zenon DEF GroupPaysForMembers

\* Queueing a unit in its own group leaves every queue in order.
LEMMA PushKeeps ==
  ASSUME SchedIndInv, NEW u \in Units, u \notin Listed(rq[GroupOf[u]]),
         rq' = [rq EXCEPT ![GroupOf[u]] = <<u>> \o @]
  PROVE  /\ rq' \in [Groups -> Seq(Units)]
         /\ \A g \in Groups : Distinct(rq'[g]) /\ \A v \in Listed(rq'[g]) : GroupOf[v] = g
         /\ \A v \in Units : v \in Listed(rq'[GroupOf[v]]) <=> v = u \/ v \in Listed(rq[GroupOf[v]])
<1>1. PICK g \in Groups : g = GroupOf[u]
  BY Zenon, SchedAssumption DEF Units
<1>2. PICK l : l = <<u>> \o rq[g]
  BY Zenon
<1>3. /\ rq \in [Groups -> Seq(Units)]
      /\ \A h \in Groups : Distinct(rq[h]) /\ \A v \in Listed(rq[h]) : GroupOf[v] = h
  BY Zenon DEF SchedIndInv, SchedInv, SchedTypeOK, RunQueuesExact
<1>4. l \in Seq(Units) /\ Listed(l) = Listed(rq[g]) \cup {u} /\ Distinct(l)
  <2>1. rq[g] \in Seq(Units) /\ Distinct(rq[g]) /\ u \notin Listed(rq[g])
    BY Zenon, <1>1, <1>3
  <2> QED
    BY <1>2, <2>1, PushEntry
<1>5. rq' = [rq EXCEPT ![g] = l]
  BY Zenon, <1>1, <1>2
<1>6. rq' \in [Groups -> Seq(Units)] /\ rq'[g] = l /\ \A h \in Groups : h # g => rq'[h] = rq[h]
  BY <1>3, <1>4, <1>5
<1>7. \A h \in Groups : Distinct(rq'[h]) /\ \A v \in Listed(rq'[h]) : GroupOf[v] = h
  BY Zenon, <1>1, <1>3, <1>4, <1>6
<1>8. \A v \in Units : v \in Listed(rq'[GroupOf[v]]) <=> v = u \/ v \in Listed(rq[GroupOf[v]])
  <2> SUFFICES ASSUME NEW v \in Units
               PROVE  v \in Listed(rq'[GroupOf[v]]) <=> v = u \/ v \in Listed(rq[GroupOf[v]])
    BY Zenon
  <2>1. GroupOf[v] \in Groups
    BY Zenon, SchedAssumption DEF Units
  <2> QED
    BY Zenon, <1>1, <1>4, <1>6, <2>1
<1> QED
  BY Zenon, <1>6, <1>7, <1>8

\* _activate_proc keeps the invariant, called by a wake-up or by an alert.
LEMMA ActivateKeeps ==
  ASSUME SchedIndInv, NEW p \in Tasks, NEW alert, ActivateProc(p, alert),
         UNCHANGED <<occupy, thisproc, armed>>, skilled' \in [Tasks -> BOOLEAN],
         \A q \in Tasks : skilled[q] => skilled'[q]
  PROVE  SchedIndInv'
<1>1. SchedTypeOK /\ RunQueuesExact /\ IdleAlwaysPickable /\ PreemptionArmed /\ GroupPaysForMembers /\ OwnIdle
  BY Zenon DEF SchedIndInv, SchedInv
<1>2. PreemptionArmed' /\ OwnIdle'
  BY Zenon, <1>1 DEF PreemptionArmed, OwnIdle
<1>3. GroupPaysForMembers'
  BY Zenon, <1>1, NobodyCharged
<1>4. Tasks \cap Cpus = {} /\ p \in Units
  BY Zenon, SchedAssumption DEF Units
<1>5. occupy' \in [Units -> 0 .. MaxOccupy] /\ thisproc' \in [Cpus -> Tasks \cup Cpus] /\ armed' \in [Cpus -> BOOLEAN]
  BY Zenon, <1>1 DEF SchedTypeOK
<1>6. CASE UNCHANGED <<st, rq>>
  <2>1. SchedTypeOK'
    BY Zenon, <1>1, <1>5, <1>6 DEF SchedTypeOK
  <2>2. RunQueuesExact' /\ IdleAlwaysPickable'
    BY Zenon, <1>1, <1>6 DEF RunQueuesExact, IdleAlwaysPickable
  <2> QED
    BY Zenon, <1>2, <1>3, <2>1, <2>2 DEF SchedIndInv, SchedInv
<1>7. CASE ~UNCHANGED <<st, rq>>
  <2>1. /\ st[p] \in {"SLEEPING", "UNUSED", "DEEPSLEEPING"}
        /\ st' = [st EXCEPT ![p] = "RUNNABLE"]
        /\ rq' = [rq EXCEPT ![GroupOf[p]] = <<p>> \o @]
    BY Zenon, <1>7 DEF ActivateProc
  <2>2. p \notin Listed(rq[GroupOf[p]])
    BY Zenon, <1>1, <2>1 DEF RunQueuesExact
  <2>3. /\ rq' \in [Groups -> Seq(Units)]
        /\ \A g \in Groups : Distinct(rq'[g]) /\ \A v \in Listed(rq'[g]) : GroupOf[v] = g
        /\ \A v \in Units : v \in Listed(rq'[GroupOf[v]]) <=> v = p \/ v \in Listed(rq[GroupOf[v]])
    BY Zenon, <1>4, <2>1, <2>2, PushKeeps
  <2>4. st' \in [Tasks \cup Cpus -> SchedStates]
    BY Zenon, <1>1, <2>1 DEF SchedTypeOK, SchedStates
  <2>5. \A q \in Tasks \cup Cpus : st'[q] = IF q = p THEN "RUNNABLE" ELSE st[q]
    BY Zenon, <1>1, <2>1 DEF SchedTypeOK
  <2>6. SchedTypeOK'
    BY Zenon, <1>5, <2>3, <2>4 DEF SchedTypeOK
  <2>7. RunQueuesExact'
    <3>1. ASSUME NEW q \in Tasks PROVE st'[q] = "RUNNABLE" <=> q \in Listed(rq'[GroupOf[q]])
      BY Zenon, <1>1, <2>3, <2>5 DEF RunQueuesExact, Units
    <3>2. ASSUME NEW q \in Tasks PROVE st'[q] = "RUNNING" <=> \E c \in Cpus : thisproc'[c] = q
      BY <1>1, <2>1, <2>5 DEF RunQueuesExact
    <3> QED
      BY <1>1, <2>3, <3>1, <3>2 DEF RunQueuesExact
  <2>8. IdleAlwaysPickable'
    BY Zenon, <1>1, <1>4, <2>5 DEF IdleAlwaysPickable
  <2> QED
    BY Zenon, <1>2, <1>3, <2>6, <2>7, <2>8 DEF SchedIndInv, SchedInv
<1> QED
  BY Zenon, <1>6, <1>7

\* Every step of the scheduler keeps the inductive invariant.
LEMMA SchedIndStep == SchedIndInv /\ [SchedNext]_schedvars => SchedIndInv'
<1> SUFFICES ASSUME SchedIndInv, [SchedNext]_schedvars PROVE SchedIndInv'
  BY Zenon
<1>1. SchedTypeOK /\ RunQueuesExact /\ IdleAlwaysPickable /\ PreemptionArmed /\ GroupPaysForMembers /\ OwnIdle
  BY Zenon DEF SchedIndInv, SchedInv
<1>2. CASE UNCHANGED schedvars
  <2>1. SchedTypeOK' /\ RunQueuesExact' /\ IdleAlwaysPickable' /\ PreemptionArmed' /\ OwnIdle'
    BY Zenon, <1>1, <1>2 DEF schedvars, SchedTypeOK, RunQueuesExact, IdleAlwaysPickable, PreemptionArmed, OwnIdle
  <2>2. GroupPaysForMembers'
    BY Zenon, <1>1, <1>2, NobodyCharged DEF schedvars
  <2> QED
    BY Zenon, <2>1, <2>2 DEF SchedIndInv, SchedInv
<1>3. ASSUME NEW c \in Cpus, NEW new \in NewStates, SwitchStep(c, new) PROVE SchedIndInv'
  BY Zenon, <1>3, SwitchKeeps DEF SwitchStep
<1>4. ASSUME NEW c \in Cpus, thisproc[c] \in Tasks, skilled[thisproc[c]],
             armed' = [armed EXCEPT ![c] = FALSE], UNCHANGED <<st, rq, occupy, thisproc, skilled>>
      PROVE  SchedIndInv'
  <2>1. SchedTypeOK'
    BY Zenon, <1>1, <1>4 DEF SchedTypeOK
  <2>2. RunQueuesExact' /\ IdleAlwaysPickable' /\ OwnIdle'
    BY <1>1, <1>4 DEF RunQueuesExact, IdleAlwaysPickable, OwnIdle
  <2>3. GroupPaysForMembers'
    BY Zenon, <1>1, <1>4, NobodyCharged
  <2>4. PreemptionArmed'
    BY Zenon, <1>1, <1>4 DEF PreemptionArmed, SchedTypeOK
  <2> QED
    BY Zenon, <2>1, <2>2, <2>3, <2>4 DEF SchedIndInv, SchedInv
<1>5. ASSUME NEW p \in Tasks, Activate(p) PROVE SchedIndInv'
  <2>1. skilled' \in [Tasks -> BOOLEAN]
    BY Zenon, <1>1, <1>5 DEF Activate, SchedTypeOK
  <2> QED
    BY Zenon, <1>5, <2>1, ActivateKeeps DEF Activate
<1>6. ASSUME NEW p \in Tasks, Alert(p) PROVE SchedIndInv'
  <2>1. skilled' \in [Tasks -> BOOLEAN] /\ \A q \in Tasks : skilled[q] => skilled'[q]
    BY Zenon, <1>1, <1>6 DEF Alert, SchedTypeOK
  <2> QED
    BY Zenon, <1>6, <2>1, ActivateKeeps DEF Alert
<1>7. ASSUME NEW g \in Groups, ActivateGroup(g) PROVE SchedIndInv'
  <2>1. g \in Units /\ g \notin Tasks /\ GroupOf[g] \in Groups
    BY Zenon, <1>7, SchedAssumption DEF Units, ActivateGroup
  <2>2. /\ g \notin Listed(rq[GroupOf[g]]) /\ rq' = [rq EXCEPT ![GroupOf[g]] = <<g>> \o @]
        /\ UNCHANGED <<st, occupy, thisproc, skilled, armed>>
    BY Zenon, <1>7, <2>1 DEF ActivateGroup, Queued
  <2>3. /\ rq' \in [Groups -> Seq(Units)]
        /\ \A h \in Groups : Distinct(rq'[h]) /\ \A v \in Listed(rq'[h]) : GroupOf[v] = h
        /\ \A v \in Units : v \in Listed(rq'[GroupOf[v]]) <=> v = g \/ v \in Listed(rq[GroupOf[v]])
    BY Zenon, <2>1, <2>2, PushKeeps
  <2>4. SchedTypeOK'
    BY Zenon, <1>1, <2>2, <2>3 DEF SchedTypeOK
  <2>5. RunQueuesExact'
    <3>1. \A p \in Tasks : p \in Listed(rq'[GroupOf[p]]) <=> p \in Listed(rq[GroupOf[p]])
      BY Zenon, <2>1, <2>3 DEF Units
    <3> QED
      BY Zenon, <1>1, <2>2, <2>3, <3>1 DEF RunQueuesExact
  <2>6. IdleAlwaysPickable' /\ PreemptionArmed' /\ OwnIdle'
    BY Zenon, <1>1, <2>2 DEF IdleAlwaysPickable, PreemptionArmed, OwnIdle
  <2>7. GroupPaysForMembers'
    BY Zenon, <1>1, <2>2, NobodyCharged
  <2> QED
    BY Zenon, <2>4, <2>5, <2>6, <2>7 DEF SchedIndInv, SchedInv
<1> QED
  BY Zenon, <1>2, <1>3, <1>4, <1>5, <1>6, <1>7, SchedSteps

\* Whatever sched(), activations and alerts do, and in whatever order the
\* processors take schlock (sched.c:94-262): a process is queued exactly while it
\* is runnable and runs on exactly one processor while it is running, idle can
\* always be picked, every processor can preempt, and every group pays for its
\* members.
THEOREM SchedInvariant == SchedSpec => []SchedInv
<1>1. SchedIndInv => SchedInv
  BY Zenon DEF SchedIndInv
<1> QED
  BY <1>1, SchedIndInit, SchedIndStep, PTL DEF SchedSpec

\* What the emptiness test sees after the switch it also saw before.
LEMMA SchedulableHangs ==
  ASSUME SchedIndInv, SchedIndInv', NEW c \in Cpus, NEW new \in NewStates,
         NEW queues, NEW occ, NEW next, SwitchedTo(c, new, queues, occ, next),
         NEW p \in Tasks, Schedulable(p)'
  PROVE  Hangs(queues, p)
<1>1. \A g \in Groups : \A v \in Listed(rq'[g]) : v \in Listed(queues[g])
  <2> SUFFICES ASSUME NEW g \in Groups, NEW v \in Listed(rq'[g]) PROVE v \in Listed(queues[g])
    BY Zenon
  <2>1. CASE rq' = queues
    BY Zenon, <2>1
  <2>2. CASE rq' # queues
    <3>1. /\ next \in Tasks /\ next \in Listed(queues[GroupOf[next]])
          /\ rq' = [queues EXCEPT ![GroupOf[next]] = Detach(@, next)]
          /\ queues \in [Groups -> Seq(Units)] /\ \A h \in Groups : Distinct(queues[h])
      BY Zenon, <2>2 DEF SwitchedTo, OnPath, QueuesOK
    <3>2. PICK h \in Groups : h = GroupOf[next]
      BY Zenon, <3>1, SchedAssumption
    <3>3. Listed(Detach(queues[h], next)) = Listed(queues[h]) \ {next}
      BY Zenon, <3>1, <3>2, DetachEntry
    <3>4. rq'[h] = Detach(queues[h], next) /\ \A k \in Groups : k # h => rq'[k] = queues[k]
      BY Zenon, <3>1, <3>2
    <3> QED
      BY Zenon, <3>3, <3>4
  <2> QED
    BY Zenon, <2>1, <2>2
<1>2. RunQueuesExact'
  BY Zenon DEF SchedIndInv, SchedInv
<1>3. p \in Listed(rq'[GroupOf[p]]) /\ GroupOf[p] \in Groups
  BY Zenon, <1>2, SchedAssumption DEF RunQueuesExact, Schedulable
<1>4. ASSUME NEW g \in GroupsAbove(p) \ {RootGroup} PROVE g \in Listed(queues[GroupOf[g]])
  <2>1. Queued(g)'
    BY Zenon DEF Schedulable
  <2>2. PICK h \in Groups : g \in Listed(rq'[h])
    BY Zenon, <2>1 DEF Queued
  <2>3. GroupOf[g] = h
    BY Zenon, <1>2, <2>2 DEF RunQueuesExact
  <2> QED
    BY Zenon, <1>1, <2>2, <2>3
<1> QED
  BY Zenon, <1>1, <1>3, <1>4 DEF Hangs

\* Only a switch changes who runs, and only on its own processor.
LEMMA WhoRuns ==
  ASSUME SchedIndInv, [SchedNext]_schedvars, NEW c \in Cpus, thisproc'[c] # thisproc[c]
  PROVE  \E new \in NewStates : \E queues, occ, next : SwitchedTo(c, new, queues, occ, next)
<1>1. \E d \in Cpus : \E new \in NewStates : SwitchStep(d, new)
  BY Zenon, SchedSteps DEF schedvars, Activate, Alert, ActivateGroup
<1>2. PICK d \in Cpus, new \in NewStates : SwitchStep(d, new)
  BY Zenon, <1>1
<1>3. PICK queues, occ, next : SwitchedTo(d, new, queues, occ, next)
  BY Zenon, <1>2, SwitchFacts DEF SwitchStep
<1>4. thisproc \in [Cpus -> Tasks \cup Cpus]
  BY Zenon DEF SchedIndInv, SchedInv, SchedTypeOK
<1>5. d = c
  BY Zenon, <1>3, <1>4 DEF SwitchedTo
<1> QED
  BY Zenon, <1>3, <1>5

\* A processor goes idle only when no process hangs, queued, from the root:
\* not_empty_container and the descent of traverse_queue agree whatever the
\* containers and however deep they nest (sched.c:176, 191).
THEOREM IdleOnlyWhenEmpty == SchedSpec => IdleOnlyWhenNothingToRun
<1>1. ASSUME SchedIndInv, SchedIndInv', [SchedNext]_schedvars,
             NEW c \in Cpus, thisproc'[c] = c, thisproc[c] # c,
             NEW p \in Tasks, Schedulable(p)'
      PROVE  FALSE
  <2>1. PICK new, queues, occ, next : new \in NewStates /\ SwitchedTo(c, new, queues, occ, next)
    BY Zenon, <1>1, WhoRuns
  <2>2. Hangs(queues, p)
    BY Zenon, <1>1, <2>1, SchedulableHangs
  <2>3. next = c
    <3>1. thisproc \in [Cpus -> Tasks \cup Cpus]
      BY Zenon, <1>1 DEF SchedIndInv, SchedInv, SchedTypeOK
    <3>2. thisproc' = [thisproc EXCEPT ![c] = next]
      BY Zenon, <2>1 DEF SwitchedTo
    <3> QED
      BY Zenon, <1>1, <3>1, <3>2
  <2>4. TraverseQueue(queues, occ) = <<>> /\ QueuesOK(queues)
    BY Zenon, <2>1, <2>3, SchedAssumption DEF SwitchedTo
  <2>5. occ \in [Units -> Nat]
    BY <2>1, SchedAssumption DEF SwitchedTo
  <2> QED
    BY Zenon, <2>2, <2>4, <2>5, TraverseNotNull
<1>2. SchedIndInv /\ SchedIndInv' /\ [SchedNext]_schedvars =>
        [\A c \in Cpus : thisproc'[c] = c /\ thisproc[c] # c => ~\E p \in Tasks : Schedulable(p)']_schedvars
  BY Zenon, <1>1
<1> QED
  BY <1>2, SchedIndInit, SchedIndStep, PTL DEF SchedSpec, IdleOnlyWhenNothingToRun

\* The process picked comes, in every queue on its way from the root, from the
\* eligible unit whose charge is the least as the int that traverse_queue compares
\* (sched.c:180), however far the charges have run past INT_MAX; a queue with a unit
\* whose charge converts to the mark -1 is exempt.
THEOREM LeastChargedRuns == SchedSpec => PicksLeastCharged
<1> DEFINE Path(p) == {p} \cup (GroupsAbove(p) \ {RootGroup})
<1>1. ASSUME SchedIndInv, SchedIndInv', [SchedNext]_schedvars,
             NEW c \in Cpus, thisproc'[c] # thisproc[c], thisproc'[c] \in Tasks,
             NEW u \in Path(thisproc'[c]), SentinelFree(GroupOf[u], u)', NEW p \in Tasks, Schedulable(p)',
             NEW v \in Path(p), GroupOf[v] = GroupOf[u]
      PROVE  AsInt(occupy'[u]) <= AsInt(occupy'[v])
  <2>1. PICK new, queues, occ, next : new \in NewStates /\ SwitchedTo(c, new, queues, occ, next)
    BY Zenon, <1>1, WhoRuns
  <2>2. Hangs(queues, p)
    BY Zenon, <1>1, <2>1, SchedulableHangs
  <2>3. next = thisproc'[c]
    <3>1. thisproc \in [Cpus -> Tasks \cup Cpus]
      BY Zenon, <1>1 DEF SchedIndInv, SchedInv, SchedTypeOK
    <3>2. thisproc' = [thisproc EXCEPT ![c] = next]
      BY Zenon, <2>1 DEF SwitchedTo
    <3> QED
      BY Zenon, <1>1, <3>1, <3>2
  <2>4. next \in Tasks /\ OnPath(queues, occ, next) /\ QueuesOK(queues) /\ occupy' = occ
    BY Zenon, <1>1, <2>1, <2>3, SchedAssumption DEF SwitchedTo
  <2>5. occ \in [Units -> Nat]
    BY <2>1, SchedAssumption DEF SwitchedTo
  <2>6. u \in {next} \cup (GroupsAbove(next) \ {RootGroup}) /\ v \in {p} \cup (GroupsAbove(p) \ {RootGroup})
    BY Zenon, <1>1, <2>3
  <2>7. \A w \in Listed(queues[GroupOf[u]]) : AsInt(occ[w]) # -1
    <3>1. PICK g : g = GroupOf[u]
      BY Zenon
    <3>2. AsInt(occ[u]) # -1 /\ \A w \in Listed(rq'[g]) : AsInt(occ[w]) # -1
      BY Zenon, <1>1, <2>4, <3>1 DEF SentinelFree
    <3>3. next \in {next} \cup (GroupsAbove(next) \ {RootGroup})
      BY Zenon
    <3>4. LeastOccupied(queues, occ, GroupOf[u]) = <<u>> /\ LeastOccupied(queues, occ, GroupOf[next]) = <<next>>
      BY Zenon, <2>4, <2>6, <3>3 DEF OnPath
    <3>5. g = GroupOf[next] => u = next
      BY <3>1, <3>4
    <3>6. PICK h \in Groups : h = GroupOf[next]
      BY Zenon, <2>4, SchedAssumption
    <3>7. /\ rq' = [queues EXCEPT ![h] = Detach(@, next)]
          /\ next \in Listed(queues[h]) /\ queues \in [Groups -> Seq(Units)] /\ Distinct(queues[h])
      BY Zenon, <2>1, <2>4, <3>6, SchedAssumption DEF SwitchedTo, OnPath, QueuesOK
    <3>8. Listed(Detach(queues[h], next)) = Listed(queues[h]) \ {next}
      BY Zenon, <3>7, DetachEntry
    <3>9. CASE g = h
      <4>1. Listed(rq'[g]) = Listed(queues[g]) \ {u}
        BY Zenon, <3>5, <3>6, <3>7, <3>8, <3>9
      <4> QED
        BY Zenon, <3>1, <3>2, <4>1
    <3>10. CASE g # h
      <4>1. g \in Groups
        BY Zenon, <2>4, <2>6, <3>1, GroupsAboveClosed, SchedAssumption DEF Units
      <4>2. rq'[g] = queues[g]
        BY Zenon, <3>7, <3>10, <4>1
      <4> QED
        BY Zenon, <3>1, <3>2, <4>2
    <3> QED
      BY Zenon, <3>9, <3>10
  <2>8. AsInt(occ[u]) <= AsInt(occ[v])
    BY Zenon, <1>1, <2>2, <2>4, <2>5, <2>6, <2>7, TraverseLeast
  <2> QED
    BY Zenon, <2>4, <2>8
<1>2. SchedIndInv /\ SchedIndInv' /\ [SchedNext]_schedvars =>
        [\A c \in Cpus : thisproc'[c] # thisproc[c] /\ thisproc'[c] \in Tasks =>
           LET path == {thisproc'[c]} \cup (GroupsAbove(thisproc'[c]) \ {RootGroup}) IN
           \A u \in path, p \in Tasks :
             SentinelFree(GroupOf[u], u)' /\ Schedulable(p)' =>
               \A v \in {p} \cup (GroupsAbove(p) \ {RootGroup}) :
                 GroupOf[v] = GroupOf[u] => AsInt(occupy'[u]) <= AsInt(occupy'[v])]_schedvars
  BY Zenon, <1>1
<1> QED
  BY <1>2, SchedIndInit, SchedIndStep, PTL DEF SchedSpec, PicksLeastCharged
=============================================================================
