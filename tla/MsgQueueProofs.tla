--------------------------- MODULE MsgQueueProofs ---------------------------
EXTENDS MsgQueue, DataLemmas

\* The messages in a slot's queue, and the one a thread has in its hands.
InQueue(i) == IF entries[i] = NoQueue THEN {} ELSE Listed(entries[i].msgs)
Held(t) == IF th[t].pc \in {"full", "retry"} THEN {th[t].m}
           ELSE IF th[t].pc = "woken" /\ th[t].rmsg \in Msgs THEN {th[t].rmsg} ELSE {}
QueueContents == [i \in Ids |-> InQueue(i)]
ThreadContents == [t \in MsgThreads |-> Held(t)]

\* A thread is on the list of receivers, or of senders, of the queue it sleeps on
\* and of no other; a sleeping receiver is on such a list.
OnLists ==
    /\ \A i \in Ids : entries[i] # NoQueue =>
        /\ Distinct(entries[i].receivers) /\ Distinct(entries[i].senders)
        /\ \A t \in Listed(entries[i].receivers) : th[t].pc = "empty" /\ th[t].h.id = i
        /\ \A t \in Listed(entries[i].senders) : th[t].pc = "full" /\ th[t].h.id = i
    /\ \A t \in MsgThreads : th[t].pc = "empty" =>
        entries[th[t].h.id] # NoQueue /\ t \in Listed(entries[th[t].h.id].receivers)

\* No number is used twice: not in two places of the queues (Q) and the threads (H),
\* nor in a place and among the freed ones (d); all are below s.
Apart(Q, H, d, s) ==
    /\ \A i, j \in Ids : \A a \in Q[i], b \in Q[j] : a.n = b.n => i = j /\ a = b
    /\ \A t, u \in MsgThreads : \A a \in H[t], b \in H[u] : a.n = b.n => t = u
    /\ \A i \in Ids, t \in MsgThreads : \A a \in Q[i], b \in H[t] : a.n # b.n
    /\ \A i \in Ids : \A a \in Q[i] : a.n < s /\ a.n \notin d
    /\ \A t \in MsgThreads : \A a \in H[t] : a.n < s /\ a.n \notin d
    /\ \A n \in d : n < s

\* Nor is one lost: every number below s is in a place or among the freed ones.
Placed(n, Q, H, d) ==
    n \in d \/ (\E i \in Ids : \E a \in Q[i] : a.n = n) \/ (\E t \in MsgThreads : \E a \in H[t] : a.n = n)
InPlace(Q, H, d, s) == Apart(Q, H, d, s) /\ \A n \in 0 .. s - 1 : Placed(n, Q, H, d)
MessagesApart ==
    /\ InPlace(QueueContents, ThreadContents, done, sends)
    /\ \A i \in Ids : entries[i] # NoQueue => Distinct(entries[i].msgs)

\* No two queues of the table were made by the same msgget.
BornOnce ==
    /\ \A i \in Ids : entries[i] # NoQueue => entries[i].born < created
    /\ \A i, j \in Ids :
        entries[i] # NoQueue /\ entries[j] # NoQueue /\ entries[i].born = entries[j].born => i = j

\* NoReceiverMissesMessage and SendersWaitOnlyWhenFull, slot by slot.
NoMiss ==
    \A i \in Ids : entries[i] # NoQueue =>
        \A t \in Listed(entries[i].receivers), a \in InQueue(i) : ~TestMsg(th[t].type, a.type)
WaitWhenFull ==
    \A i \in Ids : entries[i] # NoQueue =>
        Len(entries[i].msgs) <= MaxMsg /\ (entries[i].senders # <<>> => Len(entries[i].msgs) = MaxMsg)

\* A sleeping sender is on the list of the queue it joined while that queue is there.
SendersOn ==
    \A t \in MsgThreads : th[t].pc = "full" =>
        /\ th[t].on < created
        /\ \A i \in Ids : entries[i] # NoQueue /\ entries[i].born = th[t].on => t \in Listed(entries[i].senders)

MsgIndInv == MsgTypeOK /\ OnLists /\ MessagesApart /\ BornOnce /\ NoMiss /\ WaitWhenFull /\ SendersOn

\* A thread on no list.
Unlisted(t) ==
    \A i \in Ids : entries[i] # NoQueue =>
        t \notin Listed(entries[i].receivers) /\ t \notin Listed(entries[i].senders)

\* The ids that msgget has given out and the queues of the table carry the number
\* of queues made before them as their sequence numbers.
SeqIsBorn ==
    /\ created < U16 => seq = created
    /\ \A h \in handles : h.seq = h.born
    /\ \A i \in Ids : entries[i] # NoQueue => entries[i].seq = entries[i].born

-----------------------------------------------------------------------------
(* Where the messages are.                                                    *)

\* The number of m is used nowhere, and is the only one without a place.
Outside(m, Q, H, d, s) ==
    /\ m.n < s /\ m.n \notin d
    /\ \A i \in Ids : \A a \in Q[i] : a.n # m.n
    /\ \A t \in MsgThreads : \A a \in H[t] : a.n # m.n
    /\ \A n \in 0 .. s - 1 : n = m.n \/ Placed(n, Q, H, d)
Smaller(Q2, H2, Q, H) == (\A i \in Ids : Q2[i] \subseteq Q[i]) /\ (\A t \in MsgThreads : H2[t] \subseteq H[t])

\* Nothing but m has left.
OnlyLacks(m, Q2, H2, Q, H) ==
    /\ \A i \in Ids : \A a \in Q[i] : a = m \/ a \in Q2[i]
    /\ \A t \in MsgThreads : \A a \in H[t] : a = m \/ a \in H2[t]

QueueSets == [Ids -> SUBSET Msgs]
ThreadSets == [MsgThreads -> SUBSET Msgs]

\* Messages that leave their places leave the others apart; building one uses a new
\* number (load_msg).
LEMMA ApartShrinks ==
  ASSUME NEW Q, NEW H, NEW Q2 \in QueueSets, NEW H2 \in ThreadSets,
         NEW d \in SUBSET Int, NEW s \in Int, NEW s2 \in Int, s <= s2,
         Apart(Q, H, d, s), Smaller(Q2, H2, Q, H)
  PROVE  Apart(Q2, H2, d, s2)
<1>1. \A n \in Int : n < s => n < s2
  OBVIOUS
<1>2. \A i \in Ids : \A a \in Q2[i] : a \in Q[i] /\ a.n \in Int
  BY DEF Smaller, QueueSets, Msgs
<1>3. \A t \in MsgThreads : \A a \in H2[t] : a \in H[t] /\ a.n \in Int
  BY DEF Smaller, ThreadSets, Msgs
<1> QED
  BY ZenonT(60), <1>1, <1>2, <1>3 DEF Apart

\* The others keep their places.
LEMMA OthersPlaced ==
  ASSUME NEW Q, NEW H, NEW Q2, NEW H2, NEW d, NEW s, InPlace(Q, H, d, s), NEW m, OnlyLacks(m, Q2, H2, Q, H)
  PROVE  \A n \in 0 .. s - 1 : n = m.n \/ Placed(n, Q2, H2, d)
<1> SUFFICES ASSUME NEW n \in 0 .. s - 1, n # m.n PROVE Placed(n, Q2, H2, d)
  BY Zenon
<1>1. Placed(n, Q, H, d)
  BY Zenon DEF InPlace
<1>2. CASE n \in d
  BY Zenon, <1>2 DEF Placed
<1>3. ASSUME NEW i \in Ids, NEW a \in Q[i], a.n = n PROVE Placed(n, Q2, H2, d)
  BY Zenon, <1>3 DEF OnlyLacks, Placed
<1>4. ASSUME NEW t \in MsgThreads, NEW a \in H[t], a.n = n PROVE Placed(n, Q2, H2, d)
  BY Zenon, <1>4 DEF OnlyLacks, Placed
<1> QED
  BY Zenon, <1>1, <1>2, <1>3, <1>4 DEF Placed

\* A message taken out of a queue is nowhere else.
LEMMA TakenFromQueue ==
  ASSUME NEW Q, NEW H, NEW Q2, NEW H2, NEW d, NEW s, InPlace(Q, H, d, s), Smaller(Q2, H2, Q, H),
         NEW i \in Ids, NEW m \in Q[i], m \notin Q2[i], OnlyLacks(m, Q2, H2, Q, H)
  PROVE  Outside(m, Q2, H2, d, s)
<1>1. Apart(Q, H, d, s)
  BY Zenon DEF InPlace
<1>2. \A j \in Ids : \A a \in Q2[j] : a.n # m.n
  <2> SUFFICES ASSUME NEW j \in Ids, NEW a \in Q2[j], a.n = m.n PROVE FALSE
    BY Zenon
  <2>1. a \in Q[j]
    BY Zenon DEF Smaller
  <2>2. j = i /\ a = m
    BY Zenon, <1>1, <2>1 DEF Apart
  <2> QED
    BY Zenon, <2>2
<1>3. \A t \in MsgThreads : \A a \in H2[t] : a.n # m.n
  BY Zenon, <1>1 DEF Apart, Smaller
<1>4. m.n < s /\ m.n \notin d
  BY Zenon, <1>1 DEF Apart
<1>5. \A n \in 0 .. s - 1 : n = m.n \/ Placed(n, Q2, H2, d)
  BY Zenon, OthersPlaced
<1> QED
  BY Zenon, <1>2, <1>3, <1>4, <1>5 DEF Outside

\* Nor is one taken from the thread that has it.
LEMMA TakenFromThread ==
  ASSUME NEW Q, NEW H, NEW H2, NEW d, NEW s, InPlace(Q, H, d, s), Smaller(Q, H2, Q, H),
         NEW t \in MsgThreads, NEW m, H[t] = {m}, H2[t] = {}, \A u \in MsgThreads \ {t} : H2[u] = H[u]
  PROVE  Outside(m, Q, H2, d, s)
<1>1. Apart(Q, H, d, s)
  BY Zenon DEF InPlace
<1>2. OnlyLacks(m, Q, H2, Q, H)
  BY Zenon DEF OnlyLacks
<1>3. \A n \in 0 .. s - 1 : n = m.n \/ Placed(n, Q, H2, d)
  BY Zenon, <1>2, OthersPlaced
<1>4. m \in H[t]
  BY Zenon
<1>5. m.n < s /\ m.n \notin d /\ \A i \in Ids : \A a \in Q[i] : a.n # m.n
  <2>1. \A a \in H[t] : a.n < s /\ a.n \notin d
    BY Zenon, <1>1 DEF Apart
  <2>2. \A i \in Ids : \A a \in Q[i], b \in H[t] : a.n # b.n
    BY Zenon, <1>1 DEF Apart
  <2> QED
    BY Zenon, <1>4, <2>1, <2>2
<1>6. \A u \in MsgThreads : \A a \in H2[u] : a.n # m.n
  BY Zenon, <1>1, <1>4 DEF Apart
<1> QED
  BY Zenon, <1>3, <1>5, <1>6 DEF Outside

\* A message that is nowhere may be put into one queue.
LEMMA PutIntoQueue ==
  ASSUME NEW Q, NEW H, NEW Q2, NEW d, NEW s, Apart(Q, H, d, s), NEW m, Outside(m, Q, H, d, s),
         NEW i \in Ids, Q2[i] = Q[i] \cup {m}, \A j \in Ids \ {i} : Q2[j] = Q[j]
  PROVE  InPlace(Q2, H, d, s)
<1>1. \A j \in Ids : \A a \in Q2[j] : a \in Q[j] \/ (j = i /\ a = m)
  BY Zenon
<1>2. \A j, k \in Ids : \A a \in Q2[j], b \in Q2[k] : a.n = b.n => j = k /\ a = b
  <2> SUFFICES ASSUME NEW j \in Ids, NEW k \in Ids, NEW a \in Q2[j], NEW b \in Q2[k], a.n = b.n
               PROVE  j = k /\ a = b
    BY Zenon
  <2>1. CASE a \in Q[j] /\ b \in Q[k]
    BY <2>1 DEF Apart
  <2>2. CASE a \notin Q[j] \/ b \notin Q[k]
    BY Zenon, <1>1, <2>2 DEF Outside
  <2> QED
    BY Zenon, <2>1, <2>2
<1>3. \A j \in Ids, t \in MsgThreads : \A a \in Q2[j], b \in H[t] : a.n # b.n
  BY <1>1 DEF Apart, Outside
<1>4. \A j \in Ids : \A a \in Q2[j] : a.n < s /\ a.n \notin d
  BY Zenon, <1>1 DEF Apart, Outside
<1>5. Apart(Q2, H, d, s)
  BY Zenon, <1>2, <1>3, <1>4 DEF Apart
<1>6. \A j \in Ids : \A a \in Q[j] : a \in Q2[j]
  BY Zenon
<1>7. m \in Q2[i]
  BY Zenon
<1>8. \A n \in 0 .. s - 1 : Placed(n, Q2, H, d)
  BY Zenon, <1>6, <1>7 DEF Outside, Placed
<1> QED
  BY Zenon, <1>5, <1>8 DEF InPlace

\* Or be given to one thread.
LEMMA GivenToThread ==
  ASSUME NEW Q, NEW H, NEW H2, NEW d, NEW s, Apart(Q, H, d, s), NEW m, Outside(m, Q, H, d, s),
         NEW t \in MsgThreads, H2[t] = {m}, H[t] = {}, \A u \in MsgThreads \ {t} : H2[u] = H[u]
  PROVE  InPlace(Q, H2, d, s)
<1>1. \A u \in MsgThreads : \A a \in H2[u] : a \in H[u] \/ (u = t /\ a = m)
  BY Zenon
<1>2. \A u, v \in MsgThreads : \A a \in H2[u], b \in H2[v] : a.n = b.n => u = v
  <2> SUFFICES ASSUME NEW u \in MsgThreads, NEW v \in MsgThreads, NEW a \in H2[u], NEW b \in H2[v], a.n = b.n
               PROVE  u = v
    BY Zenon
  <2>1. CASE a \in H[u] /\ b \in H[v]
    BY Zenon, <2>1 DEF Apart
  <2>2. CASE a \notin H[u] \/ b \notin H[v]
    BY Zenon, <1>1, <2>2 DEF Outside
  <2> QED
    BY Zenon, <2>1, <2>2
<1>3. \A i \in Ids, u \in MsgThreads : \A a \in Q[i], b \in H2[u] : a.n # b.n
  BY <1>1 DEF Apart, Outside
<1>4. \A u \in MsgThreads : \A a \in H2[u] : a.n < s /\ a.n \notin d
  BY Zenon, <1>1 DEF Apart, Outside
<1>5. Apart(Q, H2, d, s)
  BY Zenon, <1>2, <1>3, <1>4 DEF Apart
<1>6. \A u \in MsgThreads : \A a \in H[u] : a \in H2[u]
  BY Zenon
<1>7. m \in H2[t]
  BY Zenon
<1>8. \A n \in 0 .. s - 1 : Placed(n, Q, H2, d)
  BY Zenon, <1>6, <1>7 DEF Outside, Placed
<1> QED
  BY Zenon, <1>5, <1>8 DEF InPlace

\* Or be freed.
LEMMA FreedOnce ==
  ASSUME NEW Q, NEW H, NEW d, NEW d2, NEW s, Apart(Q, H, d, s), NEW m, Outside(m, Q, H, d, s), d2 = d \cup {m.n}
  PROVE  InPlace(Q, H, d2, s)
<1>1. Apart(Q, H, d2, s)
  BY Zenon DEF Apart, Outside
<1>2. \A n \in 0 .. s - 1 : Placed(n, Q, H, d2)
  BY Zenon DEF Outside, Placed
<1> QED
  BY Zenon, <1>1, <1>2 DEF InPlace

\* A message just built has a number that none has had before.
LEMMA BuiltIsOutside ==
  ASSUME NEW Q \in QueueSets, NEW H \in ThreadSets, NEW d \in SUBSET Int, NEW s \in Int,
         InPlace(Q, H, d, s), NEW m, m.n = s
  PROVE  Outside(m, Q, H, d, s + 1)
<1>1. \A n \in Int : n < s => n # s
  OBVIOUS
<1>2. \A i \in Ids : \A a \in Q[i] : a.n < s /\ a.n \in Int
  BY DEF InPlace, Apart, QueueSets, Msgs
<1>3. \A t \in MsgThreads : \A a \in H[t] : a.n < s /\ a.n \in Int
  BY DEF InPlace, Apart, ThreadSets, Msgs
<1>4. \A n \in d : n < s /\ n \in Int
  BY Zenon DEF InPlace, Apart
<1>5. m.n < s + 1
  OBVIOUS
<1>6. \A n \in 0 .. (s + 1) - 1 : n = s \/ n \in 0 .. s - 1
  OBVIOUS
<1>7. \A n \in 0 .. (s + 1) - 1 : n = m.n \/ Placed(n, Q, H, d)
  BY Zenon, <1>6 DEF InPlace
<1> QED
  BY Zenon, <1>1, <1>2, <1>3, <1>4, <1>5, <1>7 DEF Outside

-----------------------------------------------------------------------------
(* The searches of msgsnd and msgrcv.                                         *)

\* The first id, key or receiver that the loops of ipc.c stop at is one of those
\* they look for.
LEMMA MinOf ==
  ASSUME NEW T, T \subseteq Nat, T # {}
  PROVE  Min(T) \in T
<1>1. PICK n \in T : \A k \in T : n <= k
  BY Zenon, LeastNat
<1> QED
  BY Zenon, <1>1 DEF Min

\* pipeline_send finds a receiver that wants the message whenever there is one.
LEMMA TakerFound ==
  ASSUME NEW q, q.receivers \in Seq(MsgThreads), NEW m, NEW i, i = FirstTaker(q, m)
  PROVE  /\ i = 0 => \A t \in Listed(q.receivers) : ~TestMsg(th[t].type, m.type)
         /\ i # 0 => i \in 1 .. Len(q.receivers) /\ q.receivers[i] \in Listed(q.receivers)
                       /\ q.receivers[i] \in MsgThreads
<1>1. PICK T : T = {k \in DOMAIN q.receivers : TestMsg(th[q.receivers[k]].type, m.type)}
  BY Zenon
<1>2. i = IF T = {} THEN 0 ELSE Min(T)
  BY Zenon, <1>1 DEF FirstTaker
<1>3. DOMAIN q.receivers = 1 .. Len(q.receivers) /\ Len(q.receivers) \in Nat
  OBVIOUS
<1>4. T \subseteq 1 .. Len(q.receivers) /\ T \subseteq Nat /\ 0 \notin T
  BY <1>1, <1>3
<1>5. CASE T = {}
  BY Zenon, <1>1, <1>2, <1>3, <1>5 DEF Listed
<1>6. CASE T # {}
  <2>1. i \in T
    BY Zenon, <1>2, <1>4, <1>6, MinOf
  <2>2. i \in 1 .. Len(q.receivers)
    BY Zenon, <1>4, <2>1
  <2>3. q.receivers[i] \in MsgThreads
    BY <2>2
  <2> QED
    BY Zenon, <1>4, <2>1, <2>2, <2>3 DEF Listed
<1> QED
  BY Zenon, <1>5, <1>6

Walk(msgs, mtype) ==
    CHOOSE f : f = [i \in 0 .. Len(msgs) |->
        IF i = 0 THEN [found |-> 0, mtype |-> mtype, stop |-> FALSE]
        ELSE IF f[i - 1].stop \/ ~TestMsg(f[i - 1].mtype, msgs[i].type) THEN f[i - 1]
        ELSE IF f[i - 1].mtype < -1 THEN [found |-> i, mtype |-> f[i - 1].mtype + 1, stop |-> FALSE]
        ELSE [found |-> i, mtype |-> f[i - 1].mtype, stop |-> TRUE]]

\* The variables of msgrcv's loop: before the first match none has changed.
WalkOK(w, msgs, mtype, i) ==
    /\ w.found \in 0 .. i
    /\ w.found = 0 => /\ w.mtype = mtype /\ ~w.stop
                      /\ \A k \in 1 .. i : ~TestMsg(mtype, msgs[k].type)

\* The loop of msgrcv finds a message whenever the queue has one that matches.
LEMMA MsgFound ==
  ASSUME NEW msgs \in Seq(Msgs), NEW mtype \in Int, NEW i, i = FindMsg(msgs, mtype)
  PROVE  /\ i = 0 => \A a \in Listed(msgs) : ~TestMsg(mtype, a.type)
         /\ i # 0 => i \in 1 .. Len(msgs) /\ msgs[i] \in Listed(msgs) /\ msgs[i] \in Msgs
<1>1. PICK L \in Nat : L = Len(msgs)
  OBVIOUS
<1>2. PICK V : V = [found : 0 .. L, mtype : Int, stop : BOOLEAN]
  BY Zenon
<1>3. PICK a : a = [found |-> 0, mtype |-> mtype, stop |-> FALSE]
  BY Zenon
<1>4. a \in V
  BY <1>2, <1>3
<1> DEFINE New(n, v) == IF v.stop \/ ~TestMsg(v.mtype, msgs[n].type) THEN v
                        ELSE IF v.mtype < -1 THEN [found |-> n, mtype |-> v.mtype + 1, stop |-> FALSE]
                        ELSE [found |-> n, mtype |-> v.mtype, stop |-> TRUE]
<1>5. PICK step : step = [nv \in (1 .. L) \X V |-> New(nv[1], nv[2])]
  BY Zenon
<1>6. \A n \in 1 .. L : \A v \in V : step[<<n, v>>] = New(n, v)
  BY Zenon, <1>5
<1>7. \A n \in 1 .. L : \A v \in V : New(n, v) \in V
  BY <1>2
<1>8. StepIn(1 .. L, V, step)
  <2> HIDE DEF New
  <2> QED
    BY Zenon, <1>6, <1>7 DEF StepIn
<1>9. PICK f : ByStep(f, 0 .. L, V, a, step)
  BY Zenon, <1>4, <1>8, IntervalRecursion
<1>10. \A n \in 0 .. L : f[n] = IF n = 0 THEN a ELSE New(n, f[n - 1])
  <2> SUFFICES ASSUME NEW n \in 0 .. L PROVE f[n] = IF n = 0 THEN a ELSE New(n, f[n - 1])
    BY Zenon
  <2>1. CASE n = 0
    BY Zenon, <1>9, <2>1 DEF ByStep
  <2>2. CASE n # 0
    <3>1. n \in 1 .. L /\ n - 1 \in 0 .. L
      BY <2>2
    <3>2. f[n] = step[<<n, f[n - 1]>>] /\ f[n - 1] \in V
      BY Zenon, <1>9, <2>2, <3>1 DEF ByStep
    <3>3. step[<<n, f[n - 1]>>] = New(n, f[n - 1])
      BY Zenon, <1>6, <3>1, <3>2
    <3> QED
      BY Zenon, <2>2, <3>2, <3>3
  <2> QED
    BY Zenon, <2>1, <2>2
<1>11. f = [n \in 0 .. L |-> IF n = 0 THEN a ELSE New(n, f[n - 1])]
  <2> HIDE DEF New
  <2> QED
    BY Zenon, <1>9, <1>10 DEF ByStep
<1>12. Walk(msgs, mtype) = CHOOSE h : h = [n \in 0 .. L |-> IF n = 0 THEN a ELSE New(n, h[n - 1])]
  BY <1>1, <1>3 DEF Walk
<1>13. PICK w : w = Walk(msgs, mtype)
  BY Zenon
<1>14. w = [n \in 0 .. L |-> IF n = 0 THEN a ELSE New(n, w[n - 1])]
  <2> HIDE DEF New
  <2> QED
    BY Zenon, <1>11, <1>12, <1>13
<1>15. w[0] = a /\ \A n \in 1 .. L : w[n] = New(n, w[n - 1])
  <2> HIDE DEF New
  <2> QED
    BY <1>14
<1> DEFINE T == {n \in 0 .. L : w[n] \in V /\ WalkOK(w[n], msgs, mtype, n)}
<1>16. 0 \in T
  BY <1>3, <1>4, <1>15 DEF WalkOK
<1>17. ASSUME NEW n \in 0 .. (L - 1), n \in T PROVE n + 1 \in T
  <2>1. n + 1 \in 1 .. L /\ n + 1 \in 0 .. L /\ (n + 1) - 1 = n
    OBVIOUS
  <2>2. PICK v : v = w[n]
    BY Zenon
  <2>3. v \in V /\ WalkOK(v, msgs, mtype, n)
    BY Zenon, <1>17, <2>2
  <2>4. w[n + 1] = New(n + 1, v)
    <3> HIDE DEF New
    <3> QED
      BY Zenon, <1>15, <2>1, <2>2
  <2>5. New(n + 1, v) \in V
    BY Zenon, <1>7, <2>1, <2>3
  <2>6. WalkOK(New(n + 1, v), msgs, mtype, n + 1)
    <3>1. CASE v.stop \/ ~TestMsg(v.mtype, msgs[n + 1].type)
      <4>1. New(n + 1, v) = v
        BY Zenon, <3>1
      <4>2. v.found \in 0 .. (n + 1)
        BY <2>3 DEF WalkOK
      <4>3. v.found = 0 => \A k \in 1 .. (n + 1) : ~TestMsg(mtype, msgs[k].type)
        <5> SUFFICES ASSUME v.found = 0, NEW k \in 1 .. (n + 1) PROVE ~TestMsg(mtype, msgs[k].type)
          BY Zenon
        <5>1. k \in 1 .. n \/ k = n + 1
          OBVIOUS
        <5> QED
          BY Zenon, <2>3, <3>1, <5>1 DEF WalkOK
      <4> HIDE DEF New
      <4> QED
        BY Zenon, <2>3, <4>1, <4>2, <4>3 DEF WalkOK
    <3>2. CASE ~(v.stop \/ ~TestMsg(v.mtype, msgs[n + 1].type))
      <4>1. New(n + 1, v).found = n + 1
        BY Zenon, <3>2
      <4> HIDE DEF New
      <4> QED
        BY <4>1 DEF WalkOK
    <3> QED
      BY Zenon, <3>1, <3>2
  <2> HIDE DEF New
  <2> QED
    BY Zenon, <2>1, <2>4, <2>5, <2>6
<1>18. 0 .. L \subseteq T
  <2> HIDE DEF T
  <2> QED
    BY Zenon, <1>16, <1>17, IntervalInduction
<1>19. WalkOK(w[L], msgs, mtype, L)
  <2>1. L \in 0 .. L
    OBVIOUS
  <2> QED
    BY Zenon, <1>18, <2>1
<1>20. FindMsg(msgs, mtype) = Walk(msgs, mtype)[Len(msgs)].found
  BY Zenon DEF FindMsg, Walk
<1>21. i = w[L].found
  BY Zenon, <1>1, <1>13, <1>20
<1>22. i \in 0 .. L /\ (i = 0 => \A k \in 1 .. L : ~TestMsg(mtype, msgs[k].type))
  BY Zenon, <1>19, <1>21 DEF WalkOK
<1>23. i = 0 => \A b \in Listed(msgs) : ~TestMsg(mtype, b.type)
  BY Zenon, <1>1, <1>22 DEF Listed
<1>24. i # 0 => i \in 1 .. Len(msgs)
  BY <1>1, <1>22
<1>25. i # 0 => msgs[i] \in Msgs
  BY <1>24
<1> QED
  BY Zenon, <1>23, <1>24, <1>25 DEF Listed

-----------------------------------------------------------------------------
(* What the types say.                                                        *)

\* A msg_queue is not NULL, and its lists are of messages and of threads.
LEMMA QueueFields ==
  ASSUME NEW q \in MsgQueues
  PROVE  /\ q.msgs \in Seq(Msgs) /\ q.receivers \in Seq(MsgThreads) /\ q.senders \in Seq(MsgThreads)
         /\ q.born \in 0 .. MaxQueues - 1 /\ q.seq \in 0 .. U16 - 1 /\ q.key \in Keys /\ q # NoQueue
BY Zenon, NoQueueIsNone DEF MsgQueues

\* A slot of msg_ids.entries that is not NULL has a queue.
LEMMA EntryIs ==
  ASSUME MsgTypeOK, NEW i \in Ids, entries[i] # NoQueue
  PROVE  entries[i] \in MsgQueues
BY Zenon DEF MsgTypeOK

\* get_msgq gives the queue in the slot of the id.
LEMMA HandleQueue ==
  ASSUME MsgTypeOK, NEW h \in Handles, NEW q, q = GetMsgq(h), q # NoQueue
  PROVE  h.id \in Ids /\ entries[h.id] = q /\ q \in MsgQueues
<1>1. h.id \in Ids
  BY Zenon DEF Handles
<1>2. entries[h.id] = q
  BY Zenon DEF GetMsgq
<1> QED
  BY Zenon, <1>1, <1>2, EntryIs

\* What a thread in a call has with it.
LEMMA ThreadFields ==
  ASSUME MsgTypeOK, NEW t \in MsgThreads
  PROVE  /\ th[t].pc \in {"idle", "full", "retry", "empty", "woken"}
         /\ th[t].pc \in {"full", "retry"} =>
              th[t].h \in Handles /\ th[t].m \in Msgs /\ th[t].on \in 0 .. MaxQueues - 1
         /\ th[t].pc = "empty" => th[t].h \in Handles /\ th[t].type \in RcvTypes /\ th[t].size \in MsgSizes
         /\ th[t].pc = "woken" => th[t].type \in RcvTypes /\ th[t].rmsg \in Msgs \cup {NullMsg, WildMsg}
<1>1. PICK x : x = th[t]
  BY Zenon
<1>2. x \in CallStates
  BY Zenon, <1>1 DEF MsgTypeOK
<1>3. CASE x = IdleThread
  BY <1>1, <1>3 DEF IdleThread
<1>4. CASE x \in [pc : {"full", "retry"}, h : Handles, m : Msgs, on : 0 .. MaxQueues - 1]
  BY Zenon, <1>1, <1>4
<1>5. CASE x \in [pc : {"empty"}, h : Handles, type : RcvTypes, size : MsgSizes]
  BY Zenon, <1>1, <1>5
<1>6. CASE x \in [pc : {"woken"}, type : RcvTypes, rmsg : Msgs \cup {NullMsg, WildMsg}]
  BY Zenon, <1>1, <1>6
<1> QED
  BY Zenon, <1>2, <1>3, <1>4, <1>5, <1>6 DEF CallStates

\* NULL and a pointer never set are no messages.
LEMMA NoMsgs == NullMsg \notin Msgs /\ WildMsg \notin Msgs /\ \A m \in Msgs : m.n >= 0 /\ m.n \in Int
BY DEF NullMsg, WildMsg, Msgs

\* The messages of the queues and of the threads, as two tables.
LEMMA ContentsTyped ==
  ASSUME MsgTypeOK
  PROVE  /\ QueueContents \in QueueSets /\ ThreadContents \in ThreadSets
         /\ done \in SUBSET Int /\ sends \in Int
         /\ \A i \in Ids : QueueContents[i] = InQueue(i)
         /\ \A t \in MsgThreads : ThreadContents[t] = Held(t)
<1>1. ASSUME NEW i \in Ids PROVE InQueue(i) \subseteq Msgs
  <2>1. CASE entries[i] = NoQueue
    BY Zenon, <2>1 DEF InQueue
  <2>2. CASE entries[i] # NoQueue
    <3>1. entries[i].msgs \in Seq(Msgs)
      BY Zenon, <2>2, EntryIs, QueueFields
    <3>2. Listed(entries[i].msgs) \subseteq Msgs
      BY <3>1 DEF Listed
    <3> QED
      BY Zenon, <2>2, <3>2 DEF InQueue
  <2> QED
    BY Zenon, <2>1, <2>2
<1>2. ASSUME NEW t \in MsgThreads PROVE Held(t) \subseteq Msgs
  BY Zenon, ThreadFields DEF Held
<1>3. done \in SUBSET Int /\ sends \in Int
  BY DEF MsgTypeOK
<1> QED
  BY Zenon, <1>1, <1>2, <1>3 DEF QueueContents, ThreadContents, QueueSets, ThreadSets

-----------------------------------------------------------------------------
(* The steps.                                                                 *)

MsgRest == OnLists /\ MessagesApart /\ BornOnce /\ NoMiss /\ WaitWhenFull /\ SendersOn

\* A step that only gives out an id, or stops the kernel, leaves the queues alone.
LEMMA QuietMsgStep ==
  ASSUME MsgRest, UNCHANGED <<entries, th, done, sends, created>>
  PROVE  MsgRest'
<1>1. OnLists'
  BY DEF MsgRest, OnLists
<1>2. MessagesApart'
  BY DEF MsgRest, MessagesApart, InPlace, Apart, Placed, QueueContents, ThreadContents, InQueue, Held
<1>3. BornOnce'
  BY DEF MsgRest, BornOnce
<1>4. NoMiss' /\ WaitWhenFull' /\ SendersOn'
  BY DEF MsgRest, NoMiss, WaitWhenFull, SendersOn, InQueue
<1> QED
  BY Zenon, <1>1, <1>2, <1>3, <1>4 DEF MsgRest

\* kill, and the steps that end the run, change nothing else.
LEMMA FlagStep ==
  ASSUME MsgIndInv, UNCHANGED <<entries, seq, handles, created, sends, th, done>>,
         mkilled' \subseteq MsgThreads, fault' \in {"none", "spin", "wild", "dangling"}
  PROVE  MsgIndInv'
<1>1. MsgTypeOK'
  BY Zenon DEF MsgIndInv, MsgTypeOK
<1>2. MsgRest'
  BY Zenon, QuietMsgStep DEF MsgIndInv, MsgRest
<1> QED
  BY Zenon, <1>1, <1>2 DEF MsgIndInv, MsgRest

\* A thread that does not sleep is on no list.
LEMMA AwakeUnlisted ==
  ASSUME MsgIndInv, NEW t, th[t].pc \notin {"empty", "full"}
  PROVE  Unlisted(t)
BY Zenon DEF MsgIndInv, OnLists, Unlisted

OneEntry(s, new) == \A i \in Ids : entries'[i] = IF i = s THEN new ELSE entries[i]

\* The types after a step that changes one slot.
LEMMA EntryTyped ==
  ASSUME MsgTypeOK, NEW s \in Ids, NEW new \in MsgQueues \cup {NoQueue},
         entries' = [entries EXCEPT ![s] = new]
  PROVE  entries' \in [Ids -> MsgQueues \cup {NoQueue}] /\ OneEntry(s, new)
<1>1. entries \in [Ids -> MsgQueues \cup {NoQueue}]
  BY Zenon DEF MsgTypeOK
<1> QED
  BY Zenon, <1>1 DEF OneEntry

\* The empty list.
LEMMA EmptyList == Listed(<<>>) = {} /\ Distinct(<<>>) /\ Len(<<>>) = 0
BY DEF Listed, Distinct

\* msgget of a key that has a queue.
LEMMA GetFoundKeeps ==
  ASSUME MsgIndInv, NEW key \in Keys, NEW found, found = IpcFindkey(key), found # {},
         handles' = handles \cup {IpcBuildin(Min(found), entries[Min(found)])},
         UNCHANGED <<entries, seq, created, sends, th, mkilled, done, fault>>
  PROVE  MsgIndInv'
<1>1. PICK i : i = Min(found)
  BY Zenon
<1>2. found \subseteq Ids /\ found \subseteq Nat
  BY MsgAssumption DEF IpcFindkey, Ids
<1>3. i \in found
  BY Zenon, <1>1, <1>2, MinOf
<1>4. i \in Ids /\ entries[i] # NoQueue
  BY Zenon, <1>2, <1>3 DEF IpcFindkey
<1>5. entries[i].seq \in 0 .. U16 - 1 /\ entries[i].born \in 0 .. MaxQueues - 1
  BY Zenon, <1>4, EntryIs, QueueFields DEF MsgIndInv
<1>6. IpcBuildin(i, entries[i]) \in Handles
  BY Zenon, <1>4, <1>5 DEF IpcBuildin, Handles
<1>7. MsgTypeOK'
  BY Zenon, <1>1, <1>6 DEF MsgIndInv, MsgTypeOK
<1>8. MsgRest'
  BY Zenon, QuietMsgStep DEF MsgIndInv, MsgRest
<1> QED
  BY Zenon, <1>7, <1>8 DEF MsgIndInv, MsgRest

\* newque: the new queue is empty and younger than all others.
LEMMA GetNewKeeps ==
  ASSUME MsgIndInv, NEW key \in Keys, FreeIds # {}, created < MaxQueues,
         entries' = [entries EXCEPT ![Min(FreeIds)] = NewQue(key)],
         handles' = handles \cup {IpcBuildin(Min(FreeIds), NewQue(key))},
         seq' = (seq + 1) % U16, created' = created + 1, UNCHANGED <<sends, th, mkilled, done, fault>>
  PROVE  MsgIndInv'
<1>1. PICK s, new : s = Min(FreeIds) /\ new = NewQue(key)
  BY Zenon
<1>2. s \in Ids /\ entries[s] = NoQueue
  <2>1. FreeIds \subseteq Nat
    BY MsgAssumption DEF FreeIds, Ids
  <2>2. s \in FreeIds
    BY Zenon, <1>1, <2>1, MinOf
  <2> QED
    BY Zenon, <2>2 DEF FreeIds
<1>3. /\ seq \in 0 .. U16 - 1 /\ created \in 0 .. MaxQueues - 1 /\ created' \in 0 .. MaxQueues
      /\ MaxQueues \in Nat /\ created \in Int
  BY MsgAssumption DEF MsgIndInv, MsgTypeOK
<1>4. /\ new \in MsgQueues /\ new.msgs = <<>> /\ new.receivers = <<>> /\ new.senders = <<>>
      /\ new.born = created /\ new.seq = seq
  BY <1>1, <1>3 DEF NewQue, MsgQueues
<1>5. entries' \in [Ids -> MsgQueues \cup {NoQueue}] /\ OneEntry(s, new)
  BY Zenon, <1>1, <1>2, <1>4, EntryTyped DEF MsgIndInv
<1>6. new # NoQueue
  BY Zenon, <1>4, QueueFields
<1>7. MsgTypeOK'
  <2>1. IpcBuildin(s, new) \in Handles
    BY Zenon, <1>2, <1>3, <1>4 DEF IpcBuildin, Handles
  <2>2. handles' \subseteq Handles
    BY Zenon, <1>1, <2>1 DEF MsgIndInv, MsgTypeOK
  <2>3. seq' \in 0 .. U16 - 1
    BY <1>3, MsgAssumption
  <2> QED
    BY Zenon, <1>3, <1>5, <2>2, <2>3 DEF MsgIndInv, MsgTypeOK
<1>8. OnLists'
  <2>1. ASSUME NEW i \in Ids, entries'[i] # NoQueue
        PROVE /\ Distinct(entries'[i].receivers) /\ Distinct(entries'[i].senders)
              /\ \A t \in Listed(entries'[i].receivers) : th'[t].pc = "empty" /\ th'[t].h.id = i
              /\ \A t \in Listed(entries'[i].senders) : th'[t].pc = "full" /\ th'[t].h.id = i
    <3>1. CASE i = s
      BY Zenon, <1>4, <1>5, <3>1, EmptyList DEF OneEntry
    <3>2. CASE i # s
      <4>1. entries'[i] = entries[i]
        BY Zenon, <1>5, <3>2 DEF OneEntry
      <4> QED
        BY Zenon, <2>1, <4>1 DEF MsgIndInv, OnLists
    <3> QED
      BY Zenon, <3>1, <3>2
  <2>2. ASSUME NEW t \in MsgThreads, th'[t].pc = "empty"
        PROVE  entries'[th'[t].h.id] # NoQueue /\ t \in Listed(entries'[th'[t].h.id].receivers)
    <3>1. th'[t] = th[t]
      BY Zenon
    <3>2. PICK i : i = th[t].h.id
      BY Zenon
    <3>3. i \in Ids
      BY Zenon, <2>2, <3>1, <3>2, ThreadFields DEF MsgIndInv, Handles
    <3>4. entries[i] # NoQueue /\ t \in Listed(entries[i].receivers)
      BY Zenon, <2>2, <3>1, <3>2 DEF MsgIndInv, OnLists
    <3>5. entries'[i] = entries[i]
      BY Zenon, <1>2, <1>5, <3>3, <3>4 DEF OneEntry
    <3> QED
      BY Zenon, <3>1, <3>2, <3>4, <3>5
  <2> QED
    BY Zenon, <2>1, <2>2 DEF OnLists
<1>9. \A i \in Ids : InQueue(i)' = InQueue(i)
  <2> SUFFICES ASSUME NEW i \in Ids PROVE InQueue(i)' = InQueue(i)
    BY Zenon
  <2>1. CASE i = s
    BY Zenon, <1>2, <1>4, <1>5, <1>6, <2>1, EmptyList DEF InQueue, OneEntry
  <2>2. CASE i # s
    BY Zenon, <1>5, <2>2 DEF InQueue, OneEntry
  <2> QED
    BY Zenon, <2>1, <2>2
<1>10. MessagesApart'
  <2>1. QueueContents' = QueueContents /\ ThreadContents' = ThreadContents
    BY Zenon, <1>9 DEF QueueContents, ThreadContents, Held
  <2>2. \A i \in Ids : entries'[i] # NoQueue => Distinct(entries'[i].msgs)
    BY Zenon, <1>4, <1>5, EmptyList DEF OneEntry, MsgIndInv, MessagesApart
  <2> QED
    BY Zenon, <2>1, <2>2 DEF MsgIndInv, MessagesApart
<1>11. BornOnce'
  <2>1. \A i \in Ids \ {s} : entries'[i] = entries[i]
    BY Zenon, <1>5 DEF OneEntry
  <2>2. \A i \in Ids : entries[i] # NoQueue => entries[i].born \in Int
    BY EntryIs, QueueFields DEF MsgIndInv
  <2>3. \A i \in Ids \ {s} : entries[i] # NoQueue => entries[i].born < created /\ entries[i].born # created
    BY <1>3, <2>2 DEF MsgIndInv, BornOnce
  <2>4. entries'[s] = new
    BY Zenon, <1>2, <1>5 DEF OneEntry
  <2>5. \A i \in Ids : entries'[i] # NoQueue => entries'[i].born < created'
    BY <1>3, <1>4, <2>1, <2>2, <2>3, <2>4
  <2>6. ASSUME NEW i \in Ids, NEW j \in Ids, entries'[i] # NoQueue, entries'[j] # NoQueue,
               entries'[i].born = entries'[j].born
        PROVE  i = j
    <3>1. CASE i # s /\ j # s
      BY Zenon, <2>1, <2>6, <3>1 DEF MsgIndInv, BornOnce
    <3>2. CASE i = s \/ j = s
      BY ZenonT(60), <1>4, <2>1, <2>3, <2>4, <2>6, <3>2
    <3> QED
      BY Zenon, <3>1, <3>2
  <2> QED
    BY Zenon, <2>5, <2>6 DEF BornOnce
<1>12. NoMiss' /\ WaitWhenFull'
  <2>1. NoMiss'
    <3> SUFFICES ASSUME NEW i \in Ids, entries'[i] # NoQueue,
                        NEW t \in Listed(entries'[i].receivers), NEW a \in InQueue(i)'
                 PROVE  ~TestMsg(th'[t].type, a.type)
      BY Zenon DEF NoMiss
    <3>1. i # s
      BY Zenon, <1>4, <1>5, EmptyList DEF OneEntry
    <3>2. entries'[i] = entries[i]
      BY Zenon, <1>5, <3>1 DEF OneEntry
    <3> QED
      BY Zenon, <1>9, <3>2 DEF MsgIndInv, NoMiss
  <2>2. ASSUME NEW i \in Ids, entries'[i] # NoQueue
        PROVE Len(entries'[i].msgs) <= MaxMsg /\ (entries'[i].senders # <<>> => Len(entries'[i].msgs) = MaxMsg)
    <3>1. CASE i = s
      <4>1. 0 <= MaxMsg
        BY MsgAssumption
      <4> QED
        BY Zenon, <1>4, <1>5, <3>1, <4>1, EmptyList DEF OneEntry
    <3>2. CASE i # s
      <4>1. entries'[i] = entries[i]
        BY Zenon, <1>5, <3>2 DEF OneEntry
      <4> QED
        BY Zenon, <2>2, <4>1 DEF MsgIndInv, WaitWhenFull
    <3> QED
      BY Zenon, <3>1, <3>2
  <2> QED
    BY Zenon, <2>1, <2>2 DEF WaitWhenFull
<1>13. SendersOn'
  <2> SUFFICES ASSUME NEW t \in MsgThreads, th[t].pc = "full"
               PROVE  /\ th[t].on < created'
                      /\ \A i \in Ids : entries'[i] # NoQueue /\ entries'[i].born = th[t].on
                            => t \in Listed(entries'[i].senders)
    BY Zenon DEF SendersOn
  <2>1. th[t].on < created /\ th[t].on \in Int
    BY ThreadFields DEF MsgIndInv, SendersOn
  <2>2. th[t].on < created' /\ th[t].on # created
    BY <1>3, <2>1
  <2>3. ASSUME NEW i \in Ids, entries'[i] # NoQueue, entries'[i].born = th[t].on
        PROVE  t \in Listed(entries'[i].senders)
    <3>1. i # s
      BY Zenon, <1>4, <1>5, <2>2, <2>3 DEF OneEntry
    <3>2. entries'[i] = entries[i]
      BY Zenon, <1>5, <3>1 DEF OneEntry
    <3> QED
      BY Zenon, <2>3, <3>2 DEF MsgIndInv, SendersOn
  <2> QED
    BY Zenon, <2>2, <2>3
<1> QED
  BY Zenon, <1>7, <1>8, <1>10, <1>11, <1>12, <1>13 DEF MsgIndInv

\* What a call leaves in the slot s: no queue, or one whose lists are of the threads
\* that sleep on it, with no message that a waiting receiver wants and no sender
\* waiting without need.
GoodQueue(s, new) ==
    new # NoQueue =>
        /\ new \in MsgQueues /\ entries[s] # NoQueue /\ new.born = entries[s].born
        /\ Distinct(new.receivers) /\ Distinct(new.senders) /\ Distinct(new.msgs)
        /\ \A t \in Listed(new.receivers) : th'[t].pc = "empty" /\ th'[t].h.id = s
        /\ \A t \in Listed(new.senders) : th'[t].pc = "full" /\ th'[t].h.id = s
        /\ \A t \in Listed(new.receivers), a \in Listed(new.msgs) : ~TestMsg(th'[t].type, a.type)
        /\ Len(new.msgs) <= MaxMsg /\ (new.senders # <<>> => Len(new.msgs) = MaxMsg)

\* The threads that sleep on other queues sleep on.  A receiver that sleeps is on the
\* list of the new queue, or sleeps on another one as before; a sender that sleeps
\* has joined the new queue, or sleeps as before and is still on its list.
GoodThreads(s, new) ==
    /\ \A u \in MsgThreads : th[u].pc \in {"empty", "full"} /\ th[u].h.id # s => th'[u] = th[u] \/ Unlisted(u)
    /\ \A u \in MsgThreads : th'[u].pc = "empty" =>
        \/ new # NoQueue /\ th'[u].h.id = s /\ u \in Listed(new.receivers)
        \/ th'[u] = th[u] /\ th[u].h.id # s
    /\ \A u \in MsgThreads : th'[u].pc = "full" =>
        \/ new # NoQueue /\ th'[u].on = new.born /\ u \in Listed(new.senders)
        \/ th'[u] = th[u] /\ (new # NoQueue /\ u \in Listed(entries[s].senders) => u \in Listed(new.senders))

\* A call changes one slot of the table and the threads on its lists, and keeps the
\* rest of the invariant.
LEMMA QueueStepKeeps ==
  ASSUME MsgIndInv, NEW s \in Ids, NEW new, OneEntry(s, new), GoodQueue(s, new), GoodThreads(s, new),
         InPlace(QueueContents', ThreadContents', done', sends'), created' = created
  PROVE  MsgRest'
<1>1. ASSUME NEW i \in Ids, i # s PROVE entries'[i] = entries[i]
  BY Zenon, <1>1 DEF OneEntry
<1>2. entries'[s] = new
  BY Zenon DEF OneEntry
<1>3. ASSUME NEW i \in Ids, i # s, entries[i] # NoQueue
      PROVE  /\ \A t \in Listed(entries[i].receivers) : t \in MsgThreads /\ th'[t] = th[t]
             /\ \A t \in Listed(entries[i].senders) : t \in MsgThreads /\ th'[t] = th[t]
  <2>1. entries[i].receivers \in Seq(MsgThreads) /\ entries[i].senders \in Seq(MsgThreads)
    BY Zenon, <1>3, EntryIs, QueueFields DEF MsgIndInv
  <2>2. Listed(entries[i].receivers) \subseteq MsgThreads /\ Listed(entries[i].senders) \subseteq MsgThreads
    BY <2>1 DEF Listed
  <2>3. \A t \in Listed(entries[i].receivers) : th[t].pc = "empty" /\ th[t].h.id = i
    BY Zenon, <1>3 DEF MsgIndInv, OnLists
  <2>4. \A t \in Listed(entries[i].senders) : th[t].pc = "full" /\ th[t].h.id = i
    BY Zenon, <1>3 DEF MsgIndInv, OnLists
  <2>5. /\ \A t \in Listed(entries[i].receivers) : ~Unlisted(t)
        /\ \A t \in Listed(entries[i].senders) : ~Unlisted(t)
    BY Zenon, <1>3 DEF Unlisted
  <2> QED
    BY Zenon, <1>3, <2>2, <2>3, <2>4, <2>5 DEF GoodThreads
<1>4. OnLists'
  <2>1. ASSUME NEW i \in Ids, entries'[i] # NoQueue
        PROVE /\ Distinct(entries'[i].receivers) /\ Distinct(entries'[i].senders)
              /\ \A t \in Listed(entries'[i].receivers) : th'[t].pc = "empty" /\ th'[t].h.id = i
              /\ \A t \in Listed(entries'[i].senders) : th'[t].pc = "full" /\ th'[t].h.id = i
    <3>1. CASE i = s
      BY Zenon, <1>2, <2>1, <3>1 DEF GoodQueue
    <3>2. CASE i # s
      <4>1. entries'[i] = entries[i]
        BY Zenon, <1>1, <3>2
      <4>2. /\ \A t \in Listed(entries[i].receivers) : th'[t] = th[t]
            /\ \A t \in Listed(entries[i].senders) : th'[t] = th[t]
        BY Zenon, <1>3, <2>1, <3>2, <4>1
      <4>3. /\ Distinct(entries[i].receivers) /\ Distinct(entries[i].senders)
            /\ \A t \in Listed(entries[i].receivers) : th[t].pc = "empty" /\ th[t].h.id = i
            /\ \A t \in Listed(entries[i].senders) : th[t].pc = "full" /\ th[t].h.id = i
        BY Zenon, <2>1, <4>1 DEF MsgIndInv, OnLists
      <4> QED
        BY Zenon, <4>1, <4>2, <4>3
    <3> QED
      BY Zenon, <3>1, <3>2
  <2>2. ASSUME NEW t \in MsgThreads, th'[t].pc = "empty"
        PROVE  entries'[th'[t].h.id] # NoQueue /\ t \in Listed(entries'[th'[t].h.id].receivers)
    <3>1. CASE new # NoQueue /\ th'[t].h.id = s /\ t \in Listed(new.receivers)
      BY Zenon, <1>2, <3>1
    <3>2. CASE th'[t] = th[t] /\ th[t].h.id # s
      <4>1. PICK i : i = th[t].h.id
        BY Zenon
      <4>2. i \in Ids
        BY Zenon, <2>2, <3>2, <4>1, ThreadFields DEF MsgIndInv, Handles
      <4>3. entries[i] # NoQueue /\ t \in Listed(entries[i].receivers)
        BY Zenon, <2>2, <3>2, <4>1 DEF MsgIndInv, OnLists
      <4>4. entries'[i] = entries[i]
        BY Zenon, <1>1, <3>2, <4>1, <4>2
      <4> QED
        BY Zenon, <3>2, <4>1, <4>3, <4>4
    <3> QED
      BY Zenon, <2>2, <3>1, <3>2 DEF GoodThreads
  <2> QED
    BY Zenon, <2>1, <2>2 DEF OnLists
<1>5. MessagesApart'
  <2>1. \A i \in Ids : entries'[i] # NoQueue => Distinct(entries'[i].msgs)
    BY Zenon, <1>1, <1>2 DEF GoodQueue, MsgIndInv, MessagesApart
  <2> QED
    BY Zenon, <2>1 DEF MessagesApart
<1>6. BornOnce'
  <2>1. \A i \in Ids : entries'[i] # NoQueue => entries[i] # NoQueue /\ entries'[i].born = entries[i].born
    BY Zenon, <1>1, <1>2 DEF GoodQueue
  <2> QED
    BY Zenon, <2>1 DEF MsgIndInv, BornOnce
<1>7. NoMiss'
  <2> SUFFICES ASSUME NEW i \in Ids, entries'[i] # NoQueue,
                      NEW t \in Listed(entries'[i].receivers), NEW a \in InQueue(i)'
               PROVE  ~TestMsg(th'[t].type, a.type)
    BY Zenon DEF NoMiss
  <2>1. a \in Listed(entries'[i].msgs)
    BY Zenon DEF InQueue
  <2>2. CASE i = s
    BY Zenon, <1>2, <2>1, <2>2 DEF GoodQueue
  <2>3. CASE i # s
    <3>1. entries'[i] = entries[i]
      BY Zenon, <1>1, <2>3
    <3>2. th'[t] = th[t]
      BY Zenon, <1>3, <2>3, <3>1
    <3>3. a \in InQueue(i)
      BY Zenon, <2>1, <3>1 DEF InQueue
    <3> QED
      BY Zenon, <3>1, <3>2, <3>3 DEF MsgIndInv, NoMiss
  <2> QED
    BY Zenon, <2>2, <2>3
<1>8. WaitWhenFull'
  BY Zenon, <1>1, <1>2 DEF GoodQueue, MsgIndInv, WaitWhenFull
<1>9. SendersOn'
  <2> SUFFICES ASSUME NEW u \in MsgThreads, th'[u].pc = "full"
               PROVE  /\ th'[u].on < created
                      /\ \A i \in Ids : entries'[i] # NoQueue /\ entries'[i].born = th'[u].on
                            => u \in Listed(entries'[i].senders)
    BY Zenon DEF SendersOn
  <2>1. CASE new # NoQueue /\ th'[u].on = new.born /\ u \in Listed(new.senders)
    <3>1. \A i \in Ids : entries'[i] # NoQueue /\ entries'[i].born = th'[u].on => i = s
      BY Zenon, <1>2, <1>6, <2>1 DEF BornOnce
    <3>2. th'[u].on < created
      BY Zenon, <1>2, <1>6, <2>1 DEF BornOnce
    <3> QED
      BY Zenon, <1>2, <2>1, <3>1, <3>2
  <2>2. CASE th'[u] = th[u] /\ (new # NoQueue /\ u \in Listed(entries[s].senders) => u \in Listed(new.senders))
    <3>1. /\ th[u].on < created
          /\ \A i \in Ids : entries[i] # NoQueue /\ entries[i].born = th[u].on => u \in Listed(entries[i].senders)
      BY Zenon, <2>2 DEF MsgIndInv, SendersOn
    <3>2. ASSUME NEW i \in Ids, entries'[i] # NoQueue, entries'[i].born = th[u].on
          PROVE  u \in Listed(entries'[i].senders)
      <4>1. CASE i = s
        BY Zenon, <1>2, <2>2, <3>1, <3>2, <4>1 DEF GoodQueue
      <4>2. CASE i # s
        BY Zenon, <1>1, <3>1, <3>2, <4>2
      <4> QED
        BY Zenon, <4>1, <4>2
    <3> QED
      BY Zenon, <2>2, <3>1, <3>2
  <2> QED
    BY Zenon, <2>1, <2>2 DEF GoodThreads
<1> QED
  BY Zenon, <1>4, <1>5, <1>6, <1>7, <1>8, <1>9 DEF MsgRest

\* A step of one thread that is on no list and does not go to sleep.
LEMMA ThreadStepKeeps ==
  ASSUME MsgIndInv, UNCHANGED <<entries, created>>, NEW t \in MsgThreads, Unlisted(t),
         th'[t].pc \notin {"empty", "full"}, \A u \in MsgThreads \ {t} : th'[u] = th[u],
         InPlace(QueueContents', ThreadContents', done', sends')
  PROVE  MsgRest'
<1>1. ASSUME NEW i \in Ids, entries[i] # NoQueue
      PROVE  /\ \A u \in Listed(entries[i].receivers) : th'[u] = th[u]
             /\ \A u \in Listed(entries[i].senders) : th'[u] = th[u]
  <2>1. entries[i].receivers \in Seq(MsgThreads) /\ entries[i].senders \in Seq(MsgThreads)
    BY Zenon, <1>1, EntryIs, QueueFields DEF MsgIndInv
  <2>2. Listed(entries[i].receivers) \subseteq MsgThreads /\ Listed(entries[i].senders) \subseteq MsgThreads
    BY <2>1 DEF Listed
  <2>3. t \notin Listed(entries[i].receivers) /\ t \notin Listed(entries[i].senders)
    BY Zenon, <1>1 DEF Unlisted
  <2> QED
    BY Zenon, <2>2, <2>3
<1>2. OnLists'
  <2>1. ASSUME NEW i \in Ids, entries[i] # NoQueue
        PROVE /\ Distinct(entries[i].receivers) /\ Distinct(entries[i].senders)
              /\ \A u \in Listed(entries[i].receivers) : th'[u].pc = "empty" /\ th'[u].h.id = i
              /\ \A u \in Listed(entries[i].senders) : th'[u].pc = "full" /\ th'[u].h.id = i
    BY <1>1, <2>1 DEF MsgIndInv, OnLists
  <2>2. ASSUME NEW u \in MsgThreads, th'[u].pc = "empty"
        PROVE  entries[th'[u].h.id] # NoQueue /\ u \in Listed(entries[th'[u].h.id].receivers)
    BY Zenon, <2>2 DEF MsgIndInv, OnLists
  <2> QED
    BY Zenon, <2>1, <2>2 DEF OnLists
<1>3. NoMiss'
  BY Zenon, <1>1 DEF MsgIndInv, NoMiss, InQueue
<1>4. MessagesApart' /\ BornOnce' /\ WaitWhenFull'
  BY Zenon DEF MsgIndInv, MessagesApart, BornOnce, WaitWhenFull
<1>5. SendersOn'
  BY Zenon DEF MsgIndInv, SendersOn
<1> QED
  BY Zenon, <1>2, <1>3, <1>4, <1>5 DEF MsgRest

\* The threads on the lists of the queue q in slot s, and what they wait for.
QueueFacts(s, q) ==
    /\ q \in MsgQueues
    /\ Distinct(q.receivers) /\ Distinct(q.senders) /\ Distinct(q.msgs)
    /\ \A t \in Listed(q.receivers) :
         t \in MsgThreads /\ th[t].pc = "empty" /\ th[t].h.id = s /\ th[t].h \in Handles /\ th[t].type \in RcvTypes
    /\ \A t \in Listed(q.senders) : t \in MsgThreads /\ th[t].pc = "full" /\ th[t].h.id = s
    /\ \A t \in MsgThreads : th[t].pc = "empty" /\ th[t].h.id = s => t \in Listed(q.receivers)
    /\ \A t \in Listed(q.receivers), a \in Listed(q.msgs) : ~TestMsg(th[t].type, a.type)
    /\ Len(q.msgs) <= MaxMsg /\ (q.senders # <<>> => Len(q.msgs) = MaxMsg)

\* The threads on a queue's lists.
LEMMA OnQueue ==
  ASSUME MsgIndInv, NEW s \in Ids, NEW q, entries[s] = q, q # NoQueue
  PROVE  QueueFacts(s, q)
<1>1. q \in MsgQueues
  BY Zenon, EntryIs DEF MsgIndInv
<1>2. q.receivers \in Seq(MsgThreads) /\ q.senders \in Seq(MsgThreads)
  BY Zenon, <1>1, QueueFields
<1>3. Listed(q.receivers) \subseteq MsgThreads /\ Listed(q.senders) \subseteq MsgThreads
  BY <1>2 DEF Listed
<1>4. /\ \A t \in Listed(q.receivers) : th[t].pc = "empty" /\ th[t].h.id = s
      /\ \A t \in Listed(q.senders) : th[t].pc = "full" /\ th[t].h.id = s
      /\ Distinct(q.receivers) /\ Distinct(q.senders)
  BY Zenon DEF MsgIndInv, OnLists
<1>5. \A t \in Listed(q.receivers) : th[t].h \in Handles /\ th[t].type \in RcvTypes
  BY Zenon, <1>3, <1>4, ThreadFields DEF MsgIndInv
<1>6. \A t \in MsgThreads : th[t].pc = "empty" /\ th[t].h.id = s => t \in Listed(q.receivers)
  BY Zenon DEF MsgIndInv, OnLists
<1>7. \A t \in Listed(q.receivers), a \in Listed(q.msgs) : ~TestMsg(th[t].type, a.type)
  BY Zenon DEF MsgIndInv, NoMiss, InQueue
<1>8. /\ Len(q.msgs) <= MaxMsg /\ (q.senders # <<>> => Len(q.msgs) = MaxMsg)
      /\ Distinct(q.msgs)
  BY Zenon DEF MsgIndInv, WaitWhenFull, MessagesApart
<1> QED
  BY Zenon, <1>1, <1>3, <1>4, <1>5, <1>6, <1>7, <1>8 DEF QueueFacts

\* The messages in the slots after a step that changes one of them.
LEMMA NewQueueContents ==
  ASSUME NEW s \in Ids, NEW new, OneEntry(s, new)
  PROVE  /\ QueueContents'[s] = IF new = NoQueue THEN {} ELSE Listed(new.msgs)
         /\ \A i \in Ids \ {s} : QueueContents'[i] = QueueContents[i]
BY Zenon DEF QueueContents, InQueue, OneEntry

\* A step that only changes the lists of threads leaves the messages in the queues.
LEMMA SameQueueContents ==
  ASSUME NEW s \in Ids, NEW q, q = entries[s], q # NoQueue,
         NEW new, OneEntry(s, new), new # NoQueue, new.msgs = q.msgs
  PROVE  QueueContents' = QueueContents
<1> SUFFICES ASSUME NEW i \in Ids PROVE InQueue(i)' = InQueue(i)
  BY Zenon DEF QueueContents
<1>1. CASE i = s
  <2>1. entries'[i] = new
    BY Zenon, <1>1 DEF OneEntry
  <2>2. InQueue(i)' = Listed(new.msgs)
    BY Zenon, <2>1 DEF InQueue
  <2>3. InQueue(i) = Listed(q.msgs)
    BY Zenon, <1>1 DEF InQueue
  <2> QED
    BY Zenon, <2>2, <2>3
<1>2. CASE i # s
  BY Zenon, <1>2 DEF OneEntry, InQueue
<1> QED
  BY Zenon, <1>1, <1>2

\* A queue that goes takes its messages with it, all of them freed (freeque).
LEMMA QueueFreed ==
  ASSUME NEW Q, NEW H, NEW Q2, NEW d, NEW d2, NEW s, InPlace(Q, H, d, s), NEW i \in Ids,
         Q2[i] = {}, \A j \in Ids \ {i} : Q2[j] = Q[j], d2 = d \cup {a.n : a \in Q[i]}
  PROVE  InPlace(Q2, H, d2, s)
<1>0. Apart(Q, H, d, s)
  BY Zenon DEF InPlace
<1>1. \A j \in Ids : \A a \in Q2[j] : j # i /\ a \in Q[j]
  BY Zenon
<1>2. \A j \in Ids : \A a \in Q2[j] : a.n < s /\ a.n \notin d2
  <2> SUFFICES ASSUME NEW j \in Ids, NEW a \in Q2[j] PROVE a.n < s /\ a.n \notin d2
    BY Zenon
  <2>1. j # i /\ a \in Q[j]
    BY Zenon, <1>1
  <2>2. \A b \in Q[i] : a.n # b.n
    BY Zenon, <1>0, <2>1 DEF Apart
  <2>3. a.n < s /\ a.n \notin d
    BY Zenon, <1>0, <2>1 DEF Apart
  <2> QED
    BY Zenon, <2>2, <2>3
<1>3. \A t \in MsgThreads : \A a \in H[t] : a.n < s /\ a.n \notin d2
  <2> SUFFICES ASSUME NEW t \in MsgThreads, NEW a \in H[t] PROVE a.n < s /\ a.n \notin d2
    BY Zenon
  <2>1. \A b \in Q[i] : b.n # a.n
    BY <1>0 DEF Apart
  <2>2. a.n < s /\ a.n \notin d
    BY Zenon, <1>0 DEF Apart
  <2> QED
    BY Zenon, <2>1, <2>2
<1>4. \A n \in d2 : n < s
  BY <1>0 DEF Apart
<1>5. \A j, k \in Ids : \A a \in Q2[j], b \in Q2[k] : a.n = b.n => j = k /\ a = b
  BY <1>0, <1>1 DEF Apart
<1>6. \A j \in Ids, t \in MsgThreads : \A a \in Q2[j], b \in H[t] : a.n # b.n
  BY <1>0, <1>1 DEF Apart
<1>7. \A t, u \in MsgThreads : \A a \in H[t], b \in H[u] : a.n = b.n => t = u
  BY Zenon, <1>0 DEF Apart
<1>8. Apart(Q2, H, d2, s)
  BY Zenon, <1>2, <1>3, <1>4, <1>5, <1>6, <1>7 DEF Apart
<1>9. ASSUME NEW n \in 0 .. s - 1 PROVE Placed(n, Q2, H, d2)
  <2>1. Placed(n, Q, H, d)
    BY Zenon, <1>9 DEF InPlace
  <2>2. ASSUME NEW j \in Ids, NEW a \in Q[j], a.n = n PROVE Placed(n, Q2, H, d2)
    <3>1. CASE j = i
      BY Zenon, <2>2, <3>1 DEF Placed
    <3>2. CASE j # i
      BY Zenon, <2>2, <3>2 DEF Placed
    <3> QED
      BY Zenon, <3>1, <3>2
  <2> QED
    BY Zenon, <2>1, <2>2 DEF Placed
<1> QED
  BY Zenon, <1>8, <1>9 DEF InPlace

\* freeque: no receiver of the queue sleeps on.
LEMMA FreequeKeeps ==
  ASSUME MsgIndInv, NEW h \in handles, Freeque(h)
  PROVE  MsgIndInv'
<1>1. PICK q : q = GetMsgq(h)
  BY Zenon
<1>2. h \in Handles
  BY Zenon DEF MsgIndInv, MsgTypeOK
<1>3. q # NoQueue
  BY Zenon, <1>1 DEF Freeque
<1>4. PICK s \in Ids : s = h.id /\ entries[s] = q /\ q \in MsgQueues
  <2>1. h.id \in Ids /\ entries[h.id] = q /\ q \in MsgQueues
    BY <1>1, <1>2, <1>3, HandleQueue DEF MsgIndInv
  <2> QED
    BY Zenon, <2>1
<1>5. PICK garbage \in [Listed(q.receivers) -> {NullMsg, WildMsg}] :
        th' = [t \in MsgThreads |->
                IF t \in Listed(q.receivers) THEN [pc |-> "woken", type |-> th[t].type, rmsg |-> garbage[t]]
                ELSE th[t]]
  BY Zenon, <1>1 DEF Freeque
<1>6. entries' \in [Ids -> MsgQueues \cup {NoQueue}] /\ OneEntry(s, NoQueue)
  <2>1. entries' = [entries EXCEPT ![s] = NoQueue]
    BY Zenon, <1>4 DEF Freeque
  <2> QED
    BY Zenon, <2>1, EntryTyped DEF MsgIndInv
<1>7. ASSUME NEW u \in Listed(q.receivers)
      PROVE  /\ u \in MsgThreads /\ th[u].pc = "empty" /\ th[u].h.id = s /\ th[u].type \in RcvTypes
             /\ garbage[u] \in {NullMsg, WildMsg}
             /\ th'[u] = [pc |-> "woken", type |-> th[u].type, rmsg |-> garbage[u]]
  <2>1. u \in MsgThreads /\ th[u].pc = "empty" /\ th[u].h.id = s /\ th[u].type \in RcvTypes
    <3>1. QueueFacts(s, q)
      BY Zenon, <1>3, <1>4, <1>7, OnQueue
    <3> QED
      BY Zenon, <3>1 DEF QueueFacts
  <2> QED
    BY Zenon, <1>5, <1>7, <2>1
<1>8. \A u \in MsgThreads : u \notin Listed(q.receivers) => th'[u] = th[u]
  BY Zenon, <1>5
<1>9. ASSUME NEW u \in Listed(q.receivers) PROVE th'[u] \in CallStates /\ th'[u].pc = "woken" /\ th'[u].rmsg \notin Msgs
  <2>1. [pc |-> "woken", type |-> th[u].type, rmsg |-> garbage[u]]
          \in [pc : {"woken"}, type : RcvTypes, rmsg : Msgs \cup {NullMsg, WildMsg}]
    BY Zenon, <1>7, <1>9
  <2>2. th'[u] = [pc |-> "woken", type |-> th[u].type, rmsg |-> garbage[u]] /\ garbage[u] \in {NullMsg, WildMsg}
    BY Zenon, <1>7, <1>9
  <2>3. th'[u].pc = "woken" /\ th'[u].rmsg = garbage[u]
    BY <2>2
  <2>4. th'[u] \in CallStates
    BY Zenon, <2>1, <2>2 DEF CallStates
  <2> QED
    BY Zenon, <2>2, <2>3, <2>4, NoMsgs
<1>10. done' = done \cup {a.n : a \in Listed(q.msgs)}
  <2>1. q.msgs \in Seq(Msgs)
    BY Zenon, <1>4, QueueFields
  <2>2. Listed(q.msgs) = {q.msgs[k] : k \in DOMAIN q.msgs}
    BY <2>1 DEF Listed
  <2>3. {a.n : a \in Listed(q.msgs)} = {q.msgs[k].n : k \in DOMAIN q.msgs}
    BY Zenon, <2>2
  <2> QED
    BY ZenonT(60), <1>1, <2>3 DEF Freeque, FreeMsgs
<1>11. MsgTypeOK'
  <2>1. th' \in [MsgThreads -> CallStates]
    <3>1. \A u \in MsgThreads : th'[u] \in CallStates
      BY Zenon, <1>8, <1>9 DEF MsgIndInv, MsgTypeOK
    <3>2. th' = [u \in MsgThreads |-> th'[u]]
      BY Zenon, <1>5
    <3> QED
      BY Zenon, <3>1, <3>2
  <2>2. done' \subseteq 0 .. MaxSends - 1
    <3>1. q.msgs \in Seq(Msgs)
      BY Zenon, <1>4, QueueFields
    <3>2. \A a \in Listed(q.msgs) : a \in Msgs
      BY <3>1 DEF Listed
    <3>3. \A a \in Listed(q.msgs) : a.n \in 0 .. MaxSends - 1
      BY Zenon, <3>2 DEF Msgs
    <3> QED
      BY Zenon, <1>10, <3>3 DEF MsgIndInv, MsgTypeOK
  <2> QED
    BY Zenon, <1>6, <2>1, <2>2 DEF Freeque, MsgIndInv, MsgTypeOK
<1>12. InPlace(QueueContents', ThreadContents', done', sends')
  <2>1. \A u \in MsgThreads : Held(u)' = Held(u)
    <3> SUFFICES ASSUME NEW u \in MsgThreads PROVE Held(u)' = Held(u)
      BY Zenon
    <3>1. CASE u \notin Listed(q.receivers)
      BY Zenon, <1>8, <3>1 DEF Held
    <3>2. CASE u \in Listed(q.receivers)
      <4>1. Held(u)' = {}
        BY Zenon, <1>9, <3>2 DEF Held
      <4>2. Held(u) = {}
        BY Zenon, <1>7, <3>2 DEF Held
      <4> QED
        BY Zenon, <4>1, <4>2
    <3> QED
      BY Zenon, <3>1, <3>2
  <2>2. ThreadContents' = ThreadContents
    BY Zenon, <2>1 DEF ThreadContents
  <2>3. QueueContents[s] = Listed(q.msgs)
    BY Zenon, <1>3, <1>4 DEF QueueContents, InQueue
  <2>4. QueueContents'[s] = {} /\ \A i \in Ids \ {s} : QueueContents'[i] = QueueContents[i]
    BY Zenon, <1>6, NewQueueContents
  <2>5. InPlace(QueueContents', ThreadContents, done', sends)
    BY Zenon, <1>10, <2>3, <2>4, QueueFreed DEF MsgIndInv, MessagesApart
  <2> QED
    BY Zenon, <2>2, <2>5 DEF Freeque
<1>13. GoodThreads(s, NoQueue)
  <2>1. \A u \in MsgThreads : th[u].pc \in {"empty", "full"} /\ th[u].h.id # s => th'[u] = th[u]
    BY Zenon, <1>7, <1>8
  <2>2. ASSUME NEW u \in MsgThreads, th'[u].pc = "empty" PROVE th'[u] = th[u] /\ th[u].h.id # s
    <3>1. u \notin Listed(q.receivers)
      BY Zenon, <1>9, <2>2
    <3>2. th'[u] = th[u]
      BY Zenon, <1>8, <3>1
    <3>3. \A v \in MsgThreads : th[v].pc = "empty" /\ th[v].h.id = s => v \in Listed(q.receivers)
      <4>1. QueueFacts(s, q)
        BY Zenon, <1>3, <1>4, OnQueue
      <4> QED
        BY Zenon, <4>1 DEF QueueFacts
    <3> QED
      BY Zenon, <2>2, <3>1, <3>2, <3>3
  <2>4. \A u \in MsgThreads : th'[u].pc = "full" => th'[u] = th[u]
    BY Zenon, <1>8, <1>9
  <2> QED
    BY Zenon, <2>1, <2>2, <2>4 DEF GoodThreads
<1>14. MsgRest'
  BY Zenon, <1>6, <1>12, <1>13, QueueStepKeeps DEF GoodQueue, Freeque
<1> QED
  BY Zenon, <1>11, <1>14 DEF MsgIndInv, MsgRest

\* The end of msgrcv: the message the thread has goes to the freed ones.
LEMMA ReceivedKeeps ==
  ASSUME MsgIndInv, NEW t \in MsgThreads, Received(t)
  PROVE  MsgIndInv'
<1>1. /\ th[t].pc = "woken" /\ th' = [th EXCEPT ![t] = IdleThread]
      /\ UNCHANGED <<entries, seq, handles, created, sends, mkilled>>
  BY Zenon DEF Received
<1>2. th \in [MsgThreads -> CallStates]
  BY Zenon DEF MsgIndInv, MsgTypeOK
<1>3. th' \in [MsgThreads -> CallStates] /\ th'[t] = IdleThread /\ \A u \in MsgThreads \ {t} : th'[u] = th[u]
  <2>1. IdleThread \in CallStates
    BY Zenon DEF CallStates
  <2> QED
    BY Zenon, <1>1, <1>2, <2>1
<1>4. IdleThread.pc = "idle"
  BY Zenon DEF IdleThread
<1>5. /\ Held(t)' = {} /\ \A u \in MsgThreads \ {t} : Held(u)' = Held(u)
      /\ Held(t) = IF th[t].rmsg \in Msgs THEN {th[t].rmsg} ELSE {}
  <2>1. Held(t)' = {}
    BY Zenon, <1>3, <1>4 DEF Held
  <2>2. Held(t) = IF th[t].rmsg \in Msgs THEN {th[t].rmsg} ELSE {}
    BY Zenon, <1>1 DEF Held
  <2> QED
    BY Zenon, <1>3, <2>1, <2>2 DEF Held
<1>6. QueueContents' = QueueContents
  BY Zenon, <1>1 DEF QueueContents, InQueue
<1>7. ThreadContents'[t] = {} /\ \A u \in MsgThreads \ {t} : ThreadContents'[u] = ThreadContents[u]
  BY Zenon, <1>5 DEF ThreadContents
<1>8. Apart(QueueContents, ThreadContents', done, sends) /\ Smaller(QueueContents, ThreadContents', QueueContents, ThreadContents)
  <2>1. Smaller(QueueContents, ThreadContents', QueueContents, ThreadContents)
    BY Zenon, <1>7 DEF Smaller
  <2>2. QueueContents \in QueueSets /\ ThreadContents \in ThreadSets /\ done \in SUBSET Int /\ sends \in Int
    BY Zenon, ContentsTyped DEF MsgIndInv
  <2>3. ThreadContents' \in ThreadSets
    <3>1. \A u \in MsgThreads : Held(u)' \subseteq Msgs
      BY Zenon, <1>7, <2>2 DEF ThreadSets, ThreadContents
    <3> QED
      BY Zenon, <3>1 DEF ThreadContents, ThreadSets
  <2>4. sends <= sends
    BY <2>2
  <2> QED
    BY Zenon, <2>1, <2>2, <2>3, <2>4, ApartShrinks DEF MsgIndInv, MessagesApart, InPlace
<1>9. /\ InPlace(QueueContents, ThreadContents', done', sends)
      /\ done' \subseteq 0 .. MaxSends - 1 /\ fault' \in {"none", "spin", "wild", "dangling"}
  <2>1. CASE /\ th[t].rmsg = NullMsg \/ th[t].rmsg = WildMsg
             /\ UNCHANGED done /\ (UNCHANGED fault \/ fault' = "wild")
    <3>1. ThreadContents' = ThreadContents
      BY Zenon, <1>5, <2>1, NoMsgs DEF ThreadContents
    <3> QED
      BY Zenon, <2>1, <3>1 DEF MsgIndInv, MsgTypeOK, MessagesApart
  <2>2. CASE th[t].rmsg.n >= 0 /\ done' = FreeMsgs(<<th[t].rmsg>>) /\ UNCHANGED fault
    <3>1. PICK a : a = th[t].rmsg
      BY Zenon
    <3>2. a \in Msgs
      <4>1. a \in Msgs \cup {NullMsg, WildMsg}
        BY Zenon, <1>1, <3>1, ThreadFields DEF MsgIndInv
      <4> QED
        BY <2>2, <3>1, <4>1 DEF NullMsg, WildMsg
    <3>3. ThreadContents[t] = {a}
      BY Zenon, <1>5, <3>1, <3>2 DEF ThreadContents
    <3>4. Outside(a, QueueContents, ThreadContents', done, sends)
      BY Zenon, <1>7, <1>8, <3>3, TakenFromThread DEF MsgIndInv, MessagesApart
    <3>5. done' = done \cup {a.n}
      BY <2>2, <3>1 DEF FreeMsgs
    <3>6. a.n \in 0 .. MaxSends - 1
      BY Zenon, <3>2 DEF Msgs
    <3> QED
      BY Zenon, <1>8, <2>2, <3>4, <3>5, <3>6, FreedOnce DEF MsgIndInv, MsgTypeOK
  <2> QED
    BY Zenon, <2>1, <2>2 DEF Received
<1>10. MsgTypeOK'
  BY Zenon, <1>1, <1>3, <1>9 DEF MsgIndInv, MsgTypeOK
<1>11. MsgRest'
  <2>1. Unlisted(t) /\ th'[t].pc \notin {"empty", "full"}
    BY Zenon, <1>1, <1>3, <1>4, AwakeUnlisted
  <2>2. InPlace(QueueContents', ThreadContents', done', sends')
    BY Zenon, <1>1, <1>6, <1>9
  <2> QED
    BY Zenon, <1>1, <1>3, <2>1, <2>2, ThreadStepKeeps
<1> QED
  BY Zenon, <1>10, <1>11 DEF MsgIndInv, MsgRest

\* The messages that the threads hold once t has given away its own.
Without(t) == [ThreadContents EXCEPT ![t] = {}]

\* A thread in msgsnd, with its message in no other place.
SendReady(t, h, m) ==
    /\ t \in MsgThreads /\ h \in Handles /\ m \in Msgs
    /\ th[t].pc \in {"idle", "retry", "full"} /\ Unlisted(t)
    /\ sends' \in 0 .. MaxSends
    /\ Apart(QueueContents, Without(t), done, sends')
    /\ Outside(m, QueueContents, Without(t), done, sends')
    /\ UNCHANGED <<seq, handles, created, mkilled>>

\* What the threads hold, but for t.
LEMMA WithoutIs ==
  ASSUME NEW t \in MsgThreads
  PROVE  /\ Without(t)[t] = {} /\ \A u \in MsgThreads \ {t} : Without(t)[u] = Held(u)
         /\ (\A u \in MsgThreads \ {t} : Held(u)' = Held(u)) /\ Held(t)' = {} => ThreadContents' = Without(t)
<1>1. Without(t)[t] = {} /\ \A u \in MsgThreads \ {t} : Without(t)[u] = Held(u)
  BY Zenon DEF Without, ThreadContents
<1>2. ASSUME \A u \in MsgThreads \ {t} : Held(u)' = Held(u), Held(t)' = {}
      PROVE  ThreadContents' = Without(t)
  <2>1. Without(t) = [u \in MsgThreads |-> Without(t)[u]]
    BY Zenon DEF Without, ThreadContents
  <2>2. \A u \in MsgThreads : Held(u)' = Without(t)[u]
    BY Zenon, <1>1, <1>2
  <2> QED
    BY Zenon, <2>1, <2>2 DEF ThreadContents
<1> QED
  BY Zenon, <1>1, <1>2

\* A step of one thread.
LEMMA OneThread ==
  ASSUME MsgTypeOK, NEW t \in MsgThreads, NEW x \in CallStates, th' = [th EXCEPT ![t] = x]
  PROVE  /\ th' \in [MsgThreads -> CallStates] /\ th'[t] = x
         /\ \A u \in MsgThreads \ {t} : th'[u] = th[u] /\ Held(u)' = Held(u)
<1>1. th \in [MsgThreads -> CallStates]
  BY Zenon DEF MsgTypeOK
<1>2. th' \in [MsgThreads -> CallStates] /\ th'[t] = x /\ \A u \in MsgThreads \ {t} : th'[u] = th[u]
  BY Zenon, <1>1
<1> QED
  BY Zenon, <1>2 DEF Held

\* What a thread holds in each state of a call.
LEMMA HeldIn ==
  ASSUME NEW t
  PROVE  /\ th'[t].pc \in {"idle", "empty"} => Held(t)' = {}
         /\ th'[t].pc \in {"full", "retry"} => Held(t)' = {th'[t].m}
         /\ th'[t].pc = "woken" /\ th'[t].rmsg \in Msgs => Held(t)' = {th'[t].rmsg}
         /\ th[t].pc \in {"idle", "empty"} => Held(t) = {}
         /\ th[t].pc \in {"full", "retry"} => Held(t) = {th[t].m}
         /\ th[t].pc = "woken" /\ th[t].rmsg \in Msgs => Held(t) = {th[t].rmsg}
BY Zenon DEF Held

\* msgsnd when the queue is gone: the message is freed.
LEMMA SendGone ==
  ASSUME MsgIndInv, NEW t, NEW h, NEW m, SendReady(t, h, m),
         th' = [th EXCEPT ![t] = IdleThread], done' = FreeMsgs(<<m>>), UNCHANGED <<entries, fault>>
  PROVE  MsgIndInv'
<1>1. t \in MsgThreads /\ m \in Msgs /\ Unlisted(t) /\ th[t].pc # "empty"
  BY Zenon DEF SendReady
<1>2. IdleThread \in CallStates /\ IdleThread.pc = "idle"
  BY Zenon DEF CallStates, IdleThread
<1>3. /\ th' \in [MsgThreads -> CallStates] /\ th'[t] = IdleThread
      /\ \A u \in MsgThreads \ {t} : th'[u] = th[u] /\ Held(u)' = Held(u)
  BY Zenon, <1>1, <1>2, OneThread DEF MsgIndInv
<1>4. Held(t)' = {}
  BY Zenon, <1>2, <1>3, HeldIn
<1>5. ThreadContents' = Without(t)
  BY Zenon, <1>1, <1>3, <1>4, WithoutIs
<1>6. done' = done \cup {m.n}
  BY DEF FreeMsgs
<1>7. QueueContents' = QueueContents
  BY Zenon DEF QueueContents, InQueue
<1>8. InPlace(QueueContents', ThreadContents', done', sends')
  <2>1. InPlace(QueueContents, Without(t), done', sends')
    BY Zenon, <1>6, FreedOnce DEF SendReady
  <2> QED
    BY Zenon, <1>5, <1>7, <2>1
<1>9. MsgTypeOK'
  <2>1. m.n \in 0 .. MaxSends - 1
    BY Zenon, <1>1 DEF Msgs
  <2> QED
    BY Zenon, <1>3, <1>6, <2>1 DEF MsgIndInv, MsgTypeOK, SendReady
<1>10. MsgRest'
  <2>1. th'[t].pc \notin {"empty", "full"}
    BY Zenon, <1>2, <1>3
  <2>2. UNCHANGED <<entries, created>>
    BY Zenon DEF SendReady
  <2> QED
    BY Zenon, <1>1, <1>3, <1>8, <2>1, <2>2, ThreadStepKeeps
<1> QED
  BY Zenon, <1>9, <1>10 DEF MsgIndInv, MsgRest

\* pipeline_send on a receiver with too small a buffer: the kernel hangs with the
\* message in the sender's hands.
LEMMA SendSpins ==
  ASSUME MsgIndInv, NEW t, NEW h, NEW m, SendReady(t, h, m), NEW q, q = GetMsgq(h), q # NoQueue,
         th' = [th EXCEPT ![t] = [pc |-> "retry", h |-> h, m |-> m, on |-> q.born]],
         fault' = "spin", UNCHANGED <<entries, done>>
  PROVE  MsgIndInv'
<1>1. t \in MsgThreads /\ h \in Handles /\ m \in Msgs /\ Unlisted(t)
  BY Zenon DEF SendReady
<1>2. PICK x \in CallStates : x = [pc |-> "retry", h |-> h, m |-> m, on |-> q.born]
  <2>1. q.born \in 0 .. MaxQueues - 1
    BY Zenon, <1>1, HandleQueue, QueueFields DEF MsgIndInv
  <2>2. [pc |-> "retry", h |-> h, m |-> m, on |-> q.born]
          \in [pc : {"full", "retry"}, h : Handles, m : Msgs, on : 0 .. MaxQueues - 1]
    BY Zenon, <1>1, <2>1
  <2> QED
    BY Zenon, <2>2 DEF CallStates
<1>3. x.pc = "retry" /\ x.m = m
  BY Zenon, <1>2
<1>4. /\ th' \in [MsgThreads -> CallStates] /\ th'[t] = x
      /\ \A u \in MsgThreads \ {t} : th'[u] = th[u] /\ Held(u)' = Held(u)
  BY Zenon, <1>1, <1>2, OneThread DEF MsgIndInv
<1>5. QueueContents' = QueueContents
  BY Zenon DEF QueueContents, InQueue
<1>6. InPlace(QueueContents', ThreadContents', done', sends')
  <2>1. Held(t)' = {m}
    BY Zenon, <1>3, <1>4, HeldIn
  <2>2. ThreadContents'[t] = {m} /\ \A u \in MsgThreads \ {t} : ThreadContents'[u] = Held(u)
    BY Zenon, <1>1, <1>4, <2>1 DEF ThreadContents
  <2>3. Without(t)[t] = {} /\ \A u \in MsgThreads \ {t} : ThreadContents'[u] = Without(t)[u]
    BY Zenon, <1>1, <2>2, WithoutIs
  <2>4. InPlace(QueueContents, ThreadContents', done, sends')
    BY Zenon, <1>1, <2>2, <2>3, GivenToThread DEF SendReady
  <2> QED
    BY Zenon, <1>5, <2>4
<1>7. MsgTypeOK'
  BY Zenon, <1>4 DEF MsgIndInv, MsgTypeOK, SendReady
<1>8. MsgRest'
  <2>1. th'[t].pc \notin {"empty", "full"}
    BY Zenon, <1>3, <1>4
  <2>2. UNCHANGED <<entries, created>>
    BY Zenon DEF SendReady
  <2> QED
    BY Zenon, <1>1, <1>4, <1>6, <2>1, <2>2, ThreadStepKeeps
<1> QED
  BY Zenon, <1>7, <1>8 DEF MsgIndInv, MsgRest

\* A full queue: the sender joins the list and keeps its message.
LEMMA SendFull ==
  ASSUME MsgIndInv, NEW t, NEW h, NEW m, SendReady(t, h, m), NEW q, q = GetMsgq(h), q # NoQueue,
         Len(q.msgs) + 1 > MaxMsg,
         entries' = [entries EXCEPT ![h.id].senders = Append(@, t)],
         th' = [th EXCEPT ![t] = [pc |-> "full", h |-> h, m |-> m, on |-> q.born]], UNCHANGED <<done, fault>>
  PROVE  MsgIndInv'
<1>1. t \in MsgThreads /\ h \in Handles /\ m \in Msgs /\ Unlisted(t) /\ th[t].pc # "empty"
  BY Zenon DEF SendReady
<1>2. PICK s : s = h.id
  BY Zenon
<1>3. s \in Ids /\ entries[s] = q /\ q \in MsgQueues
  BY Zenon, <1>1, <1>2, HandleQueue DEF MsgIndInv
<1>4. PICK list, new : list = Append(q.senders, t) /\ new = [q EXCEPT !.senders = list]
  BY Zenon
<1>5. /\ Distinct(q.receivers) /\ Distinct(q.senders) /\ Distinct(q.msgs)
      /\ \A u \in Listed(q.receivers) : u \in MsgThreads /\ th[u].pc = "empty" /\ th[u].h.id = s
      /\ \A u \in Listed(q.senders) : u \in MsgThreads /\ th[u].pc = "full" /\ th[u].h.id = s
      /\ \A u \in MsgThreads : th[u].pc = "empty" /\ th[u].h.id = s => u \in Listed(q.receivers)
      /\ \A u \in Listed(q.receivers), a \in Listed(q.msgs) : ~TestMsg(th[u].type, a.type)
      /\ Len(q.msgs) <= MaxMsg
  <2>1. QueueFacts(s, q)
    BY Zenon, <1>3, OnQueue
  <2> QED
    BY Zenon, <2>1 DEF QueueFacts
<1>6. t \notin Listed(q.senders) /\ t \notin Listed(q.receivers)
  BY Zenon, <1>1, <1>3 DEF Unlisted
<1>7. q.senders \in Seq(MsgThreads) /\ q.msgs \in Seq(Msgs)
  BY Zenon, <1>3, QueueFields
<1>8. list \in Seq(MsgThreads) /\ Distinct(list) /\ Listed(list) = Listed(q.senders) \cup {t}
  <2>1. /\ Append(q.senders, t) \in Seq(MsgThreads) /\ Distinct(Append(q.senders, t))
        /\ Listed(Append(q.senders, t)) = Listed(q.senders) \cup {t}
    BY <1>1, <1>5, <1>6, <1>7, AppendEntry
  <2> QED
    BY Zenon, <1>4, <2>1
<1>9. /\ new \in MsgQueues /\ new.msgs = q.msgs /\ new.receivers = q.receivers /\ new.senders = list
      /\ new.born = q.born
  BY Zenon, <1>3, <1>4, <1>8 DEF MsgQueues
<1>10. entries' \in [Ids -> MsgQueues \cup {NoQueue}] /\ OneEntry(s, new)
  <2>1. entries' = [entries EXCEPT ![s] = new]
    BY Zenon, <1>2, <1>3, <1>4
  <2> QED
    BY Zenon, <1>3, <1>9, <2>1, EntryTyped DEF MsgIndInv
<1>11. PICK x \in CallStates : x = [pc |-> "full", h |-> h, m |-> m, on |-> q.born]
  <2>1. q.born \in 0 .. MaxQueues - 1
    BY Zenon, <1>3, QueueFields
  <2>2. [pc |-> "full", h |-> h, m |-> m, on |-> q.born]
          \in [pc : {"full", "retry"}, h : Handles, m : Msgs, on : 0 .. MaxQueues - 1]
    BY Zenon, <1>1, <2>1
  <2> QED
    BY Zenon, <2>2 DEF CallStates
<1>12. x.pc = "full" /\ x.h.id = s /\ x.m = m /\ x.on = q.born
  BY Zenon, <1>2, <1>11
<1>13. /\ th' \in [MsgThreads -> CallStates] /\ th'[t] = x
       /\ \A u \in MsgThreads \ {t} : th'[u] = th[u] /\ Held(u)' = Held(u)
  BY Zenon, <1>1, <1>11, OneThread DEF MsgIndInv
<1>14. InPlace(QueueContents', ThreadContents', done', sends')
  <2>1. new # NoQueue
    BY Zenon, <1>9, QueueFields
  <2>3. QueueContents' = QueueContents
    BY Zenon, <1>3, <1>9, <1>10, <2>1, SameQueueContents
  <2>4. Held(t)' = {m}
    BY Zenon, <1>12, <1>13, HeldIn
  <2>5. ThreadContents'[t] = {m} /\ \A u \in MsgThreads \ {t} : ThreadContents'[u] = Held(u)
    BY Zenon, <1>1, <1>13, <2>4 DEF ThreadContents
  <2>6. Without(t)[t] = {} /\ \A u \in MsgThreads \ {t} : ThreadContents'[u] = Without(t)[u]
    BY Zenon, <1>1, <2>5, WithoutIs
  <2>7. InPlace(QueueContents, ThreadContents', done, sends')
    BY Zenon, <1>1, <2>5, <2>6, GivenToThread DEF SendReady
  <2> QED
    BY Zenon, <2>3, <2>7
<1>15. MsgTypeOK'
  BY Zenon, <1>10, <1>13 DEF MsgIndInv, MsgTypeOK, SendReady
<1>16. GoodQueue(s, new)
  <2>1. \A u \in Listed(new.receivers) : th'[u] = th[u]
    BY Zenon, <1>5, <1>6, <1>9, <1>13
  <2>2. \A u \in Listed(new.senders) : th'[u].pc = "full" /\ th'[u].h.id = s
    BY ZenonT(60), <1>5, <1>8, <1>9, <1>12, <1>13
  <2>3. Len(new.msgs) <= MaxMsg /\ Len(new.msgs) = MaxMsg
    BY <1>5, <1>7, <1>9, MsgAssumption
  <2> QED
    BY ZenonT(60), <1>3, <1>5, <1>8, <1>9, <2>1, <2>2, <2>3 DEF GoodQueue
<1>17. GoodThreads(s, new)
  <2>1. \A u \in MsgThreads : th'[u] = th[u] \/ Unlisted(u)
    BY Zenon, <1>1, <1>13
  <2>2. \A u \in MsgThreads : th'[u].pc = "empty" => u # t
    BY Zenon, <1>12, <1>13
  <2>3. new # NoQueue
    BY Zenon, <1>9, QueueFields
  <2>4. ASSUME NEW u \in MsgThreads
        PROVE  \/ th'[u].on = new.born /\ u \in Listed(new.senders)
               \/ th'[u] = th[u] /\ (u \in Listed(entries[s].senders) => u \in Listed(new.senders))
    <3>1. CASE u = t
      BY Zenon, <1>8, <1>9, <1>12, <1>13, <3>1
    <3>2. CASE u # t
      BY Zenon, <1>3, <1>8, <1>9, <1>13, <3>2
    <3> QED
      BY Zenon, <3>1, <3>2
  <2>5. \A u \in MsgThreads : th'[u].pc = "empty" =>
          (th'[u].h.id = s /\ u \in Listed(new.receivers)) \/ (th'[u] = th[u] /\ th[u].h.id # s)
    BY Zenon, <1>5, <1>9, <1>13, <2>2
  <2> QED
    BY Zenon, <2>1, <2>3, <2>4, <2>5 DEF GoodThreads
<1>18. created' = created
  BY Zenon DEF SendReady
<1>19. MsgRest'
  BY Zenon, <1>3, <1>10, <1>14, <1>16, <1>17, <1>18, QueueStepKeeps
<1> QED
  BY Zenon, <1>15, <1>19 DEF MsgIndInv, MsgRest

\* No receiver wants the message, which is queued.
LEMMA SendQueued ==
  ASSUME MsgIndInv, NEW t, NEW h, NEW m, SendReady(t, h, m), NEW q, q = GetMsgq(h), q # NoQueue,
         Len(q.msgs) + 1 <= MaxMsg, FirstTaker(q, m) = 0,
         entries' = [entries EXCEPT ![h.id].msgs = Append(@, m)],
         th' = [th EXCEPT ![t] = IdleThread], UNCHANGED <<done, fault>>
  PROVE  MsgIndInv'
<1>1. t \in MsgThreads /\ h \in Handles /\ m \in Msgs /\ Unlisted(t) /\ th[t].pc # "empty"
  BY Zenon DEF SendReady
<1>2. PICK s : s = h.id
  BY Zenon
<1>3. s \in Ids /\ entries[s] = q /\ q \in MsgQueues
  BY Zenon, <1>1, <1>2, HandleQueue DEF MsgIndInv
<1>4. PICK list, new : list = Append(q.msgs, m) /\ new = [q EXCEPT !.msgs = list]
  BY Zenon
<1>5. /\ Distinct(q.receivers) /\ Distinct(q.senders) /\ Distinct(q.msgs)
      /\ \A u \in Listed(q.receivers) : u \in MsgThreads /\ th[u].pc = "empty" /\ th[u].h.id = s
      /\ \A u \in Listed(q.senders) : u \in MsgThreads /\ th[u].pc = "full" /\ th[u].h.id = s
      /\ \A u \in MsgThreads : th[u].pc = "empty" /\ th[u].h.id = s => u \in Listed(q.receivers)
      /\ \A u \in Listed(q.receivers), a \in Listed(q.msgs) : ~TestMsg(th[u].type, a.type)
      /\ Len(q.msgs) <= MaxMsg /\ (q.senders # <<>> => Len(q.msgs) = MaxMsg)
  <2>1. QueueFacts(s, q)
    BY Zenon, <1>3, OnQueue
  <2> QED
    BY Zenon, <2>1 DEF QueueFacts
<1>6. t \notin Listed(q.senders) /\ t \notin Listed(q.receivers)
  BY Zenon, <1>1, <1>3 DEF Unlisted
<1>7. q.receivers \in Seq(MsgThreads) /\ q.msgs \in Seq(Msgs)
  BY Zenon, <1>3, QueueFields
<1>8. QueueContents[s] = Listed(q.msgs)
  BY Zenon, <1>3 DEF QueueContents, InQueue
<1>9. m \notin Listed(q.msgs)
  BY Zenon, <1>3, <1>8 DEF SendReady, Outside
<1>10. /\ list \in Seq(Msgs) /\ Distinct(list) /\ Listed(list) = Listed(q.msgs) \cup {m}
       /\ Len(list) = Len(q.msgs) + 1
  <2>1. /\ Append(q.msgs, m) \in Seq(Msgs) /\ Distinct(Append(q.msgs, m))
        /\ Listed(Append(q.msgs, m)) = Listed(q.msgs) \cup {m}
        /\ Len(Append(q.msgs, m)) = Len(q.msgs) + 1
    BY <1>1, <1>5, <1>7, <1>9, AppendEntry
  <2> QED
    BY Zenon, <1>4, <2>1
<1>11. /\ new \in MsgQueues /\ new.msgs = list /\ new.receivers = q.receivers /\ new.senders = q.senders
       /\ new.born = q.born
  BY Zenon, <1>3, <1>4, <1>10 DEF MsgQueues
<1>12. new # NoQueue
  BY Zenon, <1>11, QueueFields
<1>13. entries' \in [Ids -> MsgQueues \cup {NoQueue}] /\ OneEntry(s, new)
  <2>1. entries' = [entries EXCEPT ![s] = new]
    BY Zenon, <1>2, <1>3, <1>4
  <2> QED
    BY Zenon, <1>3, <1>11, <2>1, EntryTyped DEF MsgIndInv
<1>14. IdleThread \in CallStates /\ IdleThread.pc = "idle"
  BY Zenon DEF CallStates, IdleThread
<1>15. /\ th' \in [MsgThreads -> CallStates] /\ th'[t] = IdleThread
       /\ \A u \in MsgThreads \ {t} : th'[u] = th[u] /\ Held(u)' = Held(u)
  BY Zenon, <1>1, <1>14, OneThread DEF MsgIndInv
<1>16. InPlace(QueueContents', ThreadContents', done', sends')
  <2>1. Held(t)' = {}
    BY Zenon, <1>14, <1>15, HeldIn
  <2>2. ThreadContents' = Without(t)
    BY Zenon, <1>1, <1>15, <2>1, WithoutIs
  <2>3. /\ QueueContents'[s] = QueueContents[s] \cup {m}
        /\ \A i \in Ids \ {s} : QueueContents'[i] = QueueContents[i]
    <3>1. QueueContents'[s] = Listed(new.msgs) /\ \A i \in Ids \ {s} : QueueContents'[i] = QueueContents[i]
      BY Zenon, <1>3, <1>12, <1>13, NewQueueContents
    <3> QED
      BY Zenon, <1>8, <1>10, <1>11, <3>1
  <2>4. InPlace(QueueContents', Without(t), done, sends')
    BY Zenon, <1>3, <2>3, PutIntoQueue DEF SendReady
  <2> QED
    BY Zenon, <2>2, <2>4
<1>17. MsgTypeOK'
  BY Zenon, <1>13, <1>15 DEF MsgIndInv, MsgTypeOK, SendReady
<1>18. GoodQueue(s, new)
  <2>1. \A u \in Listed(new.receivers) : th'[u] = th[u]
    BY Zenon, <1>5, <1>6, <1>11, <1>15
  <2>2. \A u \in Listed(new.senders) : th'[u] = th[u]
    BY Zenon, <1>5, <1>6, <1>11, <1>15
  <2>3. \A u \in Listed(q.receivers) : ~TestMsg(th[u].type, m.type)
    BY Zenon, <1>7, TakerFound
  <2>4. \A u \in Listed(new.receivers), a \in Listed(new.msgs) : ~TestMsg(th'[u].type, a.type)
    BY Zenon, <1>5, <1>10, <1>11, <2>1, <2>3
  <2>5. Len(new.msgs) <= MaxMsg /\ (new.senders # <<>> => Len(new.msgs) = MaxMsg)
    BY <1>5, <1>7, <1>10, <1>11, MsgAssumption
  <2>6. \A u \in Listed(new.receivers) : th'[u].pc = "empty" /\ th'[u].h.id = s
    BY Zenon, <1>5, <1>11, <2>1
  <2>7. \A u \in Listed(new.senders) : th'[u].pc = "full" /\ th'[u].h.id = s
    BY ZenonT(60), <1>5, <1>11, <2>2
  <2> QED
    BY Zenon, <1>3, <1>5, <1>10, <1>11, <2>4, <2>5, <2>6, <2>7 DEF GoodQueue
<1>19. GoodThreads(s, new)
  <2>1. \A u \in MsgThreads : th'[u] = th[u] \/ Unlisted(u)
    BY Zenon, <1>1, <1>15
  <2>2. \A u \in MsgThreads : th'[u].pc \in {"empty", "full"} => th'[u] = th[u]
    BY Zenon, <1>14, <1>15
  <2>3. \A u \in MsgThreads : th'[u].pc = "empty" =>
          (th'[u].h.id = s /\ u \in Listed(new.receivers)) \/ (th'[u] = th[u] /\ th[u].h.id # s)
    BY Zenon, <1>5, <1>11, <2>2
  <2>4. \A u \in MsgThreads : th'[u].pc = "full" =>
          th'[u] = th[u] /\ (u \in Listed(entries[s].senders) => u \in Listed(new.senders))
    BY Zenon, <1>3, <1>11, <2>2
  <2> QED
    BY Zenon, <1>12, <2>1, <2>3, <2>4 DEF GoodThreads
<1>20. created' = created
  BY Zenon DEF SendReady
<1>21. MsgRest'
  BY Zenon, <1>3, <1>13, <1>16, <1>18, <1>19, <1>20, QueueStepKeeps
<1> QED
  BY Zenon, <1>17, <1>21 DEF MsgIndInv, MsgRest

\* A receiver wants the message and is given it: it leaves the list.
LEMMA SendHanded ==
  ASSUME MsgIndInv, NEW t, NEW h, NEW m, SendReady(t, h, m), NEW q, q = GetMsgq(h), q # NoQueue,
         NEW r, r \in Listed(q.receivers),
         entries' = [entries EXCEPT ![h.id].receivers = Detach(@, r)],
         th' = [th EXCEPT ![t] = IdleThread,
                           ![r] = [pc |-> "woken", type |-> th[r].type, rmsg |-> m]],
         UNCHANGED <<done, fault>>
  PROVE  MsgIndInv'
<1>1. t \in MsgThreads /\ h \in Handles /\ m \in Msgs /\ Unlisted(t) /\ th[t].pc # "empty"
  BY Zenon DEF SendReady
<1>2. PICK s : s = h.id
  BY Zenon
<1>3. s \in Ids /\ entries[s] = q /\ q \in MsgQueues
  BY Zenon, <1>1, <1>2, HandleQueue DEF MsgIndInv
<1>4. PICK list, new : list = Detach(q.receivers, r) /\ new = [q EXCEPT !.receivers = list]
  BY Zenon
<1>5. /\ Distinct(q.receivers) /\ Distinct(q.senders) /\ Distinct(q.msgs)
      /\ \A u \in Listed(q.receivers) :
            u \in MsgThreads /\ th[u].pc = "empty" /\ th[u].h.id = s /\ th[u].type \in RcvTypes
      /\ \A u \in Listed(q.senders) : u \in MsgThreads /\ th[u].pc = "full" /\ th[u].h.id = s
      /\ \A u \in MsgThreads : th[u].pc = "empty" /\ th[u].h.id = s => u \in Listed(q.receivers)
      /\ \A u \in Listed(q.receivers), a \in Listed(q.msgs) : ~TestMsg(th[u].type, a.type)
      /\ Len(q.msgs) <= MaxMsg /\ (q.senders # <<>> => Len(q.msgs) = MaxMsg)
  <2>1. QueueFacts(s, q)
    BY Zenon, <1>3, OnQueue
  <2> QED
    BY Zenon, <2>1 DEF QueueFacts
<1>6. /\ t \notin Listed(q.senders) /\ t \notin Listed(q.receivers) /\ r \notin Listed(q.senders)
      /\ r # t /\ r \in MsgThreads /\ th[r].pc = "empty" /\ th[r].type \in RcvTypes
  <2>1. t \notin Listed(q.senders) /\ t \notin Listed(q.receivers)
    BY Zenon, <1>1, <1>3 DEF Unlisted
  <2> QED
    BY Zenon, <1>5, <2>1
<1>7. q.receivers \in Seq(MsgThreads) /\ q.msgs \in Seq(Msgs)
  BY Zenon, <1>3, QueueFields
<1>8. list \in Seq(MsgThreads) /\ Distinct(list) /\ Listed(list) = Listed(q.receivers) \ {r}
  <2>1. /\ Detach(q.receivers, r) \in Seq(MsgThreads) /\ Distinct(Detach(q.receivers, r))
        /\ Listed(Detach(q.receivers, r)) = Listed(q.receivers) \ {r}
    BY <1>5, <1>7, DetachEntry
  <2> QED
    BY Zenon, <1>4, <2>1
<1>9. /\ new \in MsgQueues /\ new.msgs = q.msgs /\ new.receivers = list /\ new.senders = q.senders
      /\ new.born = q.born
  BY Zenon, <1>3, <1>4, <1>8 DEF MsgQueues
<1>10. new # NoQueue
  BY Zenon, <1>9, QueueFields
<1>11. entries' \in [Ids -> MsgQueues \cup {NoQueue}] /\ OneEntry(s, new)
  <2>1. entries' = [entries EXCEPT ![s] = new]
    BY Zenon, <1>2, <1>3, <1>4
  <2> QED
    BY Zenon, <1>3, <1>9, <2>1, EntryTyped DEF MsgIndInv
<1>12. PICK x \in CallStates : x = [pc |-> "woken", type |-> th[r].type, rmsg |-> m]
  <2>1. [pc |-> "woken", type |-> th[r].type, rmsg |-> m]
          \in [pc : {"woken"}, type : RcvTypes, rmsg : Msgs \cup {NullMsg, WildMsg}]
    BY Zenon, <1>1, <1>6
  <2> QED
    BY Zenon, <2>1 DEF CallStates
<1>13. x.pc = "woken" /\ x.rmsg = m
  BY Zenon, <1>12
<1>14. IdleThread \in CallStates /\ IdleThread.pc = "idle"
  BY Zenon DEF CallStates, IdleThread
<1>15. /\ th' \in [MsgThreads -> CallStates] /\ th'[t] = IdleThread /\ th'[r] = x
       /\ \A u \in MsgThreads \ {t, r} : th'[u] = th[u]
  <2>1. th \in [MsgThreads -> CallStates]
    BY Zenon DEF MsgIndInv, MsgTypeOK
  <2>2. th' = [th EXCEPT ![t] = IdleThread, ![r] = x]
    BY Zenon, <1>12
  <2> QED
    BY <1>1, <1>6, <1>14, <2>1, <2>2
<1>16. InPlace(QueueContents', ThreadContents', done', sends')
  <2>1. QueueContents' = QueueContents
    BY Zenon, <1>3, <1>9, <1>10, <1>11, SameQueueContents
  <2>2. /\ Held(t)' = {} /\ Held(r)' = {m} /\ Held(r) = {}
        /\ \A u \in MsgThreads \ {t, r} : Held(u)' = Held(u)
    <3>1. Held(t)' = {}
      BY Zenon, <1>14, <1>15, HeldIn
    <3>2. Held(r)' = {m}
      BY ZenonT(60), <1>1, <1>13, <1>15, HeldIn
    <3>3. Held(r) = {}
      BY Zenon, <1>6, HeldIn
    <3> QED
      BY Zenon, <1>15, <3>1, <3>2, <3>3 DEF Held
  <2>3. Without(t)[t] = {} /\ \A u \in MsgThreads \ {t} : Without(t)[u] = Held(u)
    BY Zenon, <1>1, WithoutIs
  <2>4. /\ ThreadContents'[r] = {m} /\ Without(t)[r] = {}
        /\ \A u \in MsgThreads \ {r} : ThreadContents'[u] = Without(t)[u]
    <3>1. \A u \in MsgThreads : ThreadContents'[u] = Held(u)'
      BY Zenon DEF ThreadContents
    <3> QED
      BY Zenon, <1>1, <1>6, <2>2, <2>3, <3>1
  <2>5. InPlace(QueueContents, ThreadContents', done, sends')
    BY ZenonT(60), <1>6, <2>4, GivenToThread DEF SendReady
  <2> QED
    BY Zenon, <2>1, <2>5
<1>17. MsgTypeOK'
  BY Zenon, <1>11, <1>15 DEF MsgIndInv, MsgTypeOK, SendReady
<1>18. GoodQueue(s, new)
  <2>1. ASSUME NEW u \in Listed(new.receivers) PROVE th'[u] = th[u] /\ u \in Listed(q.receivers)
    <3>1. u \in Listed(q.receivers) /\ u # r
      BY Zenon, <1>8, <1>9, <2>1
    <3>2. u \in MsgThreads /\ u # t
      BY Zenon, <1>5, <1>6, <3>1
    <3> QED
      BY Zenon, <1>15, <3>1, <3>2
  <2>2. \A u \in Listed(new.senders) : th'[u] = th[u]
    BY ZenonT(60), <1>5, <1>6, <1>9, <1>15
  <2>3. \A u \in Listed(new.receivers), a \in Listed(new.msgs) : ~TestMsg(th'[u].type, a.type)
    BY Zenon, <1>5, <1>9, <2>1
  <2>4. \A u \in Listed(new.receivers) : th'[u].pc = "empty" /\ th'[u].h.id = s
    BY ZenonT(60), <1>5, <2>1
  <2>5. \A u \in Listed(new.senders) : th'[u].pc = "full" /\ th'[u].h.id = s
    BY ZenonT(60), <1>5, <1>9, <2>2
  <2> QED
    BY Zenon, <1>3, <1>5, <1>8, <1>9, <2>3, <2>4, <2>5 DEF GoodQueue
<1>19. GoodThreads(s, new)
  <2>2. \A u \in MsgThreads : th'[u].pc = "empty" => u # t /\ u # r
    BY Zenon, <1>13, <1>14, <1>15
  <2>3. \A u \in MsgThreads : th[u].h.id # s => u # r
    BY Zenon, <1>5
  <2>4. \A u \in MsgThreads : th'[u].pc = "empty" => th'[u] = th[u] /\ (th[u].h.id = s => u \in Listed(list))
    BY Zenon, <1>5, <1>8, <1>15, <2>2
  <2>5. \A u \in MsgThreads : th[u].h.id # s => th'[u] = th[u] \/ Unlisted(u)
    BY Zenon, <1>1, <1>15, <2>3
  <2>6. \A u \in MsgThreads : th'[u].pc = "full" => th'[u] = th[u]
    BY Zenon, <1>13, <1>14, <1>15
  <2>7. \A u \in MsgThreads : u \in Listed(entries[s].senders) => u \in Listed(new.senders)
    BY Zenon, <1>3, <1>9
  <2> QED
    BY Zenon, <1>9, <1>10, <2>4, <2>5, <2>6, <2>7 DEF GoodThreads
<1>20. created' = created
  BY Zenon DEF SendReady
<1>21. MsgRest'
  BY Zenon, <1>3, <1>11, <1>16, <1>18, <1>19, <1>20, QueueStepKeeps
<1> QED
  BY Zenon, <1>17, <1>21 DEF MsgIndInv, MsgRest

\* The ways msgsnd goes on after retry.
LEMMA SendKeeps ==
  ASSUME MsgIndInv, NEW t, NEW h, NEW m, SendReady(t, h, m), NEW nowait, Send(t, h, m, nowait)
  PROVE  MsgIndInv'
<1>1. PICK q : q = GetMsgq(h)
  BY Zenon
<1>2. PICK i : i = FirstTaker(q, m)
  BY Zenon
<1>3. PICK r : r = q.receivers[i]
  BY Zenon
<1>4. ASSUME q # NoQueue, i # 0 PROVE r \in Listed(q.receivers)
  <2>1. q \in MsgQueues
    BY Zenon, <1>1, <1>4, HandleQueue DEF MsgIndInv, SendReady
  <2>2. q.receivers \in Seq(MsgThreads)
    BY Zenon, <2>1, QueueFields
  <2> QED
    BY Zenon, <1>2, <1>3, <1>4, <2>2, TakerFound
<1>5. CASE /\ th' = [th EXCEPT ![t] = IdleThread]
           /\ done' = FreeMsgs(<<m>>) /\ UNCHANGED <<entries, fault>>
  BY Zenon, <1>5, SendGone
<1>6. CASE /\ q # NoQueue /\ Len(q.msgs) + 1 > MaxMsg
           /\ entries' = [entries EXCEPT ![h.id].senders = Append(@, t)]
           /\ th' = [th EXCEPT ![t] = [pc |-> "full", h |-> h, m |-> m, on |-> q.born]] /\ UNCHANGED <<done, fault>>
  BY Zenon, <1>1, <1>6, SendFull
<1>7. CASE /\ q # NoQueue /\ Len(q.msgs) + 1 <= MaxMsg /\ i = 0
           /\ entries' = [entries EXCEPT ![h.id].msgs = Append(@, m)]
           /\ th' = [th EXCEPT ![t] = IdleThread] /\ UNCHANGED <<done, fault>>
  BY Zenon, <1>1, <1>2, <1>7, SendQueued
<1>8. CASE /\ q # NoQueue /\ i # 0
           /\ entries' = [entries EXCEPT ![h.id].receivers = Detach(@, r)]
           /\ th' = [th EXCEPT ![t] = IdleThread,
                                ![r] = [pc |-> "woken", type |-> th[r].type, rmsg |-> m]]
           /\ UNCHANGED <<done, fault>>
  BY Zenon, <1>1, <1>4, <1>8, SendHanded
<1>9. CASE /\ q # NoQueue /\ fault' = "spin" /\ UNCHANGED <<entries, done>>
           /\ th' = [th EXCEPT ![t] = [pc |-> "retry", h |-> h, m |-> m, on |-> q.born]]
  BY Zenon, <1>1, <1>9, SendSpins
<1> QED
  BY Zenon, <1>1, <1>2, <1>3, <1>5, <1>6, <1>7, <1>8, <1>9 DEF Send

\* msgsnd builds a message, whose number is new.
LEMMA SysMsgsndKeeps ==
  ASSUME MsgIndInv, NEW t \in MsgThreads, NEW h \in handles, SysMsgsnd(t, h)
  PROVE  MsgIndInv'
<1>1. PICK m \in LoadMsg, nowait \in BOOLEAN : Send(t, h, m, nowait)
  BY Zenon DEF SysMsgsnd
<1>2. th[t].pc = "idle" /\ sends < MaxSends /\ sends' = sends + 1 /\ UNCHANGED <<seq, handles, created, mkilled>>
  BY Zenon DEF SysMsgsnd
<1>3. sends \in 0 .. MaxSends - 1 /\ sends' \in 0 .. MaxSends /\ sends \in Int /\ sends' \in Int /\ sends <= sends'
  BY <1>2, MsgAssumption DEF MsgIndInv, MsgTypeOK
<1>4. m \in Msgs /\ m.n = sends
  BY Zenon, <1>3 DEF LoadMsg, Msgs
<1>5. h \in Handles
  BY Zenon DEF MsgIndInv, MsgTypeOK
<1>6. Held(t) = {}
  BY Zenon, <1>2, HeldIn
<1>7. Without(t) = ThreadContents
  <2>1. \A u \in MsgThreads : Without(t)[u] = Held(u)
    BY Zenon, <1>6, WithoutIs
  <2>2. Without(t) = [u \in MsgThreads |-> Without(t)[u]]
    BY Zenon DEF Without, ThreadContents
  <2> QED
    BY Zenon, <2>1, <2>2 DEF ThreadContents
<1>8. /\ QueueContents \in QueueSets /\ ThreadContents \in ThreadSets /\ done \in SUBSET Int
      /\ InPlace(QueueContents, ThreadContents, done, sends)
  BY Zenon, ContentsTyped DEF MsgIndInv, MessagesApart
<1>9. Apart(QueueContents, ThreadContents, done, sends')
  <2>1. Smaller(QueueContents, ThreadContents, QueueContents, ThreadContents)
    BY Zenon DEF Smaller
  <2> QED
    BY Zenon, <1>3, <1>8, <2>1, ApartShrinks DEF InPlace
<1>10. Outside(m, QueueContents, ThreadContents, done, sends')
  BY Zenon, <1>2, <1>3, <1>4, <1>8, BuiltIsOutside
<1>11. SendReady(t, h, m)
  <2>1. Unlisted(t)
    BY Zenon, <1>2, AwakeUnlisted
  <2> QED
    BY Zenon, <1>2, <1>3, <1>4, <1>5, <1>7, <1>9, <1>10, <2>1 DEF SendReady
<1> QED
  BY Zenon, <1>1, <1>11, SendKeeps

\* A sender that tries again has its message in its hands.
LEMMA RetrySendKeeps ==
  ASSUME MsgIndInv, NEW t \in MsgThreads, RetrySend(t)
  PROVE  MsgIndInv'
<1>1. PICK h, m : h = th[t].h /\ m = th[t].m
  BY Zenon
<1>2. th[t].pc \in {"retry", "full"} /\ UNCHANGED <<seq, handles, created, sends, mkilled>>
  BY Zenon DEF RetrySend
<1>3. h \in Handles /\ m \in Msgs
  BY Zenon, <1>1, <1>2, ThreadFields DEF MsgIndInv
<1>4. Held(t) = {m}
  BY Zenon, <1>1, <1>2, HeldIn
<1>5. /\ QueueContents \in QueueSets /\ ThreadContents \in ThreadSets /\ done \in SUBSET Int /\ sends \in Int
      /\ InPlace(QueueContents, ThreadContents, done, sends)
  BY Zenon, ContentsTyped DEF MsgIndInv, MessagesApart
<1>6. Without(t)[t] = {} /\ \A u \in MsgThreads \ {t} : Without(t)[u] = Held(u)
  BY Zenon, WithoutIs
<1>7. \A u \in MsgThreads : ThreadContents[u] = Held(u)
  BY Zenon DEF ThreadContents
<1>8. Smaller(QueueContents, Without(t), QueueContents, ThreadContents)
  BY Zenon, <1>6, <1>7 DEF Smaller
<1>9. Without(t) \in ThreadSets
  BY Zenon, <1>5 DEF Without, ThreadSets
<1>10. Apart(QueueContents, Without(t), done, sends)
  <2>1. sends <= sends
    BY <1>5
  <2> QED
    BY Zenon, <1>5, <1>8, <1>9, <2>1, ApartShrinks DEF InPlace
<1>11. Outside(m, QueueContents, Without(t), done, sends)
  <2>1. ThreadContents[t] = {m} /\ \A u \in MsgThreads \ {t} : Without(t)[u] = ThreadContents[u]
    BY Zenon, <1>4, <1>6, <1>7
  <2> QED
    BY Zenon, <1>5, <1>6, <1>8, <2>1, TakenFromThread
<1>12. sends' \in 0 .. MaxSends
  BY Zenon, <1>2 DEF MsgIndInv, MsgTypeOK
<1>13. CASE \E q \in Queues : t \in Listed(q.senders)
  <2>1. fault' = "dangling" /\ UNCHANGED <<entries, th, done>>
    BY Zenon, <1>13 DEF RetrySend
  <2>2. mkilled' \subseteq MsgThreads
    BY Zenon, <1>2 DEF MsgIndInv, MsgTypeOK
  <2> QED
    BY Zenon, <1>2, <2>1, <2>2, FlagStep
<1>14. CASE \A q \in Queues : t \notin Listed(q.senders)
  <2>1. Send(t, h, m, FALSE)
    BY Zenon, <1>1, <1>14 DEF RetrySend
  <2>2. \A i \in Ids : entries[i] # NoQueue => t \notin Listed(entries[i].senders)
    BY Zenon, <1>14 DEF Queues
  <2>3. \A i \in Ids : entries[i] # NoQueue => t \notin Listed(entries[i].receivers)
    BY Zenon, <1>2 DEF MsgIndInv, OnLists
  <2>4. Unlisted(t)
    BY Zenon, <2>2, <2>3 DEF Unlisted
  <2>5. SendReady(t, h, m)
    BY Zenon, <1>2, <1>3, <1>10, <1>11, <1>12, <2>4 DEF SendReady
  <2> QED
    BY Zenon, <2>1, <2>5, SendKeeps
<1> QED
  BY Zenon, <1>13, <1>14

\* msgrcv finds a message: it leaves the queue for the receiver's hands, and the
\* senders that waited for room try again.
LEMMA RcvFound ==
  ASSUME MsgIndInv, NEW t \in MsgThreads, th[t].pc = "idle", NEW h \in Handles,
         NEW q, q = GetMsgq(h), q # NoQueue, NEW a \in Listed(q.msgs), NEW mtype \in RcvTypes,
         entries' = [entries EXCEPT ![h.id].msgs = Detach(@, a), ![h.id].senders = <<>>],
         th' = [SsWakeup(q.senders) EXCEPT ![t] = [pc |-> "woken", type |-> mtype, rmsg |-> a]],
         UNCHANGED <<seq, handles, created, sends, mkilled, done, fault>>
  PROVE  MsgIndInv'
<1>1. PICK s : s = h.id
  BY Zenon
<1>2. s \in Ids /\ entries[s] = q /\ q \in MsgQueues
  BY Zenon, <1>1, HandleQueue DEF MsgIndInv
<1>3. PICK list, new : list = Detach(q.msgs, a) /\ new = [q EXCEPT !.msgs = list, !.senders = <<>>]
  BY Zenon
<1>4. /\ Distinct(q.receivers) /\ Distinct(q.senders) /\ Distinct(q.msgs)
      /\ \A u \in Listed(q.receivers) : u \in MsgThreads /\ th[u].pc = "empty" /\ th[u].h.id = s
      /\ \A u \in Listed(q.senders) : u \in MsgThreads /\ th[u].pc = "full" /\ th[u].h.id = s
      /\ \A u \in MsgThreads : th[u].pc = "empty" /\ th[u].h.id = s => u \in Listed(q.receivers)
      /\ \A u \in Listed(q.receivers), b \in Listed(q.msgs) : ~TestMsg(th[u].type, b.type)
      /\ Len(q.msgs) <= MaxMsg
  <2>1. QueueFacts(s, q)
    BY Zenon, <1>2, OnQueue
  <2> QED
    BY Zenon, <2>1 DEF QueueFacts
<1>5. /\ t \notin Listed(q.senders) /\ t \notin Listed(q.receivers)
      /\ \A u \in Listed(q.receivers) : u \notin Listed(q.senders)
  BY Zenon, <1>4
<1>6. q.msgs \in Seq(Msgs)
  BY Zenon, <1>2, QueueFields
<1>7. a \in Msgs
  BY <1>6 DEF Listed
<1>8. /\ list \in Seq(Msgs) /\ Distinct(list) /\ Listed(list) = Listed(q.msgs) \ {a}
      /\ Len(list) = Len(q.msgs) - 1
  <2>1. /\ Detach(q.msgs, a) \in Seq(Msgs) /\ Distinct(Detach(q.msgs, a))
        /\ Listed(Detach(q.msgs, a)) = Listed(q.msgs) \ {a} /\ Len(Detach(q.msgs, a)) = Len(q.msgs) - 1
    BY <1>4, <1>6, DetachEntry
  <2> QED
    BY Zenon, <1>3, <2>1
<1>9. /\ new \in MsgQueues /\ new.msgs = list /\ new.receivers = q.receivers /\ new.senders = <<>>
      /\ new.born = q.born
  <2>1. <<>> \in Seq(MsgThreads)
    OBVIOUS
  <2>2. new = [key |-> q.key, seq |-> q.seq, born |-> q.born, msgs |-> list, receivers |-> q.receivers,
               senders |-> <<>>]
    BY Zenon, <1>2, <1>3 DEF MsgQueues
  <2> QED
    BY Zenon, <1>2, <1>8, <2>1, <2>2 DEF MsgQueues
<1>10. new # NoQueue
  BY Zenon, <1>9, QueueFields
<1>11. entries' \in [Ids -> MsgQueues \cup {NoQueue}] /\ OneEntry(s, new)
  <2>1. entries \in [Ids -> MsgQueues \cup {NoQueue}]
    BY Zenon DEF MsgIndInv, MsgTypeOK
  <2>2. entries' = [entries EXCEPT ![s] = new]
    BY Zenon, <1>1, <1>2, <1>3, <2>1
  <2> QED
    BY Zenon, <1>2, <1>9, <2>2, EntryTyped DEF MsgIndInv
<1>12. PICK x \in CallStates : x = [pc |-> "woken", type |-> mtype, rmsg |-> a]
  <2>1. [pc |-> "woken", type |-> mtype, rmsg |-> a]
          \in [pc : {"woken"}, type : RcvTypes, rmsg : Msgs \cup {NullMsg, WildMsg}]
    BY Zenon, <1>7
  <2> QED
    BY Zenon, <2>1 DEF CallStates
<1>13. x.pc = "woken" /\ x.rmsg = a
  BY Zenon, <1>12
<1>14. PICK w : w = SsWakeup(q.senders)
  BY Zenon
<1>15. ASSUME NEW u \in Listed(q.senders)
       PROVE  u \in MsgThreads /\ w[u] \in CallStates /\ w[u].pc = "retry" /\ w[u].m = th[u].m
  <2>1. u \in MsgThreads /\ th[u].pc = "full"
    BY Zenon, <1>4, <1>15
  <2>2. PICK y : y = th[u]
    BY Zenon
  <2>3. y \in [pc : {"full", "retry"}, h : Handles, m : Msgs, on : 0 .. MaxQueues - 1]
    <3>1. y \in CallStates
      BY Zenon, <2>1, <2>2 DEF MsgIndInv, MsgTypeOK
    <3>2. y.pc = "full"
      BY Zenon, <2>1, <2>2
    <3> QED
      BY <3>1, <3>2 DEF CallStates, IdleThread
  <2>4. w[u] = [y EXCEPT !.pc = "retry"]
    BY Zenon, <1>14, <1>15, <2>1, <2>2 DEF SsWakeup
  <2>5. /\ [y EXCEPT !.pc = "retry"] \in [pc : {"full", "retry"}, h : Handles, m : Msgs, on : 0 .. MaxQueues - 1]
        /\ [y EXCEPT !.pc = "retry"].pc = "retry" /\ [y EXCEPT !.pc = "retry"].m = y.m
    BY Zenon, <2>3
  <2> QED
    BY Zenon, <2>1, <2>2, <2>4, <2>5 DEF CallStates
<1>16. \A u \in MsgThreads : u \notin Listed(q.senders) => w[u] = th[u]
  BY Zenon, <1>14 DEF SsWakeup
<1>17. w \in [MsgThreads -> CallStates]
  <2>1. \A u \in MsgThreads : w[u] \in CallStates
    BY Zenon, <1>15, <1>16 DEF MsgIndInv, MsgTypeOK
  <2>2. w = [u \in MsgThreads |-> w[u]]
    BY Zenon, <1>14 DEF SsWakeup
  <2> QED
    BY Zenon, <2>1, <2>2
<1>18. /\ th' \in [MsgThreads -> CallStates] /\ th'[t] = x
       /\ \A u \in MsgThreads \ {t} : th'[u] = w[u]
  <2>1. th' = [w EXCEPT ![t] = x]
    BY Zenon, <1>12, <1>14
  <2> QED
    BY Zenon, <1>17, <2>1
<1>19. \A u \in MsgThreads \ {t} : u \notin Listed(q.senders) => th'[u] = th[u]
  BY Zenon, <1>16, <1>18
<1>20. \A u \in Listed(q.senders) : th'[u].pc = "retry" /\ th'[u].m = th[u].m
  BY ZenonT(60), <1>5, <1>15, <1>18
<1>21. InPlace(QueueContents', ThreadContents', done', sends')
  <2>1. /\ QueueContents'[s] = Listed(q.msgs) \ {a}
        /\ \A i \in Ids \ {s} : QueueContents'[i] = QueueContents[i]
    <3>1. QueueContents'[s] = Listed(new.msgs) /\ \A i \in Ids \ {s} : QueueContents'[i] = QueueContents[i]
      BY Zenon, <1>2, <1>10, <1>11, NewQueueContents
    <3> QED
      BY Zenon, <1>8, <1>9, <3>1
  <2>2. QueueContents[s] = Listed(q.msgs)
    BY Zenon, <1>2 DEF QueueContents, InQueue
  <2>3. \A u \in MsgThreads \ {t} : Held(u)' = Held(u)
    <3> SUFFICES ASSUME NEW u \in MsgThreads \ {t} PROVE Held(u)' = Held(u)
      BY Zenon
    <3>1. CASE u \in Listed(q.senders)
      <4>1. Held(u)' = {th'[u].m}
        BY Zenon, <1>20, <3>1, HeldIn
      <4>2. Held(u) = {th[u].m}
        BY Zenon, <1>4, <3>1, HeldIn
      <4> QED
        BY Zenon, <1>20, <3>1, <4>1, <4>2
    <3>2. CASE u \notin Listed(q.senders)
      BY Zenon, <1>19, <3>2 DEF Held
    <3> QED
      BY Zenon, <3>1, <3>2
  <2>4. Held(t) = {} /\ Held(t)' = {a}
    BY Zenon, <1>7, <1>13, <1>18, HeldIn
  <2>5. /\ ThreadContents'[t] = {a} /\ ThreadContents[t] = {}
        /\ \A u \in MsgThreads \ {t} : ThreadContents'[u] = ThreadContents[u]
    BY Zenon, <2>3, <2>4 DEF ThreadContents
  <2>6. Smaller(QueueContents', ThreadContents, QueueContents, ThreadContents)
    BY Zenon, <1>2, <2>1, <2>2 DEF Smaller
  <2>7. /\ QueueContents \in QueueSets /\ ThreadContents \in ThreadSets /\ done \in SUBSET Int /\ sends \in Int
        /\ InPlace(QueueContents, ThreadContents, done, sends)
    BY Zenon, ContentsTyped DEF MsgIndInv, MessagesApart
  <2>8. QueueContents' \in QueueSets
    <3>1. \A i \in Ids : InQueue(i)' \subseteq Msgs
      BY Zenon, <2>6, <2>7 DEF Smaller, QueueSets, QueueContents
    <3> QED
      BY Zenon, <3>1 DEF QueueContents, QueueSets
  <2>9. Apart(QueueContents', ThreadContents, done, sends)
    <3>1. sends <= sends
      BY <2>7
    <3> QED
      BY Zenon, <2>6, <2>7, <2>8, <3>1, ApartShrinks DEF InPlace
  <2>10. Outside(a, QueueContents', ThreadContents, done, sends)
    <3>1. a \in QueueContents[s] /\ a \notin QueueContents'[s]
      BY Zenon, <2>1, <2>2
    <3>2. OnlyLacks(a, QueueContents', ThreadContents, QueueContents, ThreadContents)
      BY Zenon, <1>2, <2>1, <2>2 DEF OnlyLacks
    <3> QED
      BY Zenon, <1>2, <2>6, <2>7, <3>1, <3>2, TakenFromQueue
  <2> QED
    BY Zenon, <2>5, <2>9, <2>10, GivenToThread
<1>22. MsgTypeOK'
  BY Zenon, <1>11, <1>18 DEF MsgIndInv, MsgTypeOK
<1>23. GoodQueue(s, new)
  <2>1. \A u \in Listed(new.receivers) : th'[u] = th[u]
    BY Zenon, <1>4, <1>5, <1>9, <1>19
  <2>2. Listed(new.senders) = {} /\ Distinct(new.senders)
    BY Zenon, <1>9, EmptyList
  <2>3. \A u \in Listed(new.receivers), b \in Listed(new.msgs) : ~TestMsg(th'[u].type, b.type)
    BY Zenon, <1>4, <1>8, <1>9, <2>1
  <2>4. \A u \in Listed(new.receivers) : th'[u].pc = "empty" /\ th'[u].h.id = s
    BY ZenonT(60), <1>4, <1>9, <2>1
  <2>5. Len(new.msgs) <= MaxMsg
    BY <1>4, <1>6, <1>8, <1>9, MsgAssumption
  <2> QED
    BY Zenon, <1>2, <1>4, <1>8, <1>9, <2>2, <2>3, <2>4, <2>5 DEF GoodQueue
<1>24. GoodThreads(s, new)
  <2>1. \A u \in MsgThreads : th[u].pc \in {"empty", "full"} => u # t
    BY Zenon
  <2>2. \A u \in MsgThreads : th'[u].pc = "empty" => u # t /\ u \notin Listed(q.senders)
    BY Zenon, <1>13, <1>18, <1>20
  <2>3. \A u \in MsgThreads : th[u].h.id # s => u \notin Listed(q.senders)
    BY Zenon, <1>4
  <2>4. \A u \in MsgThreads : th'[u].pc = "empty" => th'[u] = th[u] /\ (th[u].h.id = s => u \in Listed(q.receivers))
    BY Zenon, <1>4, <1>19, <2>2
  <2>5. \A u \in MsgThreads : th[u].pc \in {"empty", "full"} /\ th[u].h.id # s => th'[u] = th[u]
    BY Zenon, <1>19, <2>1, <2>3
  <2>6. \A u \in MsgThreads : th'[u].pc = "full" => u \notin Listed(q.senders) /\ th'[u] = th[u]
    BY Zenon, <1>13, <1>18, <1>19, <1>20
  <2> QED
    BY Zenon, <1>2, <1>9, <1>10, <2>4, <2>5, <2>6 DEF GoodThreads
<1>25. MsgRest'
  BY Zenon, <1>2, <1>11, <1>21, <1>23, <1>24, QueueStepKeeps
<1> QED
  BY Zenon, <1>22, <1>25 DEF MsgIndInv, MsgRest

\* msgrcv finds none: the thread joins the receivers, and the queue has nothing for it.
LEMMA RcvSleeps ==
  ASSUME MsgIndInv, NEW t \in MsgThreads, th[t].pc = "idle", NEW h \in Handles,
         NEW q, q = GetMsgq(h), q # NoQueue, NEW mtype \in RcvTypes, NEW size \in MsgSizes,
         FindMsg(q.msgs, mtype) = 0,
         entries' = [entries EXCEPT ![h.id].receivers = Append(@, t)],
         th' = [th EXCEPT ![t] = [pc |-> "empty", h |-> h, type |-> mtype, size |-> size]],
         UNCHANGED <<seq, handles, created, sends, mkilled, done, fault>>
  PROVE  MsgIndInv'
<1>1. PICK s : s = h.id
  BY Zenon
<1>2. s \in Ids /\ entries[s] = q /\ q \in MsgQueues
  BY Zenon, <1>1, HandleQueue DEF MsgIndInv
<1>3. PICK list, new : list = Append(q.receivers, t) /\ new = [q EXCEPT !.receivers = list]
  BY Zenon
<1>4. /\ Distinct(q.receivers) /\ Distinct(q.senders) /\ Distinct(q.msgs)
      /\ \A u \in Listed(q.receivers) : u \in MsgThreads /\ th[u].pc = "empty" /\ th[u].h.id = s
      /\ \A u \in Listed(q.senders) : u \in MsgThreads /\ th[u].pc = "full" /\ th[u].h.id = s
      /\ \A u \in MsgThreads : th[u].pc = "empty" /\ th[u].h.id = s => u \in Listed(q.receivers)
      /\ \A u \in Listed(q.receivers), b \in Listed(q.msgs) : ~TestMsg(th[u].type, b.type)
      /\ Len(q.msgs) <= MaxMsg /\ (q.senders # <<>> => Len(q.msgs) = MaxMsg)
  <2>1. QueueFacts(s, q)
    BY Zenon, <1>2, OnQueue
  <2> QED
    BY Zenon, <2>1 DEF QueueFacts
<1>5. t \notin Listed(q.senders) /\ t \notin Listed(q.receivers)
  BY Zenon, <1>4
<1>6. q.msgs \in Seq(Msgs) /\ q.receivers \in Seq(MsgThreads)
  BY Zenon, <1>2, QueueFields
<1>7. list \in Seq(MsgThreads) /\ Distinct(list) /\ Listed(list) = Listed(q.receivers) \cup {t}
  <2>1. /\ Append(q.receivers, t) \in Seq(MsgThreads) /\ Distinct(Append(q.receivers, t))
        /\ Listed(Append(q.receivers, t)) = Listed(q.receivers) \cup {t}
    BY <1>4, <1>5, <1>6, AppendEntry
  <2> QED
    BY Zenon, <1>3, <2>1
<1>8. /\ new \in MsgQueues /\ new.msgs = q.msgs /\ new.receivers = list /\ new.senders = q.senders
      /\ new.born = q.born
  BY Zenon, <1>2, <1>3, <1>7 DEF MsgQueues
<1>9. new # NoQueue
  BY Zenon, <1>8, QueueFields
<1>10. entries' \in [Ids -> MsgQueues \cup {NoQueue}] /\ OneEntry(s, new)
  <2>1. entries' = [entries EXCEPT ![s] = new]
    BY Zenon, <1>1, <1>2, <1>3
  <2> QED
    BY Zenon, <1>2, <1>8, <2>1, EntryTyped DEF MsgIndInv
<1>11. PICK x \in CallStates : x = [pc |-> "empty", h |-> h, type |-> mtype, size |-> size]
  <2>1. [pc |-> "empty", h |-> h, type |-> mtype, size |-> size]
          \in [pc : {"empty"}, h : Handles, type : RcvTypes, size : MsgSizes]
    BY Zenon
  <2> QED
    BY Zenon, <2>1 DEF CallStates
<1>12. x.pc = "empty" /\ x.h.id = s /\ x.type = mtype
  BY Zenon, <1>1, <1>11
<1>13. /\ th' \in [MsgThreads -> CallStates] /\ th'[t] = x
       /\ \A u \in MsgThreads \ {t} : th'[u] = th[u] /\ Held(u)' = Held(u)
  BY Zenon, <1>11, OneThread DEF MsgIndInv
<1>14. InPlace(QueueContents', ThreadContents', done', sends')
  <2>1. QueueContents' = QueueContents
    BY Zenon, <1>2, <1>8, <1>9, <1>10, SameQueueContents
  <2>2. Held(t)' = {} /\ Held(t) = {}
    BY Zenon, <1>12, <1>13, HeldIn
  <2>3. ThreadContents' = ThreadContents
    BY Zenon, <1>13, <2>2 DEF ThreadContents
  <2> QED
    BY Zenon, <2>1, <2>3 DEF MsgIndInv, MessagesApart
<1>15. MsgTypeOK'
  BY Zenon, <1>10, <1>13 DEF MsgIndInv, MsgTypeOK
<1>16. GoodQueue(s, new)
  <2>1. \A u \in Listed(q.receivers) : th'[u] = th[u]
    BY Zenon, <1>4, <1>5, <1>13
  <2>2. \A u \in Listed(q.senders) : th'[u] = th[u]
    BY Zenon, <1>4, <1>5, <1>13
  <2>3. \A b \in Listed(q.msgs) : ~TestMsg(mtype, b.type)
    <3>1. mtype \in Int
      BY Zenon, MsgAssumption
    <3> QED
      BY Zenon, <1>6, <3>1, MsgFound
  <2>4. \A u \in Listed(new.receivers), b \in Listed(new.msgs) : ~TestMsg(th'[u].type, b.type)
    BY ZenonT(60), <1>4, <1>7, <1>8, <1>12, <1>13, <2>1, <2>3
  <2>5. \A u \in Listed(new.receivers) : th'[u].pc = "empty" /\ th'[u].h.id = s
    BY ZenonT(60), <1>4, <1>7, <1>8, <1>12, <1>13, <2>1
  <2>6. \A u \in Listed(new.senders) : th'[u].pc = "full" /\ th'[u].h.id = s
    BY ZenonT(60), <1>4, <1>8, <2>2
  <2> QED
    BY Zenon, <1>2, <1>4, <1>7, <1>8, <2>4, <2>5, <2>6 DEF GoodQueue
<1>17. GoodThreads(s, new)
  <2>1. \A u \in MsgThreads : th[u].pc \in {"empty", "full"} => u # t
    BY Zenon
  <2>2. ASSUME NEW u \in MsgThreads, th'[u].pc = "empty"
        PROVE  (th'[u].h.id = s /\ u \in Listed(new.receivers)) \/ (th'[u] = th[u] /\ th[u].h.id # s)
    BY ZenonT(60), <1>4, <1>7, <1>8, <1>12, <1>13, <2>2
  <2>3. \A u \in MsgThreads : th'[u].pc = "full" =>
          th'[u] = th[u] /\ (u \in Listed(entries[s].senders) => u \in Listed(new.senders))
    BY Zenon, <1>2, <1>8, <1>12, <1>13
  <2>4. \A u \in MsgThreads : th[u].pc \in {"empty", "full"} => th'[u] = th[u]
    BY Zenon, <1>13, <2>1
  <2> QED
    BY Zenon, <1>9, <2>2, <2>3, <2>4 DEF GoodThreads
<1>18. MsgRest'
  BY Zenon, <1>2, <1>10, <1>14, <1>16, <1>17, QueueStepKeeps
<1> QED
  BY Zenon, <1>15, <1>18 DEF MsgIndInv, MsgRest

\* The two ways msgrcv goes on.
LEMMA SysMsgrcvKeepsInv ==
  ASSUME MsgIndInv, NEW t \in MsgThreads, NEW h \in handles, SysMsgrcv(t, h)
  PROVE  MsgIndInv'
<1>1. PICK q : q = GetMsgq(h)
  BY Zenon
<1>2. h \in Handles /\ th[t].pc = "idle" /\ q # NoQueue /\ UNCHANGED <<seq, handles, created, sends, mkilled, done, fault>>
  BY Zenon, <1>1 DEF MsgIndInv, MsgTypeOK, SysMsgrcv
<1>3. q \in MsgQueues
  BY Zenon, <1>1, <1>2, HandleQueue DEF MsgIndInv
<1>4. PICK mtype \in RcvTypes, size \in MsgSizes :
        LET i == FindMsg(q.msgs, mtype) IN
        \/ /\ i # 0 /\ q.msgs[i].size <= size
           /\ entries' = [entries EXCEPT ![h.id].msgs = Detach(@, q.msgs[i]), ![h.id].senders = <<>>]
           /\ th' = [SsWakeup(q.senders) EXCEPT ![t] = [pc |-> "woken", type |-> mtype, rmsg |-> q.msgs[i]]]
        \/ /\ i = 0
           /\ entries' = [entries EXCEPT ![h.id].receivers = Append(@, t)]
           /\ th' = [th EXCEPT ![t] = [pc |-> "empty", h |-> h, type |-> mtype, size |-> size]]
  BY Zenon, <1>1 DEF SysMsgrcv
<1>5. PICK i : i = FindMsg(q.msgs, mtype)
  BY Zenon
<1>6. CASE /\ i = 0
           /\ entries' = [entries EXCEPT ![h.id].receivers = Append(@, t)]
           /\ th' = [th EXCEPT ![t] = [pc |-> "empty", h |-> h, type |-> mtype, size |-> size]]
  BY Zenon, <1>1, <1>2, <1>5, <1>6, RcvSleeps
<1>7. CASE /\ i # 0
           /\ entries' = [entries EXCEPT ![h.id].msgs = Detach(@, q.msgs[i]), ![h.id].senders = <<>>]
           /\ th' = [SsWakeup(q.senders) EXCEPT ![t] = [pc |-> "woken", type |-> mtype, rmsg |-> q.msgs[i]]]
  <2>1. q.msgs \in Seq(Msgs)
    BY Zenon, <1>3, QueueFields
  <2>2. mtype \in Int
    BY Zenon, MsgAssumption
  <2>3. PICK a \in Listed(q.msgs) : a = q.msgs[i]
    BY Zenon, <1>5, <1>7, <2>1, <2>2, MsgFound
  <2> QED
    BY Zenon, <1>1, <1>2, <1>7, <2>3, RcvFound
<1> QED
  BY Zenon, <1>4, <1>5, <1>6, <1>7

-----------------------------------------------------------------------------
(* The theorems.                                                              *)

\* The invariant holds at boot and every call keeps it.
LEMMA MsgInvariance == MsgSpec => []MsgIndInv
<1>1. MsgInit => MsgIndInv
  <2> SUFFICES ASSUME MsgInit PROVE MsgIndInv
    BY Zenon
  <2>1. MsgTypeOK
    <3>1. 0 \in 0 .. U16 - 1 /\ 0 \in 0 .. MaxQueues /\ 0 \in 0 .. MaxSends
      BY MsgAssumption
    <3>2. IdleThread \in CallStates
      BY Zenon DEF CallStates
    <3> QED
      BY Zenon, <3>1, <3>2 DEF MsgInit, MsgTypeOK
  <2>2. \A i \in Ids : entries[i] = NoQueue
    BY Zenon DEF MsgInit
  <2>3. \A t \in MsgThreads : th[t].pc = "idle"
    BY Zenon DEF MsgInit, IdleThread
  <2>4. \A i \in Ids : QueueContents[i] = {}
    BY Zenon, <2>2 DEF QueueContents, InQueue
  <2>5. \A t \in MsgThreads : ThreadContents[t] = {}
    BY Zenon, <2>3, HeldIn DEF ThreadContents
  <2>6. MessagesApart
    <3>1. Apart(QueueContents, ThreadContents, done, sends)
      BY Zenon, <2>4, <2>5 DEF MsgInit, Apart
    <3>2. \A n \in 0 .. sends - 1 : Placed(n, QueueContents, ThreadContents, done)
      BY DEF MsgInit
    <3> QED
      BY Zenon, <2>2, <3>1, <3>2 DEF MessagesApart, InPlace
  <2>7. OnLists
    BY Zenon, <2>2, <2>3 DEF OnLists
  <2> QED
    BY Zenon, <2>1, <2>2, <2>3, <2>6, <2>7 DEF MsgIndInv, BornOnce, NoMiss, WaitWhenFull, SendersOn
<1>2. MsgIndInv /\ [MsgNext]_msgvars => MsgIndInv'
  <2> SUFFICES ASSUME MsgIndInv, [MsgNext]_msgvars PROVE MsgIndInv'
    BY Zenon
  <2>1. CASE UNCHANGED msgvars
    <3>1. MsgTypeOK'
      BY Zenon, <2>1 DEF msgvars, MsgIndInv, MsgTypeOK
    <3>2. MsgRest'
      BY Zenon, <2>1, QuietMsgStep DEF msgvars, MsgIndInv, MsgRest
    <3> QED
      BY Zenon, <3>1, <3>2 DEF MsgIndInv, MsgRest
  <2>2. ASSUME NEW key \in Keys, SysMsgget(key) PROVE MsgIndInv'
    BY Zenon, <2>2, GetFoundKeeps, GetNewKeeps DEF SysMsgget
  <2>3. ASSUME NEW h \in handles, Freeque(h) PROVE MsgIndInv'
    BY Zenon, <2>3, FreequeKeeps
  <2>4. ASSUME NEW t \in MsgThreads, NEW h \in handles, SysMsgsnd(t, h) \/ SysMsgrcv(t, h) PROVE MsgIndInv'
    BY Zenon, <2>4, SysMsgsndKeeps, SysMsgrcvKeepsInv
  <2>5. ASSUME NEW t \in MsgThreads, RetrySend(t) \/ Received(t) PROVE MsgIndInv'
    BY Zenon, <2>5, RetrySendKeeps, ReceivedKeeps
  <2>6. ASSUME NEW t \in MsgThreads, ReceiveKilled(t) PROVE MsgIndInv'
    <3>1. mkilled' \subseteq MsgThreads /\ fault' \in {"none", "spin", "wild", "dangling"}
      BY Zenon, <2>6 DEF ReceiveKilled, MsgIndInv, MsgTypeOK
    <3> QED
      BY Zenon, <2>6, <3>1, FlagStep DEF ReceiveKilled
  <2>7. ASSUME NEW t \in MsgThreads, KillThread(t) PROVE MsgIndInv'
    <3>1. mkilled' \subseteq MsgThreads /\ fault' \in {"none", "spin", "wild", "dangling"}
      BY Zenon, <2>7 DEF KillThread, MsgIndInv, MsgTypeOK
    <3> QED
      BY Zenon, <2>7, <3>1, FlagStep DEF KillThread
  <2> QED
    BY Zenon, <2>1, <2>2, <2>3, <2>4, <2>5, <2>6, <2>7 DEF MsgNext
<1> QED
  BY <1>1, <1>2, PTL DEF MsgSpec

\* msgsnd, msgrcv, kills and the removal of a queue leave nobody waiting in vain but
\* the senders of a removed queue: no receiver sleeps while its message is in the
\* queue or on the list of a queue that is gone, senders wait only for room, and a
\* sleeping sender is on the list of its queue until that is freed (ipc.c:132-281).
THEOREM OnlyRemovalStrandsInvariant == MsgSpec => []OnlyRemovalStrands
<1>1. MsgIndInv => OnlyRemovalStrands
  <2> SUFFICES ASSUME MsgIndInv PROVE OnlyRemovalStrands
    BY Zenon
  <2>1. ASSUME NEW q \in Queues PROVE \E i \in Ids : entries[i] = q /\ q # NoQueue
    BY Zenon, <2>1 DEF Queues
  <2>2. NoReceiverMissesMessage
    <3> SUFFICES ASSUME NEW q \in Queues, NEW i \in DOMAIN q.receivers, NEW j \in DOMAIN q.msgs
                 PROVE  ~TestMsg(th[q.receivers[i]].type, q.msgs[j].type)
      BY Zenon DEF NoReceiverMissesMessage
    <3>1. PICK s \in Ids : entries[s] = q /\ q # NoQueue
      BY Zenon, <2>1
    <3>2. q \in MsgQueues
      BY Zenon, <3>1, EntryIs DEF MsgIndInv
    <3>3. q.receivers \in Seq(MsgThreads) /\ q.msgs \in Seq(Msgs)
      BY Zenon, <3>2, QueueFields
    <3>4. q.receivers[i] \in Listed(q.receivers) /\ q.msgs[j] \in Listed(q.msgs)
      BY <3>3 DEF Listed
    <3>5. \A u \in Listed(q.receivers), a \in Listed(q.msgs) : ~TestMsg(th[u].type, a.type)
      <4>1. QueueFacts(s, q)
        BY Zenon, <3>1, OnQueue
      <4> QED
        BY Zenon, <4>1 DEF QueueFacts
    <3> QED
      BY Zenon, <3>4, <3>5
  <2>3. ReceiversNotStranded
    <3> SUFFICES ASSUME NEW t \in MsgThreads, th[t].pc = "empty" PROVE \E q \in Queues : t \in Listed(q.receivers)
      BY Zenon DEF ReceiversNotStranded
    <3>1. th[t].h \in Handles
      BY Zenon, ThreadFields DEF MsgIndInv
    <3>2. th[t].h.id \in Ids
      BY Zenon, <3>1 DEF Handles
    <3>3. entries[th[t].h.id] # NoQueue /\ t \in Listed(entries[th[t].h.id].receivers)
      BY Zenon DEF MsgIndInv, OnLists
    <3> QED
      BY Zenon, <3>2, <3>3 DEF Queues
  <2>4. SendersWaitOnlyWhenFull
    BY Zenon, <2>1 DEF SendersWaitOnlyWhenFull, MsgIndInv, WaitWhenFull
  <2>5. SendersListed
    <3> SUFFICES ASSUME NEW t \in MsgThreads, th[t].pc = "full", NEW q \in Queues, q.born = th[t].on
                 PROVE  t \in Listed(q.senders)
      BY Zenon DEF SendersListed
    <3>1. PICK i \in Ids : entries[i] = q /\ q # NoQueue
      BY Zenon, <2>1
    <3> QED
      BY Zenon, <3>1 DEF MsgIndInv, SendersOn
  <2> QED
    BY Zenon, <2>2, <2>3, <2>4, <2>5 DEF OnlyRemovalStrands
<1> QED
  BY <1>1, MsgInvariance, PTL

\* The things of S carry the numbers of N in their field j, no two the same one.
NumberedBy(S, j, N) ==
    /\ \A x, y \in S : x[j] = y[j] => x = y
    /\ \A x \in S : x[j] \in N
    /\ \A n \in N : \E x \in S : x[j] = n

\* Things that carry different numbers are as many as the numbers.
LEMMA NumbersCount ==
  ASSUME NEW S, NEW j, NEW N, IsFiniteSet(N), NumberedBy(S, j, N)
  PROVE  Cardinality(N) = Cardinality(S)
<1>1. PICK g : g = [x \in S |-> x[j]]
  BY Zenon
<1>2. g \in [S -> N] /\ \A x \in S : g[x] = x[j]
  BY Zenon, <1>1 DEF NumberedBy
<1>3. g \in Bijection(S, N) /\ g \in Injection(S, N) /\ g \in Surjection(S, N)
  BY <1>1, <1>2 DEF NumberedBy, Bijection, Injection, Surjection, IsInjective
<1> QED
  BY Zenon, <1>3, FS_Injection

\* Three groups of things, all with different numbers.
LEMMA NumbersAddUp ==
  ASSUME NEW A, NEW B, NEW C, NEW K, NEW L, NEW M, NEW N, N = K \cup L \cup M, IsFiniteSet(N),
         Cardinality(K) = Cardinality(A), Cardinality(L) = Cardinality(B), Cardinality(M) = Cardinality(C),
         K \cap (L \cup M) = {}, L \cap M = {}
  PROVE  Cardinality(N) = Cardinality(A) + Cardinality(B) + Cardinality(C)
<1>1. IsFiniteSet(K) /\ IsFiniteSet(L) /\ IsFiniteSet(M) /\ IsFiniteSet(L \cup M)
  <2>1. K \in SUBSET N /\ L \in SUBSET N /\ M \in SUBSET N /\ L \cup M \in SUBSET N
    BY Zenon
  <2> QED
    BY Zenon, <2>1, FS_Subset
<1>2. Cardinality({}) = 0
  BY Zenon, FS_EmptySet
<1>3. /\ Cardinality(K) \in Nat /\ Cardinality(L) \in Nat /\ Cardinality(M) \in Nat
      /\ Cardinality(L \cup M) \in Nat
  BY Zenon, <1>1, FS_CardinalityType
<1>4. Cardinality(L \cup M) = Cardinality(L) + Cardinality(M) - Cardinality(L \cap M)
  BY Zenon, <1>1, FS_Union
<1>5. Cardinality(K \cup (L \cup M)) = Cardinality(K) + Cardinality(L \cup M) - Cardinality(K \cap (L \cup M))
  BY Zenon, <1>1, FS_Union
<1>6. N = K \cup (L \cup M)
  BY Zenon
<1>7. Cardinality(L \cap M) = 0 /\ Cardinality(K \cap (L \cup M)) = 0
  BY Zenon, <1>2
<1>8. Cardinality(N) = Cardinality(K \cup (L \cup M))
  BY Zenon, <1>6
<1>9. PICK k, l, m, lm : /\ k = Cardinality(K) /\ l = Cardinality(L) /\ m = Cardinality(M)
                         /\ lm = Cardinality(L \cup M)
  BY Zenon
<1>10. lm = l + m - 0 /\ Cardinality(N) = k + lm - 0 /\ k \in Nat /\ l \in Nat /\ m \in Nat
  BY Zenon, <1>3, <1>4, <1>5, <1>7, <1>8, <1>9
<1>11. Cardinality(N) = k + l + m
  BY <1>10
<1> QED
  BY Zenon, <1>9, <1>11

\* Every message built is in one place, and in one only, whatever the interleaving of
\* sends, retries, receives, kills and removals; it is freed once (ipc.c:132-294).
THEOREM MessagesInOnePlace == MsgSpec => []MsgInv
<1>1. MsgIndInv => MsgInv
  <2> SUFFICES ASSUME MsgIndInv PROVE MessagesHeldOnce
    BY Zenon DEF MsgInv, MsgIndInv
  <2>1. PICK A : A = UNION {{<<q.born, i, q.msgs[i].n>> : i \in DOMAIN q.msgs} : q \in Queues}
    BY Zenon
  <2>2. PICK B : B = {<<t, th[t].m.n>> : t \in {s \in MsgThreads : th[s].pc \in {"full", "retry"}}}
    BY Zenon
  <2>3. PICK C : C = {<<t, th[t].rmsg.n>> : t \in {s \in MsgThreads : th[s].pc = "woken" /\ th[s].rmsg.n >= 0}}
    BY Zenon
  <2>4. PICK K, L, M : K = {x[3] : x \in A} /\ L = {x[2] : x \in B} /\ M = {x[2] : x \in C}
    BY Zenon
  <2>5. PICK N : N = {x[3] : x \in A} \cup {x[2] : x \in B \cup C}
    BY Zenon
  <2>6. N = K \cup L \cup M
    BY Zenon, <2>4, <2>5
  <2>7. ASSUME NEW x \in A
        PROVE  \E s \in Ids, k \in Nat, a \in Msgs :
                 /\ entries[s] # NoQueue /\ k \in 1 .. Len(entries[s].msgs) /\ a = entries[s].msgs[k]
                 /\ a \in QueueContents[s] /\ x = <<entries[s].born, k, a.n>> /\ x[3] = a.n
    <3>1. PICK q \in Queues : \E i \in DOMAIN q.msgs : x = <<q.born, i, q.msgs[i].n>>
      BY Zenon, <2>1, <2>7
    <3>2. PICK i \in DOMAIN q.msgs : x = <<q.born, i, q.msgs[i].n>>
      BY Zenon, <3>1
    <3>3. PICK s \in Ids : entries[s] = q /\ q # NoQueue
      BY Zenon DEF Queues
    <3>4. q.msgs \in Seq(Msgs)
      BY Zenon, <3>3, EntryIs, QueueFields DEF MsgIndInv
    <3>5. i \in Nat /\ i \in 1 .. Len(q.msgs) /\ q.msgs[i] \in Msgs /\ q.msgs[i] \in Listed(q.msgs)
      BY <3>4 DEF Listed
    <3>6. QueueContents[s] = Listed(q.msgs)
      BY Zenon, <3>3 DEF QueueContents, InQueue
    <3>7. x[3] = q.msgs[i].n
      BY Zenon, <3>2
    <3> QED
      BY Zenon, <3>2, <3>3, <3>5, <3>6, <3>7
  <2>8. ASSUME NEW x \in B
        PROVE  \E t \in MsgThreads, a \in Msgs :
                 th[t].pc \in {"full", "retry"} /\ a \in ThreadContents[t] /\ x = <<t, a.n>> /\ x[2] = a.n
    <3>1. PICK t \in MsgThreads : th[t].pc \in {"full", "retry"} /\ x = <<t, th[t].m.n>>
      BY Zenon, <2>2, <2>8
    <3>2. th[t].m \in Msgs
      BY Zenon, <3>1, ThreadFields DEF MsgIndInv
    <3>3. ThreadContents[t] = {th[t].m}
      BY Zenon, <3>1, HeldIn DEF ThreadContents
    <3>4. x[2] = th[t].m.n
      BY Zenon, <3>1
    <3> QED
      BY Zenon, <3>1, <3>2, <3>3, <3>4
  <2>9. ASSUME NEW x \in C
        PROVE  \E t \in MsgThreads, a \in Msgs :
                 th[t].pc = "woken" /\ a \in ThreadContents[t] /\ x = <<t, a.n>> /\ x[2] = a.n
    <3>1. PICK t \in MsgThreads : th[t].pc = "woken" /\ th[t].rmsg.n >= 0 /\ x = <<t, th[t].rmsg.n>>
      BY Zenon, <2>3, <2>9
    <3>2. th[t].rmsg \in Msgs \cup {NullMsg, WildMsg}
      BY Zenon, <3>1, ThreadFields DEF MsgIndInv
    <3>3. th[t].rmsg \in Msgs
      BY <3>1, <3>2 DEF NullMsg, WildMsg
    <3>4. ThreadContents[t] = {th[t].rmsg}
      BY Zenon, <3>1, <3>3, HeldIn DEF ThreadContents
    <3>5. x[2] = th[t].rmsg.n
      BY Zenon, <3>1
    <3> QED
      BY Zenon, <3>1, <3>3, <3>4, <3>5
  <2>10. /\ \A i, j \in Ids : \A a \in QueueContents[i], b \in QueueContents[j] : a.n = b.n => i = j /\ a = b
         /\ \A t, u \in MsgThreads : \A a \in ThreadContents[t], b \in ThreadContents[u] : a.n = b.n => t = u
         /\ \A i \in Ids, t \in MsgThreads : \A a \in QueueContents[i], b \in ThreadContents[t] : a.n # b.n
         /\ \A i \in Ids : \A a \in QueueContents[i] : a.n \notin done
         /\ \A t \in MsgThreads : \A a \in ThreadContents[t] : a.n \notin done
    BY Zenon DEF MsgIndInv, MessagesApart, InPlace, Apart
  <2>11. IsFiniteSet(N) /\ \A n \in N : n \in 0 .. MaxSends - 1
    <3>1. \A n \in N : n \in 0 .. MaxSends - 1
      <4>1. \A a \in Msgs : a.n \in 0 .. MaxSends - 1
        BY Zenon DEF Msgs
      <4>2. \A n \in K : n \in 0 .. MaxSends - 1
        BY ZenonT(60), <2>4, <2>7, <4>1
      <4>3. \A n \in L : n \in 0 .. MaxSends - 1
        BY Zenon, <2>4, <2>8, <4>1
      <4>4. \A n \in M : n \in 0 .. MaxSends - 1
        BY Zenon, <2>4, <2>9, <4>1
      <4> QED
        BY Zenon, <2>6, <4>2, <4>3, <4>4
    <3>2. 0 \in Int /\ MaxSends - 1 \in Int
      BY MsgAssumption
    <3>3. IsFiniteSet(0 .. MaxSends - 1)
      BY Zenon, <3>2, FS_Interval
    <3>4. N \in SUBSET (0 .. MaxSends - 1)
      BY Zenon, <3>1
    <3> QED
      BY Zenon, <3>1, <3>3, <3>4, FS_Subset
  <2>12. IsFiniteSet(K) /\ IsFiniteSet(L) /\ IsFiniteSet(M)
    <3>1. K \in SUBSET N /\ L \in SUBSET N /\ M \in SUBSET N
      BY Zenon, <2>6
    <3> QED
      BY Zenon, <2>11, <3>1, FS_Subset
  <2>13. Cardinality(K) = Cardinality(A)
    <3>1. ASSUME NEW x \in A, NEW y \in A, x[3] = y[3] PROVE x = y
      <4>1. PICK s \in Ids, k \in Nat, a \in Msgs :
              /\ entries[s] # NoQueue /\ k \in 1 .. Len(entries[s].msgs) /\ a = entries[s].msgs[k]
              /\ a \in QueueContents[s] /\ x = <<entries[s].born, k, a.n>> /\ x[3] = a.n
        BY Zenon, <2>7, <3>1
      <4>2. PICK r \in Ids, j \in Nat, b \in Msgs :
              /\ entries[r] # NoQueue /\ j \in 1 .. Len(entries[r].msgs) /\ b = entries[r].msgs[j]
              /\ b \in QueueContents[r] /\ y = <<entries[r].born, j, b.n>> /\ y[3] = b.n
        BY Zenon, <2>7, <3>1
      <4>3. s = r /\ a = b
        BY ZenonT(60), <2>10, <3>1, <4>1, <4>2
      <4>4. Distinct(entries[s].msgs)
        BY Zenon, <4>1 DEF MsgIndInv, MessagesApart
      <4>5. k = j
        BY Zenon, <4>1, <4>2, <4>3, <4>4 DEF Distinct
      <4> QED
        BY Zenon, <4>1, <4>2, <4>3, <4>5
    <3>2. NumberedBy(A, 3, K)
      BY Zenon, <2>4, <3>1 DEF NumberedBy
    <3> QED
      BY Zenon, <2>12, <3>2, NumbersCount
  <2>14. Cardinality(L) = Cardinality(B)
    <3>1. ASSUME NEW x \in B, NEW y \in B, x[2] = y[2] PROVE x = y
      <4>1. PICK t \in MsgThreads, a \in Msgs : a \in ThreadContents[t] /\ x = <<t, a.n>> /\ x[2] = a.n
        BY Zenon, <2>8, <3>1
      <4>2. PICK u \in MsgThreads, b \in Msgs : b \in ThreadContents[u] /\ y = <<u, b.n>> /\ y[2] = b.n
        BY Zenon, <2>8, <3>1
      <4>3. a.n = b.n
        BY Zenon, <3>1, <4>1, <4>2
      <4>4. t = u
        BY Zenon, <2>10, <4>1, <4>2, <4>3
      <4> QED
        BY Zenon, <4>1, <4>2, <4>3, <4>4
    <3>2. NumberedBy(B, 2, L)
      BY Zenon, <2>4, <3>1 DEF NumberedBy
    <3> QED
      BY Zenon, <2>12, <3>2, NumbersCount
  <2>15. Cardinality(M) = Cardinality(C)
    <3>1. ASSUME NEW x \in C, NEW y \in C, x[2] = y[2] PROVE x = y
      <4>1. PICK t \in MsgThreads, a \in Msgs : a \in ThreadContents[t] /\ x = <<t, a.n>> /\ x[2] = a.n
        BY Zenon, <2>9, <3>1
      <4>2. PICK u \in MsgThreads, b \in Msgs : b \in ThreadContents[u] /\ y = <<u, b.n>> /\ y[2] = b.n
        BY Zenon, <2>9, <3>1
      <4>3. a.n = b.n
        BY Zenon, <3>1, <4>1, <4>2
      <4>4. t = u
        BY Zenon, <2>10, <4>1, <4>2, <4>3
      <4> QED
        BY Zenon, <4>1, <4>2, <4>3, <4>4
    <3>2. NumberedBy(C, 2, M)
      BY Zenon, <2>4, <3>1 DEF NumberedBy
    <3> QED
      BY Zenon, <2>12, <3>2, NumbersCount
  <2>16. K \cap (L \cup M) = {}
    <3> SUFFICES ASSUME NEW n \in K, n \in L \cup M PROVE FALSE
      BY Zenon
    <3>1. PICK s \in Ids, a \in Msgs : a \in QueueContents[s] /\ n = a.n
      BY Zenon, <2>4, <2>7
    <3>2. PICK t \in MsgThreads, b \in Msgs : b \in ThreadContents[t] /\ n = b.n
      BY Zenon, <2>4, <2>8, <2>9
    <3> QED
      BY Zenon, <2>10, <3>1, <3>2
  <2>17. L \cap M = {}
    <3> SUFFICES ASSUME NEW n \in L, n \in M PROVE FALSE
      BY Zenon
    <3>1. PICK t \in MsgThreads, a \in Msgs : th[t].pc \in {"full", "retry"} /\ a \in ThreadContents[t] /\ n = a.n
      BY Zenon, <2>4, <2>8
    <3>2. PICK u \in MsgThreads, b \in Msgs : th[u].pc = "woken" /\ b \in ThreadContents[u] /\ n = b.n
      BY Zenon, <2>4, <2>9
    <3>3. t = u
      BY Zenon, <2>10, <3>1, <3>2
    <3> QED
      BY Zenon, <3>1, <3>2, <3>3
  <2>18. Cardinality(N) = Cardinality(A) + Cardinality(B) + Cardinality(C)
    BY <2>6, <2>11, <2>13, <2>14, <2>15, <2>16, <2>17, NumbersAddUp
  <2>19. N \cap done = {}
    <3>1. ASSUME NEW n \in K PROVE n \notin done
      <4>1. PICK s \in Ids, a \in Msgs : a \in QueueContents[s] /\ n = a.n
        BY Zenon, <2>4, <2>7, <3>1
      <4> QED
        BY Zenon, <2>10, <4>1
    <3>2. ASSUME NEW n \in L \cup M PROVE n \notin done
      <4>1. PICK t \in MsgThreads, b \in Msgs : b \in ThreadContents[t] /\ n = b.n
        BY Zenon, <2>4, <2>8, <2>9, <3>2
      <4> QED
        BY Zenon, <2>10, <4>1
    <3> QED
      BY Zenon, <2>6, <3>1, <3>2
  <2>20. N \cup done = 0 .. sends - 1
    <3>1. ASSUME NEW n \in 0 .. sends - 1 PROVE n \in N \cup done
      <4>1. Placed(n, QueueContents, ThreadContents, done)
        BY Zenon, <3>1 DEF MsgIndInv, MessagesApart, InPlace
      <4>2. ASSUME NEW i \in Ids, NEW a \in QueueContents[i], a.n = n PROVE n \in K
        <5>1. entries[i] # NoQueue /\ a \in Listed(entries[i].msgs)
          BY Zenon, <4>2 DEF QueueContents, InQueue
        <5>2. PICK q \in Queues : q = entries[i]
          BY Zenon, <5>1 DEF Queues
        <5>3. PICK k \in DOMAIN q.msgs : q.msgs[k] = a
          <6>1. q.msgs \in Seq(Msgs)
            BY Zenon, <5>1, <5>2, EntryIs, QueueFields DEF MsgIndInv
          <6> QED
            BY <5>1, <5>2, <6>1 DEF Listed
        <5>4. PICK x : x = <<q.born, k, q.msgs[k].n>>
          BY Zenon
        <5>5. x \in A
          <6>1. x \in {<<q.born, j, q.msgs[j].n>> : j \in DOMAIN q.msgs}
            BY Zenon, <5>4
          <6>2. {<<q.born, j, q.msgs[j].n>> : j \in DOMAIN q.msgs}
                  \in {{<<r.born, j, r.msgs[j].n>> : j \in DOMAIN r.msgs} : r \in Queues}
            BY Zenon
          <6>3. x \in UNION {{<<r.born, j, r.msgs[j].n>> : j \in DOMAIN r.msgs} : r \in Queues}
            BY Zenon, <6>1, <6>2
          <6> QED
            BY Zenon, <2>1, <6>3
        <5>6. x[3] = n
          BY SMT, <4>2, <5>3, <5>4
        <5> QED
          BY Zenon, <2>4, <5>5, <5>6
      <4>3. ASSUME NEW t \in MsgThreads, NEW a \in ThreadContents[t], a.n = n PROVE n \in L \cup M
        <5>1. a \in Held(t)
          BY Zenon, <4>3 DEF ThreadContents
        <5>2. CASE th[t].pc \in {"full", "retry"}
          <6>1. a = th[t].m
            BY Zenon, <5>1, <5>2 DEF Held
          <6>2. PICK x : x = <<t, th[t].m.n>>
            BY Zenon
          <6>3. x \in B /\ x[2] = n
            BY Zenon, <2>2, <4>3, <5>2, <6>1, <6>2
          <6> QED
            BY Zenon, <2>4, <6>3
        <5>3. CASE th[t].pc \notin {"full", "retry"}
          <6>1. th[t].pc = "woken" /\ th[t].rmsg \in Msgs /\ a = th[t].rmsg
            BY Zenon, <5>1, <5>3 DEF Held
          <6>2. th[t].rmsg.n >= 0
            BY Zenon, <6>1, NoMsgs
          <6>3. PICK x : x = <<t, th[t].rmsg.n>>
            BY Zenon
          <6>4. x \in C /\ x[2] = n
            BY Zenon, <2>3, <4>3, <6>1, <6>2, <6>3
          <6> QED
            BY Zenon, <2>4, <6>4
        <5> QED
          BY Zenon, <5>2, <5>3
      <4> QED
        BY Zenon, <2>6, <4>1, <4>2, <4>3 DEF Placed
    <3>2. ASSUME NEW n \in N \cup done PROVE n \in 0 .. sends - 1
      <4>1. n < sends
        <5>1. \A i \in Ids : \A a \in QueueContents[i] : a.n < sends
          BY Zenon DEF MsgIndInv, MessagesApart, InPlace, Apart
        <5>2. \A t \in MsgThreads : \A a \in ThreadContents[t] : a.n < sends
          BY Zenon DEF MsgIndInv, MessagesApart, InPlace, Apart
        <5>3. \A k \in done : k < sends
          BY Zenon DEF MsgIndInv, MessagesApart, InPlace, Apart
        <5>4. CASE n \in K
          BY Zenon, <2>4, <2>7, <5>1, <5>4
        <5>5. CASE n \in L
          BY Zenon, <2>4, <2>8, <5>2, <5>5
        <5>6. CASE n \in M
          BY Zenon, <2>4, <2>9, <5>2, <5>6
        <5> QED
          BY Zenon, <2>6, <3>2, <5>3, <5>4, <5>5, <5>6
      <4>2. n \in 0 .. MaxSends - 1
        BY Zenon, <2>11, <3>2 DEF MsgIndInv, MsgTypeOK
      <4>3. sends \in Int
        BY DEF MsgIndInv, MsgTypeOK
      <4> QED
        BY <4>1, <4>2, <4>3, MsgAssumption
    <3> QED
      BY Zenon, <3>1, <3>2
  <2> QED
    BY Zenon, <2>1, <2>2, <2>3, <2>5, <2>18, <2>19, <2>20 DEF MessagesHeldOnce
<1> QED
  BY <1>1, MsgInvariance, PTL

-----------------------------------------------------------------------------
(* The ids of queues.                                                         *)

\* The queues of the table after a step are queues that it had before.
QueuesStay ==
    /\ UNCHANGED <<seq, handles, created>>
    /\ \A i \in Ids : entries'[i] # NoQueue =>
        entries[i] # NoQueue /\ entries'[i].seq = entries[i].seq /\ entries'[i].born = entries[i].born

\* What a call does to the lists of a queue leaves its number alone.
LEMMA ListStep ==
  ASSUME MsgTypeOK, NEW h \in Handles, NEW q, q = GetMsgq(h), q # NoQueue, NEW f,
         \/ entries' = [entries EXCEPT ![h.id].senders = f]
         \/ entries' = [entries EXCEPT ![h.id].receivers = f]
         \/ entries' = [entries EXCEPT ![h.id].msgs = f]
         \/ entries' = [entries EXCEPT ![h.id].msgs = f, ![h.id].senders = <<>>],
         UNCHANGED <<seq, handles, created>>
  PROVE  QueuesStay
<1>1. PICK s : s = h.id
  BY Zenon
<1>2. s \in Ids /\ entries[s] = q /\ q \in MsgQueues
  BY <1>1, HandleQueue
<1>3. entries \in [Ids -> MsgQueues \cup {NoQueue}]
  BY Zenon DEF MsgTypeOK
<1>4. \A i \in Ids \ {s} : entries'[i] = entries[i]
  BY Zenon, <1>1, <1>2, <1>3
<1>5. \/ entries'[s] = [q EXCEPT !.senders = f] \/ entries'[s] = [q EXCEPT !.receivers = f]
      \/ entries'[s] = [q EXCEPT !.msgs = f] \/ entries'[s] = [q EXCEPT !.msgs = f, !.senders = <<>>]
  BY <1>1, <1>2, <1>3
<1>6. entries'[s].seq = q.seq /\ entries'[s].born = q.born
  BY Zenon, <1>2, <1>5 DEF MsgQueues
<1> QED
  BY Zenon, <1>2, <1>4, <1>6 DEF QueuesStay

\* Only msgget makes a queue.
LEMMA SendStays ==
  ASSUME MsgTypeOK, NEW t, NEW h \in Handles, NEW m, NEW nowait, Send(t, h, m, nowait),
         UNCHANGED <<seq, handles, created>>
  PROVE  QueuesStay
<1>1. PICK q : q = GetMsgq(h)
  BY Zenon
<1>2. CASE UNCHANGED entries
  BY Zenon, <1>2 DEF QueuesStay
<1>3. CASE q # NoQueue /\ entries' = [entries EXCEPT ![h.id].senders = Append(@, t)]
  BY Zenon, <1>1, <1>3, ListStep
<1>4. CASE q # NoQueue /\ entries' = [entries EXCEPT ![h.id].msgs = Append(@, m)]
  BY Zenon, <1>1, <1>4, ListStep
<1>5. CASE q # NoQueue /\ \E r : entries' = [entries EXCEPT ![h.id].receivers = Detach(@, r)]
  BY Zenon, <1>1, <1>5, ListStep
<1> QED
  BY Zenon, <1>1, <1>2, <1>3, <1>4, <1>5 DEF Send

\* An id of a queue that has been removed is refused: a later queue in its slot has
\* another sequence number (ipc.c:119), as long as no more than 2^16 queues are made.
THEOREM StaleIdsAreRejected ==
  ASSUME MaxQueues <= U16
  PROVE  MsgSpec => []StaleIdsRejected
<1>1. MsgInit => SeqIsBorn
  BY Zenon DEF MsgInit, SeqIsBorn
<1>2. MsgIndInv /\ SeqIsBorn /\ [MsgNext]_msgvars => SeqIsBorn'
  <2> SUFFICES ASSUME MsgIndInv, SeqIsBorn, [MsgNext]_msgvars PROVE SeqIsBorn'
    BY Zenon
  <2>1. ASSUME QueuesStay PROVE SeqIsBorn'
    <3>1. \A i \in Ids : entries'[i] # NoQueue => entries'[i].seq = entries'[i].born
      BY Zenon, <2>1 DEF QueuesStay, SeqIsBorn
    <3> QED
      BY Zenon, <2>1, <3>1 DEF QueuesStay, SeqIsBorn
  <2>2. \A h \in handles : h \in Handles
    BY Zenon DEF MsgIndInv, MsgTypeOK
  <2>3. CASE UNCHANGED msgvars
    BY Zenon, <2>3 DEF msgvars, SeqIsBorn
  <2>4. ASSUME NEW key \in Keys, SysMsgget(key) PROVE SeqIsBorn'
    <3>1. CASE /\ IpcFindkey(key) # {}
               /\ handles' = handles \cup {IpcBuildin(Min(IpcFindkey(key)), entries[Min(IpcFindkey(key))])}
               /\ UNCHANGED <<entries, seq, created, sends, th, mkilled, done, fault>>
      <4>1. PICK i : i = Min(IpcFindkey(key))
        BY Zenon
      <4>2. IpcFindkey(key) \subseteq Nat
        BY MsgAssumption DEF IpcFindkey, Ids
      <4>3. i \in IpcFindkey(key)
        BY Zenon, <3>1, <4>1, <4>2, MinOf
      <4>4. entries[i].seq = entries[i].born
        BY Zenon, <4>3 DEF SeqIsBorn, IpcFindkey
      <4>5. PICK h : h = IpcBuildin(i, entries[i])
        BY Zenon
      <4>6. h.seq = h.born
        BY Zenon, <4>4, <4>5 DEF IpcBuildin
      <4>7. handles' = handles \cup {h}
        BY Zenon, <3>1, <4>1, <4>5
      <4> QED
        BY Zenon, <3>1, <4>6, <4>7 DEF SeqIsBorn
    <3>2. CASE /\ FreeIds # {} /\ created < MaxQueues
               /\ entries' = [entries EXCEPT ![Min(FreeIds)] = NewQue(key)]
               /\ handles' = handles \cup {IpcBuildin(Min(FreeIds), NewQue(key))}
               /\ seq' = (seq + 1) % U16 /\ created' = created + 1
      <4>1. PICK i, q : i = Min(FreeIds) /\ q = NewQue(key)
        BY Zenon
      <4>2. created \in Nat /\ seq \in Nat /\ U16 \in Nat \ {0} /\ MaxQueues \in Nat
        BY MsgAssumption DEF MsgIndInv, MsgTypeOK
      <4>3. seq = created
        BY <3>2, <4>2 DEF SeqIsBorn
      <4>4. q.seq = q.born
        BY Zenon, <4>1, <4>3 DEF NewQue
      <4>5. PICK h : h = IpcBuildin(i, q)
        BY Zenon
      <4>6. h.seq = h.born
        BY Zenon, <4>4, <4>5 DEF IpcBuildin
      <4>7. \A g \in handles' : g.seq = g.born
        BY Zenon, <3>2, <4>1, <4>5, <4>6 DEF SeqIsBorn
      <4>8. entries \in [Ids -> MsgQueues \cup {NoQueue}]
        BY Zenon DEF MsgIndInv, MsgTypeOK
      <4>9. \A j \in Ids : entries'[j] = q \/ entries'[j] = entries[j]
        BY Zenon, <3>2, <4>1, <4>8
      <4>10. \A j \in Ids : entries'[j] # NoQueue => entries'[j].seq = entries'[j].born
        BY Zenon, <4>4, <4>9 DEF SeqIsBorn
      <4>11. created' < U16 => seq' = created'
        BY <3>2, <4>2, <4>3
      <4> QED
        BY Zenon, <4>7, <4>10, <4>11 DEF SeqIsBorn
    <3> QED
      BY Zenon, <2>4, <3>1, <3>2 DEF SysMsgget
  <2>5. ASSUME NEW h \in handles, Freeque(h) PROVE QueuesStay
    <3>1. entries \in [Ids -> MsgQueues \cup {NoQueue}]
      BY Zenon DEF MsgIndInv, MsgTypeOK
    <3>2. \A i \in Ids : entries'[i] = NoQueue \/ entries'[i] = entries[i]
      BY Zenon, <2>5, <3>1 DEF Freeque
    <3> QED
      BY Zenon, <2>5, <3>2 DEF QueuesStay, Freeque
  <2>6. ASSUME NEW t \in MsgThreads, NEW h \in handles, SysMsgsnd(t, h) PROVE QueuesStay
    BY Zenon, <2>2, <2>6, SendStays DEF SysMsgsnd, MsgIndInv
  <2>7. ASSUME NEW t \in MsgThreads, NEW h \in handles, SysMsgrcv(t, h) PROVE QueuesStay
    <3>1. PICK q : q = GetMsgq(h)
      BY Zenon
    <3>2. q # NoQueue /\ UNCHANGED <<seq, handles, created>> /\ h \in Handles
      BY Zenon, <2>2, <2>7, <3>1 DEF SysMsgrcv
    <3>3. \/ \E a : entries' = [entries EXCEPT ![h.id].msgs = Detach(@, a), ![h.id].senders = <<>>]
          \/ entries' = [entries EXCEPT ![h.id].receivers = Append(@, t)]
      BY Zenon, <2>7 DEF SysMsgrcv
    <3>4. MsgTypeOK
      BY Zenon DEF MsgIndInv
    <3>5. CASE entries' = [entries EXCEPT ![h.id].receivers = Append(@, t)]
      BY Zenon, <3>1, <3>2, <3>4, <3>5, ListStep
    <3>6. CASE \E a : entries' = [entries EXCEPT ![h.id].msgs = Detach(@, a), ![h.id].senders = <<>>]
      <4>1. PICK a : entries' = [entries EXCEPT ![h.id].msgs = Detach(@, a), ![h.id].senders = <<>>]
        BY Zenon, <3>6
      <4>2. PICK f : f = Detach(entries[h.id].msgs, a)
        BY Zenon
      <4>3. entries' = [entries EXCEPT ![h.id].msgs = f, ![h.id].senders = <<>>]
        BY Zenon, <4>1, <4>2
      <4> QED
        BY Zenon, <3>1, <3>2, <3>4, <4>3, ListStep
    <3> QED
      BY Zenon, <3>3, <3>5, <3>6
  <2>8. ASSUME NEW t \in MsgThreads, RetrySend(t) PROVE QueuesStay
    <3>1. th[t].h \in Handles
      BY Zenon, <2>8, ThreadFields DEF MsgIndInv, RetrySend
    <3>2. CASE UNCHANGED entries
      BY Zenon, <2>8, <3>2 DEF RetrySend, QueuesStay
    <3> QED
      BY Zenon, <2>8, <3>1, <3>2, SendStays DEF RetrySend, MsgIndInv
  <2>9. ASSUME NEW t \in MsgThreads, Received(t) PROVE QueuesStay
    BY Zenon, <2>9 DEF Received, QueuesStay
  <2>10. ASSUME NEW t \in MsgThreads, ReceiveKilled(t) \/ KillThread(t) PROVE QueuesStay
    BY Zenon, <2>10 DEF ReceiveKilled, KillThread, QueuesStay
  <2> QED
    BY Zenon, <2>1, <2>3, <2>4, <2>5, <2>6, <2>7, <2>8, <2>9, <2>10 DEF MsgNext
<1>3. MsgIndInv /\ SeqIsBorn => StaleIdsRejected
  <2> SUFFICES ASSUME MsgIndInv, SeqIsBorn, NEW h \in handles, NEW q, q = GetMsgq(h), q # NoQueue
               PROVE  q.born = h.born
    BY Zenon DEF StaleIdsRejected
  <2>1. h \in Handles
    BY Zenon DEF MsgIndInv, MsgTypeOK
  <2>2. h.id \in Ids /\ entries[h.id] = q
    BY Zenon, <2>1, HandleQueue DEF MsgIndInv
  <2>3. q.seq = h.seq
    BY Zenon, <2>2 DEF GetMsgq
  <2> QED
    BY Zenon, <2>2, <2>3 DEF SeqIsBorn
<1> QED
  BY <1>1, <1>2, <1>3, MsgInvariance, PTL DEF MsgSpec
=============================================================================
