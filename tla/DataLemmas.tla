----------------------------- MODULE DataLemmas -----------------------------
(***************************************************************************)
(* Facts about data that the proofs of several components use: what the    *)
(* list operations do to the entries of a list, and induction and          *)
(* recursion over numbers, lists and finite sets.                          *)
(*                                                                         *)
(* Induction is stated for a set of numbers (or of sets) and recursion for *)
(* a function given as a table, not for operators, which the provers do    *)
(* not instantiate.                                                        *)
(***************************************************************************)
EXTENDS ListOps, FiniteSetTheorems, WellFoundedInduction, TLAPS

(* Lists.                                                                  *)

\* _detach_from_list takes one entry off the list and keeps the others.
LEMMA DetachEntry ==
  ASSUME NEW S, NEW list \in Seq(S), Distinct(list), NEW e \in Listed(list)
  PROVE  /\ Detach(list, e) \in Seq(S)
         /\ Len(Detach(list, e)) = Len(list) - 1
         /\ Listed(Detach(list, e)) = Listed(list) \ {e}
         /\ Distinct(Detach(list, e))
<1> DEFINE i == CHOOSE k \in 1 .. Len(list) : list[k] = e
           new == [k \in 1 .. (Len(list) - 1) |-> IF k < i THEN list[k] ELSE list[k + 1]]
<1>1. i \in 1 .. Len(list) /\ list[i] = e
  <2>1. \E k \in 1 .. Len(list) : list[k] = e
    BY Zenon DEF Listed
  <2> QED
    BY Zenon, <2>1
<1>2. Detach(list, e) = new
  BY Zenon DEF Detach
<1> HIDE DEF i
<1>3. Len(list) \in Nat /\ Len(list) - 1 \in Nat
  BY <1>1
<1>4. new \in Seq(S) /\ Len(new) = Len(list) - 1
  BY <1>1, <1>3
<1>5. \A k \in 1 .. (Len(list) - 1) :
        new[k] = IF k < i THEN list[k] ELSE list[k + 1]
  BY Zenon
<1> HIDE DEF new
<1>6. Distinct(new)
  <2> SUFFICES ASSUME NEW j \in 1 .. (Len(list) - 1),
                      NEW k \in 1 .. (Len(list) - 1),
                      new[j] = new[k]
               PROVE  j = k
    BY Zenon, <1>4 DEF Distinct
  <2>1. \A m \in 1 .. (Len(list) - 1) :
          /\ m < i => m \in 1 .. Len(list) /\ new[m] = list[m]
          /\ ~(m < i) => m + 1 \in 1 .. Len(list) /\ new[m] = list[m + 1]
    BY <1>3, <1>5
  <2>2. \A m, n \in 1 .. Len(list) : list[m] = list[n] => m = n
    BY Zenon DEF Distinct
  <2>3. CASE j < i /\ k < i
    BY Zenon, <2>1, <2>2, <2>3
  <2>4. CASE j < i /\ ~(k < i)
    BY <1>1, <1>3, <2>1, <2>2, <2>4
  <2>5. CASE ~(j < i) /\ k < i
    BY <1>1, <1>3, <2>1, <2>2, <2>5
  <2>6. CASE ~(j < i) /\ ~(k < i)
    BY <1>3, <2>1, <2>2, <2>6
  <2> QED
    BY Zenon, <2>3, <2>4, <2>5, <2>6
<1>7. Listed(new) \subseteq Listed(list) \ {e}
  BY <1>1, <1>3, <1>4, <1>5 DEF Listed, Distinct
<1>8. ASSUME NEW q \in Listed(list) \ {e} PROVE q \in Listed(new)
  <2>1. PICK k \in 1 .. Len(list) : list[k] = q
    BY Zenon DEF Listed
  <2>2. k # i
    BY Zenon, <1>1, <2>1
  <2>3. CASE k < i
    <3>1. k \in 1 .. (Len(list) - 1) /\ new[k] = q
      BY <1>1, <1>3, <1>5, <2>1, <2>3
    <3> QED
      BY Zenon, <1>4, <3>1 DEF Listed
  <2>4. CASE k > i
    <3>1. k - 1 \in 1 .. (Len(list) - 1) /\ new[k - 1] = q
      BY <1>1, <1>3, <1>5, <2>1, <2>4
    <3> QED
      BY Zenon, <1>4, <3>1 DEF Listed
  <2> QED
    BY <1>1, <2>2, <2>3, <2>4
<1> QED
  BY Zenon, <1>2, <1>4, <1>6, <1>7, <1>8

\* _insert_into_list adds one entry.
LEMMA AppendEntry ==
  ASSUME NEW S, NEW list \in Seq(S), Distinct(list),
         NEW e \in S, e \notin Listed(list)
  PROVE  /\ Append(list, e) \in Seq(S)
         /\ Len(Append(list, e)) = Len(list) + 1
         /\ Listed(Append(list, e)) = Listed(list) \cup {e}
         /\ Distinct(Append(list, e))
         /\ Append(list, e) # <<>>
         /\ list # <<>> => Head(Append(list, e)) = Head(list)
<1> DEFINE new == Append(list, e)
<1>1. new \in Seq(S) /\ Len(new) = Len(list) + 1 /\ Len(list) \in Nat
  OBVIOUS
<1>2. /\ \A k \in 1 .. Len(list) : new[k] = list[k]
      /\ new[Len(list) + 1] = e
  OBVIOUS
<1> HIDE DEF new
<1>3. Listed(new) = Listed(list) \cup {e}
  BY <1>1, <1>2 DEF Listed
<1>4. Distinct(new)
  BY <1>1, <1>2 DEF Listed, Distinct
<1>5. new # <<>>
  BY <1>1
<1>6. list # <<>> => Head(new) = Head(list)
  <2> SUFFICES ASSUME list # <<>> PROVE Head(new) = Head(list)
    BY Zenon
  <2>1. Len(list) > 0
    BY <1>1
  <2>2. new[1] = list[1]
    BY <1>1, <1>2, <2>1
  <2>3. Head(new) = new[1] /\ Head(list) = list[1]
    BY <1>1, <1>5
  <2> QED
    BY Zenon, <2>2, <2>3
<1> QED
  BY Zenon, <1>1, <1>3, <1>4, <1>5, <1>6 DEF new

\* _insert_into_list at the other end.
LEMMA PushEntry ==
  ASSUME NEW S, NEW list \in Seq(S), Distinct(list),
         NEW e \in S, e \notin Listed(list)
  PROVE  /\ <<e>> \o list \in Seq(S)
         /\ Len(<<e>> \o list) = Len(list) + 1
         /\ Listed(<<e>> \o list) = Listed(list) \cup {e}
         /\ Distinct(<<e>> \o list)
<1> DEFINE new == <<e>> \o list
<1>1. new \in Seq(S) /\ Len(new) = Len(list) + 1 /\ Len(list) \in Nat
  OBVIOUS
<1>2. /\ new[1] = e
      /\ \A k \in 1 .. Len(list) : new[k + 1] = list[k]
  OBVIOUS
<1> HIDE DEF new
<1>3. \A k \in 1 .. Len(new) : k = 1 \/ (k - 1 \in 1 .. Len(list) /\ new[k] = list[k - 1])
  BY <1>1, <1>2
<1>4. Listed(new) \subseteq Listed(list) \cup {e}
  BY <1>1, <1>2, <1>3 DEF Listed
<1>5. Listed(list) \cup {e} \subseteq Listed(new)
  <2>1. e \in Listed(new)
    BY <1>1, <1>2 DEF Listed
  <2>2. \A k \in 1 .. Len(list) : k + 1 \in 1 .. Len(new) /\ new[k + 1] = list[k]
    BY <1>1, <1>2
  <2> QED
    BY Zenon, <2>1, <2>2 DEF Listed
<1>6. Distinct(new)
  <2> SUFFICES ASSUME NEW j \in 1 .. Len(new), NEW k \in 1 .. Len(new),
                      new[j] = new[k]
               PROVE  j = k
    BY Zenon DEF Distinct
  <2>1. \A m \in 1 .. Len(list) : list[m] # e
    BY Zenon DEF Listed
  <2>2. \A m, n \in 1 .. Len(list) : list[m] = list[n] => m = n
    BY Zenon DEF Distinct
  <2>3. CASE j = 1 \/ k = 1
    BY Zenon, <1>2, <1>3, <2>1, <2>3
  <2>4. CASE j # 1 /\ k # 1
    <3>1. j - 1 = k - 1
      BY Zenon, <1>3, <2>2, <2>4
    <3> QED
      BY <1>1, <3>1
  <2> QED
    BY Zenon, <2>3, <2>4
<1> QED
  BY Zenon, <1>1, <1>4, <1>5, <1>6 DEF new

\* Taking the first entry off.
LEMMA PopEntry ==
  ASSUME NEW S, NEW list \in Seq(S), Distinct(list), list # <<>>
  PROVE  /\ Tail(list) \in Seq(S)
         /\ Head(list) \in Listed(list)
         /\ Listed(Tail(list)) = Listed(list) \ {Head(list)}
         /\ Distinct(Tail(list))
         /\ Tail(list) = <<>> <=> Len(list) = 1
<1> DEFINE new == Tail(list)
<1>1. /\ new \in Seq(S) /\ Len(new) = Len(list) - 1
      /\ Len(list) \in Nat /\ Len(list) > 0 /\ Head(list) = list[1]
  OBVIOUS
<1>2. \A k \in 1 .. Len(new) : new[k] = list[k + 1] /\ k + 1 \in 1 .. Len(list)
  BY <1>1
<1>3. new = <<>> <=> Len(list) = 1
  <2>1. \A s \in Seq(S) : Len(s) = 0 => s = <<>>
    OBVIOUS
  <2>2. PICK s \in Seq(S) : s = new
    BY Zenon, <1>1
  <2>3. s = <<>> <=> Len(s) = 0
    BY <2>1
  <2>4. Len(s) = Len(list) - 1
    BY Zenon, <1>1, <2>2
  <2> QED
    BY <1>1, <2>2, <2>3, <2>4
<1> HIDE DEF new
<1>4. Listed(new) \subseteq Listed(list) \ {Head(list)}
  BY <1>1, <1>2 DEF Listed, Distinct
<1>5. Listed(list) \ {Head(list)} \subseteq Listed(new)
  <2>1. \A k \in 1 .. Len(list) :
          k = 1 \/ (k - 1 \in 1 .. Len(new) /\ new[k - 1] = list[k])
    BY <1>1, <1>2
  <2>2. ASSUME NEW k \in 1 .. Len(list), list[k] # Head(list)
        PROVE  list[k] \in Listed(new)
    <3>1. k - 1 \in 1 .. Len(new) /\ new[k - 1] = list[k]
      BY Zenon, <1>1, <2>1, <2>2
    <3> QED
      BY Zenon, <3>1 DEF Listed
  <2> QED
    BY Zenon, <2>2 DEF Listed
<1>6. Distinct(new)
  BY <1>1, <1>2 DEF Distinct
<1>7. Head(list) \in Listed(list)
  BY <1>1 DEF Listed
<1> QED
  BY Zenon, <1>1, <1>3, <1>4, <1>5, <1>6, <1>7 DEF new

\* Taking the last entry off.
LEMMA DropLast ==
  ASSUME NEW S, NEW list \in Seq(S), Distinct(list), Len(list) > 0
  PROVE  /\ WithoutLast(list) \in Seq(S)
         /\ list[Len(list)] \in S
         /\ Listed(WithoutLast(list)) = Listed(list) \ {list[Len(list)]}
         /\ Distinct(WithoutLast(list))
<1> DEFINE new == [k \in 1 .. (Len(list) - 1) |-> list[k]]
<1>1. Len(list) \in Nat /\ Len(list) - 1 \in Nat /\ list[Len(list)] \in S
  OBVIOUS
<1>2. new \in Seq(S) /\ Len(new) = Len(list) - 1
  BY <1>1
<1>3. \A k \in 1 .. (Len(list) - 1) : new[k] = list[k]
  BY Zenon
<1> HIDE DEF new
<1>4. Listed(new) \subseteq Listed(list) \ {list[Len(list)]}
  BY <1>1, <1>2, <1>3 DEF Listed, Distinct
<1>5. Listed(list) \ {list[Len(list)]} \subseteq Listed(new)
  <2>1. \A k \in 1 .. Len(list) :
          k = Len(list) \/ (k \in 1 .. Len(new) /\ new[k] = list[k])
    BY <1>1, <1>2, <1>3
  <2> QED
    BY Zenon, <1>1, <2>1 DEF Listed
<1>6. Distinct(new)
  BY <1>1, <1>2, <1>3 DEF Distinct
<1> QED
  BY Zenon, <1>1, <1>2, <1>4, <1>5, <1>6 DEF new, WithoutLast

\* A list without duplicates is as long as it has entries.
LEMMA ListedCardinality ==
  ASSUME NEW S, NEW list \in Seq(S), Distinct(list)
  PROVE  IsFiniteSet(Listed(list)) /\ Cardinality(Listed(list)) = Len(list)
<1> DEFINE f == [k \in 1 .. Len(list) |-> list[k]]
<1>1. f \in Bijection(1 .. Len(list), Listed(list))
  BY Zenon DEF Bijection, Injection, Surjection, IsInjective, Distinct, Listed
<1>2. Len(list) \in Nat
  OBVIOUS
<1> HIDE DEF f
<1>3. IsFiniteSet(1 .. Len(list)) /\ Cardinality(1 .. Len(list)) = Len(list)
  <2> DEFINE n == Len(list)
  <2>1. n \in Nat /\ 1 \in Int /\ n \in Int
    BY <1>2
  <2> HIDE DEF n
  <2>2. /\ IsFiniteSet(1 .. n)
        /\ Cardinality(1 .. n) = IF 1 > n THEN 0 ELSE n - 1 + 1
    BY Zenon, <2>1, FS_Interval
  <2>3. Cardinality(1 .. n) = n
    BY <2>1, <2>2
  <2> QED
    BY Zenon, <2>2, <2>3 DEF n
<1>4. ExistsBijection(1 .. Len(list), Listed(list))
  BY Zenon, <1>1 DEF ExistsBijection
<1> QED
  BY Zenon, <1>3, <1>4, FS_Bijection

-----------------------------------------------------------------------------
(* Induction and recursion.                                                *)

\* A set of naturals has a least one: what every argument about the first or the
\* smallest step below rests on (alloc_pid scans its bitmap upwards).
LEMMA LeastNat ==
  ASSUME NEW T, T \subseteq Nat, T # {}
  PROVE  \E n \in T : \A k \in T : n <= k
<1>1. PICK R : R = OpToRel(<, Nat)
  BY Zenon
<1>2. IsWellFoundedOn(R, Nat)
  BY Zenon, <1>1, NatLessThanWellFounded
<1>3. PICK n \in T : \A k \in T : ~(<<k, n>> \in R)
  BY Zenon, <1>2, WFMin
<1>4. R = {ss \in Nat \X Nat : ss[1] < ss[2]}
  BY Zenon, <1>1 DEF OpToRel
<1>5. ASSUME NEW k \in T PROVE n <= k
  <2>1. <<k, n>> \notin R
    BY Zenon, <1>3
  <2>2. ~(k < n)
    BY Zenon, <1>4, <2>1
  <2> QED
    BY <2>2
<1> QED
  BY Zenon, <1>5

\* Induction over the naturals, for a set instead of a predicate: it carries a fact
\* through the rounds of a loop (the descents of traverse_queue).
LEMMA NatInductionSet ==
  ASSUME NEW S, 0 \in S, \A n \in Nat : n \in S => n + 1 \in S
  PROVE  Nat \subseteq S
<1> SUFFICES ASSUME Nat \ S # {} PROVE FALSE
  BY Zenon
<1>1. PICK n \in Nat \ S : \A k \in Nat \ S : n <= k
  BY Zenon, LeastNat
<1>2. n # 0 /\ n - 1 \in Nat
  BY <1>1
<1>3. n - 1 \in S
  BY <1>1, <1>2
<1>4. n - 1 + 1 = n
  BY <1>1
<1> QED
  BY Zenon, <1>1, <1>2, <1>3, <1>4

\* A function defined by descent along pred: its value at x is base[x] when x is
\* in B, and is computed by step from its value at pred[x] otherwise.
Descent(D, R, B, pred, V, base, step) ==
    /\ IsWellFoundedOn(R, D)
    /\ \A x \in D \ B : pred[x] \in D /\ <<pred[x], x>> \in R
    /\ \A x \in D \cap B : base[x] \in V
    /\ \A x \in D \ B : \A v \in V : step[<<x, v>>] \in V

ByDescent(f, D, B, pred, V, base, step) ==
    /\ f \in [D -> V]
    /\ \A x \in D : f[x] = IF x \in B THEN base[x] ELSE step[<<x, f[pred[x]]>>]

\* Such a function exists when pred goes down a well-founded relation: the loops
\* and recursions of the kernel end.
LEMMA DescentDefines ==
  ASSUME NEW D, NEW R, NEW B, NEW pred, NEW V, NEW base, NEW step,
         Descent(D, R, B, pred, V, base, step)
  PROVE  \E f : ByDescent(f, D, B, pred, V, base, step)
<1> USE DEF Descent
<1> DEFINE Closed(G) ==
             /\ \A x \in D \cap B : <<x, base[x]>> \in G
             /\ \A x \in D \ B : \A v \in V : <<pred[x], v>> \in G => <<x, step[<<x, v>>]>> \in G
           G0 == {xv \in D \X V : \A G \in SUBSET (D \X V) : Closed(G) => xv \in G}
           One(x) == \E v \in V : <<x, v>> \in G0 /\ \A w \in V : <<x, w>> \in G0 => w = v
<1>1. \A x \in D, v \in V : <<x, v>> \in G0 <=> \A G \in SUBSET (D \X V) : Closed(G) => <<x, v>> \in G
  BY Zenon
<1>2. G0 \in SUBSET (D \X V)
  BY Zenon
<1> HIDE DEF G0
<1>3. Closed(G0)
  <2>1. ASSUME NEW x \in D \cap B PROVE <<x, base[x]>> \in G0
    BY Zenon, <1>1
  <2>2. ASSUME NEW x \in D \ B, NEW v \in V, <<pred[x], v>> \in G0
        PROVE  <<x, step[<<x, v>>]>> \in G0
    <3>1. pred[x] \in D /\ step[<<x, v>>] \in V /\ x \in D
      BY Zenon
    <3>2. ASSUME NEW G \in SUBSET (D \X V), Closed(G) PROVE <<x, step[<<x, v>>]>> \in G
      <4>1. <<pred[x], v>> \in G
        BY Zenon, <1>1, <2>2, <3>1, <3>2
      <4> QED
        BY Zenon, <3>2, <4>1
    <3> QED
      BY Zenon, <1>1, <3>1, <3>2
  <2> QED
    BY Zenon, <2>1, <2>2
<1>4. ASSUME NEW x \in D, NEW v \in V, NEW w \in V, <<x, w>> \in G0, w # v,
             \/ x \in B /\ v = base[x]
             \/ x \notin B /\ \A u \in V : <<pred[x], u>> \in G0 => v = step[<<x, u>>]
      PROVE  FALSE
  <2> DEFINE H == {xv \in G0 : xv # <<x, w>>}
  <2>1. H \in SUBSET (D \X V)
    BY Zenon, <1>2
  <2>2. \A y \in D, u \in V : <<y, u>> \in H <=> <<y, u>> \in G0 /\ (y # x \/ u # w)
    BY Zenon
  <2> HIDE DEF H
  <2>3. ASSUME NEW y \in D \cap B PROVE <<y, base[y]>> \in H
    BY Zenon, <1>3, <1>4, <2>2, <2>3
  <2>4. ASSUME NEW y \in D \ B, NEW u \in V, <<pred[y], u>> \in H
        PROVE  <<y, step[<<y, u>>]>> \in H
    <3>1. pred[y] \in D /\ step[<<y, u>>] \in V
      BY Zenon, <2>4
    <3>2. <<pred[y], u>> \in G0
      BY Zenon, <2>2, <2>4, <3>1
    <3>3. <<y, step[<<y, u>>]>> \in G0
      BY Zenon, <1>3, <3>2
    <3>4. y # x \/ step[<<y, u>>] # w
      BY Zenon, <1>4, <3>2
    <3> QED
      BY Zenon, <2>2, <3>1, <3>3, <3>4
  <2>5. Closed(H)
    BY Zenon, <2>3, <2>4
  <2>6. <<x, w>> \in H
    BY Zenon, <1>1, <1>4, <2>1, <2>5
  <2> QED
    BY Zenon, <2>2, <2>6
<1> HIDE DEF Closed
<1>5. \A x \in D : One(x)
  <2> DEFINE T == {x \in D : ~One(x)}
  <2> SUFFICES ASSUME T # {} PROVE FALSE
    BY Zenon
  <2>1. PICK x \in T : \A y \in T : ~(<<y, x>> \in R)
    <3>1. T \subseteq D
      BY Zenon
    <3> HIDE DEF T
    <3> QED
      BY Zenon, <3>1, WFMin
  <2>2. CASE x \in B
    BY Zenon, <1>3, <1>4, <2>2 DEF Closed
  <2>3. CASE x \notin B
    <3>1. pred[x] \in D /\ One(pred[x])
      BY Zenon, <2>1, <2>3
    <3>2. PICK u \in V : <<pred[x], u>> \in G0 /\ \A w \in V : <<pred[x], w>> \in G0 => w = u
      BY Zenon, <3>1
    <3>3. <<x, step[<<x, u>>]>> \in G0 /\ step[<<x, u>>] \in V
      BY Zenon, <1>3, <2>3, <3>2 DEF Closed
    <3>4. \A w \in V : <<x, w>> \in G0 => w = step[<<x, u>>]
      BY Zenon, <1>4, <2>3, <3>2, <3>3
    <3> QED
      BY Zenon, <3>3, <3>4
  <2> QED
    BY Zenon, <2>2, <2>3
<1> DEFINE f == [x \in D |-> CHOOSE v \in V : <<x, v>> \in G0]
<1>6. ASSUME NEW x \in D PROVE f[x] \in V /\ <<x, f[x]>> \in G0
  BY Zenon, <1>5
<1>7. f \in [D -> V]
  BY Zenon, <1>6
<1> HIDE DEF f
<1>8. ASSUME NEW x \in D, NEW v \in V, <<x, v>> \in G0 PROVE f[x] = v
  BY Zenon, <1>5, <1>6, <1>8
<1>9. ASSUME NEW x \in D PROVE f[x] = IF x \in B THEN base[x] ELSE step[<<x, f[pred[x]]>>]
  <2>1. CASE x \in B
    BY Zenon, <1>3, <1>8, <2>1 DEF Closed
  <2>2. CASE x \notin B
    <3>1. pred[x] \in D
      BY Zenon, <2>2
    <3>2. <<pred[x], f[pred[x]]>> \in G0 /\ f[pred[x]] \in V
      BY Zenon, <1>6, <3>1
    <3>3. <<x, step[<<x, f[pred[x]]>>]>> \in G0 /\ step[<<x, f[pred[x]]>>] \in V
      BY Zenon, <1>3, <2>2, <3>2 DEF Closed
    <3> QED
      BY Zenon, <1>8, <2>2, <3>3
  <2> QED
    BY Zenon, <2>1, <2>2
<1> QED
  BY Zenon, <1>7, <1>9 DEF ByDescent

\* f starts with a and each value is computed by step from the one before.
StepIn(I, V, step) == \A n \in I : \A v \in V : step[<<n, v>>] \in V
ByStep(f, I, V, a, step) ==
    /\ f \in [I -> V]
    /\ \A n \in I : f[n] = IF n = 0 THEN a ELSE step[<<n, f[n - 1]>>]

\* A function defined by recursion over the naturals exists (not_empty_container,
\* traverse_queue and the walks up a tree are such functions).
LEMMA NatRecursion ==
  ASSUME NEW V, NEW a \in V, NEW step, StepIn(Nat \ {0}, V, step)
  PROVE  \E f : ByStep(f, Nat, V, a, step)
<1>1. PICK R : R = OpToRel(<, Nat)
  BY Zenon
<1>2. IsWellFoundedOn(R, Nat)
  BY Zenon, <1>1, NatLessThanWellFounded
<1>3. R = {ss \in Nat \X Nat : ss[1] < ss[2]}
  BY Zenon, <1>1 DEF OpToRel
<1>4. PICK pred, base : pred = [n \in Nat |-> n - 1] /\ base = [n \in Nat |-> a]
  BY Zenon
<1>5. \A n \in Nat \ {0} : pred[n] \in Nat /\ <<pred[n], n>> \in R /\ pred[n] = n - 1
  BY <1>3, <1>4
<1>6. PICK D, B : D = Nat /\ B = {0}
  BY Zenon
<1>7. Descent(D, R, B, pred, V, base, step)
  <2>1. \A x \in D \ B : pred[x] \in D /\ <<pred[x], x>> \in R
    BY Zenon, <1>5, <1>6
  <2>2. \A x \in D \cap B : base[x] \in V
    BY Zenon, <1>4, <1>6
  <2> QED
    BY Zenon, <1>2, <1>6, <2>1, <2>2 DEF Descent, StepIn
<1>8. PICK f : ByDescent(f, D, B, pred, V, base, step)
  BY Zenon, <1>7, DescentDefines
<1>9. f \in [Nat -> V]
  BY Zenon, <1>6, <1>8 DEF ByDescent
<1>10. ASSUME NEW n \in Nat PROVE f[n] = IF n = 0 THEN a ELSE step[<<n, f[n - 1]>>]
  <2>1. CASE n = 0
    BY Zenon, <1>4, <1>6, <1>8, <2>1 DEF ByDescent
  <2>2. CASE n # 0
    BY Zenon, <1>5, <1>6, <1>8, <2>2 DEF ByDescent
  <2> QED
    BY Zenon, <2>1, <2>2
<1> QED
  BY Zenon, <1>9, <1>10 DEF ByStep

\* Taking elements out of a finite set ends: the ground for what is said of a
\* list or a table after each entry in turn was visited.
LEMMA SubsetsWellFounded ==
  ASSUME NEW S, IsFiniteSet(S)
  PROVE  IsWellFoundedOn(StrictSubsetOrdering(S), SUBSET S)
BY Zenon, FS_StrictSubsetOrderingWellFounded, FS_FiniteSubsetsOfFinite

\* Induction over the subsets of a finite set, adding one element at a time, for
\* the sums over the members of a group.
LEMMA SubsetInduction ==
  ASSUME NEW S, IsFiniteSet(S), NEW F, {} \in F,
         \A s \in SUBSET S : s # {} /\ (\A x \in s : s \ {x} \in F) => s \in F
  PROVE  SUBSET S \subseteq F
<1> DEFINE T == (SUBSET S) \ F
<1> SUFFICES ASSUME T # {} PROVE FALSE
  BY Zenon
<1>1. PICK s \in T : \A r \in T : ~(<<r, s>> \in StrictSubsetOrdering(S))
  <2>1. T \subseteq SUBSET S
    BY Zenon
  <2> HIDE DEF T
  <2> QED
    BY <2>1, SubsetsWellFounded, WFMin
<1>2. ASSUME NEW x \in s PROVE s \ {x} \in F
  <2>1. s \ {x} \in SUBSET S /\ s \ {x} # s /\ s \ {x} \subseteq s
    OBVIOUS
  <2>2. <<s \ {x}, s>> \in StrictSubsetOrdering(S)
    BY Zenon, <2>1 DEF StrictSubsetOrdering
  <2> QED
    BY Zenon, <1>1, <2>1, <2>2
<1> QED
  BY Zenon, <1>2

\* f is computed for a set of S from its value for the set without one element.
PicksFrom(pick, S) == \A s \in SUBSET S : s # {} => pick[s] \in s
ByRemoval(f, S, V, a, pick, step) ==
    /\ f \in [SUBSET S -> V]
    /\ \A s \in SUBSET S : f[s] = IF s = {} THEN a ELSE step[<<pick[s], f[s \ {pick[s]}]>>]

\* A function defined by taking one element after the other out of a finite set
\* exists: the sums and counts over processes are such functions.
LEMMA SubsetRecursion ==
  ASSUME NEW S, IsFiniteSet(S), NEW V, NEW a \in V,
         NEW pick, PicksFrom(pick, S), NEW step, StepIn(S, V, step)
  PROVE  \E f : ByRemoval(f, S, V, a, pick, step)
<1> USE DEF PicksFrom, StepIn
<1>1. PICK R : R = StrictSubsetOrdering(S)
  BY Zenon
<1>2. IsWellFoundedOn(R, SUBSET S)
  BY Zenon, <1>1, SubsetsWellFounded
<1>3. PICK pred, base, st2 :
        /\ pred = [s \in SUBSET S |-> s \ {pick[s]}]
        /\ base = [s \in SUBSET S |-> a]
        /\ st2 = [sv \in ((SUBSET S) \ {{}}) \X V |-> step[<<pick[sv[1]], sv[2]>>]]
  BY Zenon
<1>4. ASSUME NEW s \in (SUBSET S) \ {{}}
      PROVE  pred[s] \in SUBSET S /\ <<pred[s], s>> \in R /\ pred[s] = s \ {pick[s]}
  <2>1. pred[s] = s \ {pick[s]} /\ pick[s] \in s
    BY Zenon, <1>3
  <2>2. pred[s] \in SUBSET S /\ pred[s] # s /\ pred[s] \subseteq s
    BY Zenon, <2>1
  <2>3. <<pred[s], s>> \in StrictSubsetOrdering(S)
    BY Zenon, <2>2 DEF StrictSubsetOrdering
  <2> QED
    BY Zenon, <1>1, <2>1, <2>2, <2>3
<1>5. \A s \in (SUBSET S) \cap {{}} : base[s] \in V
  BY Zenon, <1>3
<1>6. \A s \in (SUBSET S) \ {{}} : \A v \in V : st2[<<s, v>>] = step[<<pick[s], v>>]
  BY Zenon, <1>3
<1>7. \A s \in (SUBSET S) \ {{}} : \A v \in V : st2[<<s, v>>] \in V
  <2> TAKE s \in (SUBSET S) \ {{}}
  <2> TAKE v \in V
  <2>1. pick[s] \in S
    BY Zenon
  <2> QED
    BY <1>6, <2>1
<1>8. PICK f \in [SUBSET S -> V] :
        \A x \in SUBSET S : f[x] = IF x = {} THEN base[x] ELSE st2[<<x, f[pred[x]]>>]
  <2>1. PICK D, B : D = SUBSET S /\ B = {{}}
    BY Zenon
  <2>2. Descent(D, R, B, pred, V, base, st2)
    BY Zenon, <1>2, <1>4, <1>5, <1>7, <2>1 DEF Descent
  <2>3. PICK f : ByDescent(f, D, B, pred, V, base, st2)
    BY Zenon, <2>2, DescentDefines
  <2> QED
    BY <2>1, <2>3 DEF ByDescent
<1>9. ASSUME NEW s \in SUBSET S
      PROVE  f[s] = IF s = {} THEN a ELSE step[<<pick[s], f[s \ {pick[s]}]>>]
  <2>1. CASE s = {}
    BY Zenon, <1>3, <1>8, <2>1
  <2>2. CASE s # {}
    <3>1. f[s] = st2[<<s, f[s \ {pick[s]}]>>]
      BY Zenon, <1>4, <1>8, <2>2
    <3>2. f[s \ {pick[s]}] \in V
      BY Zenon
    <3> QED
      BY Zenon, <1>6, <2>2, <3>1, <3>2
  <2> QED
    BY Zenon, <2>1, <2>2
<1> QED
  BY Zenon, <1>9 DEF ByRemoval

\* Induction up to a bound, for the loops that walk one list.
LEMMA IntervalInduction ==
  ASSUME NEW L \in Nat, NEW S, 0 \in S, \A n \in 0 .. (L - 1) : n \in S => n + 1 \in S
  PROVE  0 .. L \subseteq S
<1> DEFINE T == {n \in Nat : n <= L => n \in S}
<1>1. 0 \in T
  BY Zenon
<1>2. ASSUME NEW n \in Nat, n \in T PROVE n + 1 \in T
  <2> SUFFICES ASSUME n + 1 <= L PROVE n + 1 \in S
    OBVIOUS
  <2>1. n \in 0 .. (L - 1) /\ n <= L
    OBVIOUS
  <2> QED
    BY Zenon, <1>2, <2>1
<1>3. Nat \subseteq T
  <2> HIDE DEF T
  <2> QED
    BY Zenon, <1>1, <1>2, NatInductionSet
<1> QED
  BY <1>3

\* A function defined by recursion up to a bound exists: the variables of a loop
\* over a list, after each of its entries (traverse_queue).
LEMMA IntervalRecursion ==
  ASSUME NEW L \in Nat, NEW V, NEW a \in V, NEW step, StepIn(1 .. L, V, step)
  PROVE  \E f : ByStep(f, 0 .. L, V, a, step)
<1>1. PICK st2 : st2 = [nv \in Nat \X V |-> IF nv[1] \in 1 .. L THEN step[<<nv[1], nv[2]>>] ELSE a]
  BY Zenon
<1>2. \A n \in Nat : \A v \in V : st2[<<n, v>>] = IF n \in 1 .. L THEN step[<<n, v>>] ELSE a
  BY Zenon, <1>1
<1>3. StepIn(Nat \ {0}, V, st2)
  BY Zenon, <1>2 DEF StepIn
<1>4. PICK g : ByStep(g, Nat, V, a, st2)
  BY Zenon, <1>3, NatRecursion
<1>5. PICK f : f = [n \in 0 .. L |-> g[n]]
  BY Zenon
<1>6. f \in [0 .. L -> V]
  BY <1>4, <1>5 DEF ByStep
<1>7. ASSUME NEW n \in 0 .. L PROVE f[n] = IF n = 0 THEN a ELSE step[<<n, f[n - 1]>>]
  <2>1. CASE n = 0
    BY Zenon, <1>4, <1>5, <2>1 DEF ByStep
  <2>2. CASE n # 0
    <3>1. n \in Nat /\ n \in 1 .. L /\ n - 1 \in 0 .. L /\ n - 1 \in Nat
      BY <2>2
    <3>2. f[n] = g[n] /\ f[n - 1] = g[n - 1]
      BY Zenon, <1>5, <3>1
    <3>3. g[n] = st2[<<n, g[n - 1]>>] /\ g[n - 1] \in V
      BY Zenon, <1>4, <2>2, <3>1 DEF ByStep
    <3> QED
      BY Zenon, <1>2, <2>2, <3>1, <3>2, <3>3
  <2> QED
    BY Zenon, <2>1, <2>2
<1> QED
  BY Zenon, <1>6, <1>7 DEF ByStep

\* Sets that grow, each computed from the one before, stop growing after as many
\* rounds as there are elements: the depth at which the walks over groups and
\* processes are cut off is enough.
LEMMA Saturation ==
  ASSUME NEW S, IsFiniteSet(S), NEW A \in [Nat -> SUBSET S],
         \A n \in Nat : A[n] \subseteq A[n + 1],
         \A n \in Nat : A[n] = A[n + 1] => A[n + 1] = A[n + 2]
  PROVE  A[Cardinality(S)] = A[Cardinality(S) + 1]
<1>1. PICK c \in Nat : c = Cardinality(S)
  BY Zenon, FS_CardinalityType
<1> SUFFICES ASSUME A[c] # A[c + 1] PROVE FALSE
  BY Zenon, <1>1
<1>2. \A n \in Nat : IsFiniteSet(A[n]) /\ Cardinality(A[n]) \in Nat
  BY Zenon, FS_Subset, FS_CardinalityType
<1> DEFINE Grown == {n \in Nat : A[n] = A[n + 1] \/ Cardinality(A[n + 1]) >= n + 1}
<1>3. ASSUME NEW n \in Nat, A[n] # A[n + 1]
      PROVE  Cardinality(A[n + 1]) >= Cardinality(A[n]) + 1
  <2>1. n + 1 \in Nat
    OBVIOUS
  <2>2. PICK B, C : B = A[n] /\ C = A[n + 1]
    BY Zenon
  <2>3. IsFiniteSet(C) /\ B \in SUBSET C /\ B # C
    BY Zenon, <1>2, <1>3, <2>1, <2>2
  <2>4. IsFiniteSet(B) /\ Cardinality(B) <= Cardinality(C) /\ (Cardinality(B) = Cardinality(C) => B = C)
    BY Zenon, <2>3, FS_Subset
  <2>5. Cardinality(B) \in Nat /\ Cardinality(C) \in Nat
    BY Zenon, <2>3, <2>4, FS_CardinalityType
  <2> QED
    BY <2>2, <2>3, <2>4, <2>5
<1>4. 0 \in Grown
  <2>1. Cardinality(A[0]) \in Nat /\ Cardinality(A[0 + 1]) \in Nat
    BY <1>2
  <2>2. A[0] # A[0 + 1] => Cardinality(A[0 + 1]) >= Cardinality(A[0]) + 1
    BY Zenon, <1>3
  <2> QED
    BY <2>1, <2>2
<1>5. ASSUME NEW n \in Nat, n \in Grown PROVE n + 1 \in Grown
  <2>1. PICK m \in Nat : m = n + 1
    OBVIOUS
  <2>2. m + 1 = n + 2
    BY <2>1
  <2>3. CASE A[n] = A[m]
    BY Zenon, <2>1, <2>2, <2>3
  <2>4. CASE A[n] # A[m]
    <3>1. Cardinality(A[m]) >= n + 1 /\ Cardinality(A[m]) \in Nat /\ Cardinality(A[m + 1]) \in Nat
      BY <1>2, <1>5, <2>1, <2>4
    <3>2. A[m] # A[m + 1] => Cardinality(A[m + 1]) >= Cardinality(A[m]) + 1
      BY Zenon, <1>3
    <3>3. A[m] # A[m + 1] => Cardinality(A[m + 1]) >= m + 1
      BY <2>1, <3>1, <3>2
    <3> QED
      BY Zenon, <2>1, <3>3
  <2> QED
    BY Zenon, <2>3, <2>4
<1>6. Nat \subseteq Grown
  <2> HIDE DEF Grown
  <2> QED
    BY Zenon, <1>4, <1>5, NatInductionSet
<1>7. Cardinality(A[c + 1]) >= c + 1
  BY Zenon, <1>6
<1>8. Cardinality(A[c + 1]) <= c /\ Cardinality(A[c + 1]) \in Nat
  <2>1. A[c + 1] \in SUBSET S
    OBVIOUS
  <2> QED
    BY <1>1, <1>2, <2>1, FS_Subset
<1> QED
  BY <1>7, <1>8

\* A walk of more steps than there are places comes by one of them again: no walk
\* over the groups or the processes is longer than their number.
LEMMA WalkRepeats ==
  ASSUME NEW S, IsFiniteSet(S), NEW x \in [0 .. Cardinality(S) -> S]
  PROVE  \E i, j \in 0 .. Cardinality(S) : i < j /\ x[i] = x[j]
<1>1. PICK c \in Nat : c = Cardinality(S)
  BY Zenon, FS_CardinalityType
<1>2. c \in Int /\ 0 \in Int /\ ~(0 > c)
  OBVIOUS
<1>3. IsFiniteSet(0 .. c) /\ Cardinality(0 .. c) = IF 0 > c THEN 0 ELSE c - 0 + 1
  BY Zenon, <1>2, FS_Interval
<1>4. Cardinality(0 .. c) = c + 1
  BY <1>2, <1>3
<1>5. Cardinality(S) < Cardinality(0 .. c)
  BY <1>1, <1>4
<1>6. x \in [0 .. c -> S]
  BY Zenon, <1>1
<1>7. PICK I : I = 0 .. c
  BY Zenon
<1>8. PICK i \in I, j \in I : i # j /\ x[i] = x[j]
  BY <1>3, <1>5, <1>6, <1>7, FS_PigeonHole
<1>9. i < j \/ j < i
  BY <1>7, <1>8
<1> QED
  BY Zenon, <1>1, <1>7, <1>8, <1>9
=============================================================================
