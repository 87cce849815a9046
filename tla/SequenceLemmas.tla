--------------------------- MODULE SequenceLemmas ----------------------------
(* Facts that the proofs about several components rest on: induction, the    *)
(* least and the greatest number of a set, what a fold from the left runs    *)
(* through, and what is left of a sequence from which something is removed.  *)
EXTENDS Integers, SequencesExt, SequenceTheorems, WellFoundedInduction, TLAPS

CONSTANT Step(_, _)   \* what is folded; each module that uses this one says

-----------------------------------------------------------------------------
\* Numbers.

\* The induction theorems of the library take a predicate; this one takes a set.
LEMMA NatInduct ==
    ASSUME NEW S, 0 \in S, \A n \in Nat : n \in S => n + 1 \in S
    PROVE  Nat \subseteq S
<1>. DEFINE Less == {p \in Nat \X Nat : p[1] < p[2]}
            T == Nat \ S
<1>1. IsWellFoundedOn(Less, Nat)
  BY NatLessThanWellFounded, Zenon DEF OpToRel
<1>2. \A m, k \in Nat : k < m => <<k, m>> \in Less
  OBVIOUS
<1>. HIDE DEF Less
<1>. SUFFICES ASSUME T # {} PROVE FALSE
  OBVIOUS
<1>3. PICK m \in T : \A k \in T : ~ <<k, m>> \in Less
  BY <1>1, WFMin
<1>4. m \in Nat /\ m \notin S /\ m # 0
  OBVIOUS
<1>5. m - 1 \in Nat /\ m - 1 < m /\ (m - 1) + 1 = m
  BY <1>4
<1>6. m - 1 \notin T
  BY <1>2, <1>3, <1>4, <1>5
<1>7. m - 1 \in S
  BY <1>5, <1>6
<1>8. (m - 1) + 1 \in S
  BY <1>5, <1>7
<1>. QED BY <1>4, <1>5, <1>8

LEMMA LeastOf ==
    ASSUME NEW S \in SUBSET Nat, S # {}
    PROVE  Min(S) \in S /\ \A k \in S : Min(S) <= k
<1>. DEFINE Less == {p \in Nat \X Nat : p[1] < p[2]}
<1>1. IsWellFoundedOn(Less, Nat)
  BY NatLessThanWellFounded, Zenon DEF OpToRel
<1>2. \E m \in S : \A k \in S : ~ <<k, m>> \in Less
  BY <1>1, WFMin
<1>3. PICK m \in S : \A k \in S : ~ <<k, m>> \in Less
  BY <1>2
<1>4. \A k \in S : m <= k
  <2>. SUFFICES ASSUME NEW k \in S PROVE m <= k
    OBVIOUS
  <2>1. k \in Nat /\ m \in Nat
    OBVIOUS
  <2>2. ~ k < m
    BY <1>3, <2>1
  <2>. QED BY <2>1, <2>2
<1>. QED BY <1>4 DEF Min

LEMMA GreatestOf ==
    ASSUME NEW n \in Nat, NEW S \in SUBSET (1..n), S # {}
    PROVE  Max(S) \in S /\ \A k \in S : k <= Max(S)
<1>. DEFINE T == {n - k : k \in S}
<1>1. \A k \in S : k \in Nat /\ n - k \in T /\ n - k \in Nat
  OBVIOUS
<1>2. T \subseteq Nat /\ T # {}
  <2>1. \A j \in T : \E k \in S : j = n - k
    OBVIOUS
  <2>2. \A j \in T : j \in Nat
    BY <1>1, <2>1
  <2>. QED BY <1>1, <2>2
<1>. HIDE DEF T
<1>3. Min(T) \in T /\ \A k \in T : Min(T) <= k
  BY <1>2, LeastOf
<1>4. PICK m \in S : Min(T) = n - m
  BY <1>3 DEF T
<1>5. \A k \in S : k <= m
  <2>. SUFFICES ASSUME NEW k \in S PROVE k <= m
    OBVIOUS
  <2>1. n - m <= n - k
    BY <1>1, <1>3, <1>4
  <2>2. k \in Nat /\ m \in Nat
    BY <1>1
  <2>. QED BY <2>1, <2>2
<1>6. \E g \in S : \A k \in S : g >= k
  <2>1. \A k \in S : m >= k
    BY <1>1, <1>5
  <2>. QED BY <2>1
<1>7. Max(S) \in S /\ \A k \in S : Max(S) >= k
  BY <1>6 DEF Max
<1>8. \A k \in S : k <= Max(S)
  <2>. SUFFICES ASSUME NEW k \in S PROVE k <= Max(S)
    OBVIOUS
  <2>1. Max(S) >= k /\ Max(S) \in Nat /\ k \in Nat
    BY <1>1, <1>7
  <2>. QED BY <2>1
<1>. QED BY <1>7, <1>8

LEMMA GreatestIs ==
    ASSUME NEW n \in Nat, NEW S \in SUBSET (1..n), NEW m \in S, \A k \in S : k <= m
    PROVE  Max(S) = m
<1>1. Max(S) \in S /\ \A k \in S : k <= Max(S)
  BY GreatestOf
<1>2. Max(S) <= m /\ m <= Max(S)
  BY <1>1
<1>3. Max(S) \in 1..n /\ m \in 1..n
  <2>1. \A k \in S : k \in 1..n
    OBVIOUS
  <2>. QED BY <1>1, <2>1
<1>. QED BY <1>2, <1>3

-----------------------------------------------------------------------------
\* A fold from the left, step by step.

\* g goes from base through the sequence; a fold ends where such a path does.
IsPath(g, base, ms) ==
    /\ g[0] = base
    /\ \A k \in 1..Len(ms) : g[k] = Step(g[k - 1], ms[k])

\* The function that FoldLeft chooses, which is defined on sets of places.
Iterates(it, base, ms, n) ==
    it = [t \in SUBSET (1..n) |->
             IF t = {} THEN base ELSE Step(it[t \ {Max(t)}], ms[Max(t)])]

LEMMA FoldExists ==
    ASSUME NEW n \in Nat, NEW base, NEW ms PROVE \E it : Iterates(it, base, ms, n)
<1>. DEFINE S == {k \in Nat : \E it : Iterates(it, base, ms, k)}
<1>1. 0 \in S
  <2>1. SUBSET (1..0) = {{}}
    OBVIOUS
  <2>2. Iterates([t \in SUBSET (1..0) |-> base], base, ms, 0)
    BY <2>1 DEF Iterates
  <2>. QED BY <2>2
<1>2. ASSUME NEW k \in Nat, k \in S PROVE k + 1 \in S
  <2>1. PICK old : Iterates(old, base, ms, k)
    BY <1>2
  <2>. DEFINE D == SUBSET (1..(k + 1))
              new == [t \in D |-> IF k + 1 \in t THEN Step(old[t \ {k + 1}], ms[k + 1])
                                                 ELSE old[t]]
  <2>2. ASSUME NEW t \in D PROVE t \ {k + 1} \in SUBSET (1..k)
    OBVIOUS
  <2>3. ASSUME NEW t \in SUBSET (1..k) PROVE t \in D /\ new[t] = old[t] /\ k + 1 \notin t
    OBVIOUS
  <2>4. ASSUME NEW t \in D
        PROVE  new[t] = IF t = {} THEN base ELSE Step(new[t \ {Max(t)}], ms[Max(t)])
    <3>1. CASE k + 1 \in t
      <4>1. Max(t) = k + 1
        <5>1. k + 1 \in Nat /\ t \in SUBSET (1..(k + 1)) /\ \A j \in t : j <= k + 1
          OBVIOUS
        <5>. QED BY ONLY <5>1, <3>1, GreatestIs
      <4>2. new[t \ {k + 1}] = old[t \ {k + 1}]
        BY <2>2, <2>3
      <4>. HIDE DEF new
      <4>3. new[t] = Step(old[t \ {k + 1}], ms[k + 1])
        BY <3>1 DEF new
      <4>. QED BY <3>1, <4>1, <4>2, <4>3
    <3>2. CASE k + 1 \notin t
      <4>1. t \in SUBSET (1..k)
        BY <3>2
      <4>2. new[t] = old[t]
        BY <2>3, <4>1
      <4>3. t \ {Max(t)} \in SUBSET (1..k)
        BY <4>1
      <4>4. new[t \ {Max(t)}] = old[t \ {Max(t)}]
        BY <2>3, <4>3
      <4>. HIDE DEF new
      <4>. QED BY <2>1, <4>1, <4>2, <4>4 DEF Iterates
    <3>. QED BY <3>1, <3>2
  <2>5. new = [t \in D |-> new[t]]
    OBVIOUS
  <2>. HIDE DEF new
  <2>6. Iterates(new, base, ms, k + 1)
    BY <2>4, <2>5 DEF Iterates
  <2>. QED BY <2>6
<1>. HIDE DEF S
<1>3. n \in S
  BY <1>1, <1>2, NatInduct
<1>. QED BY <1>3 DEF S

LEMMA UpTo ==
    ASSUME NEW k \in Nat \ {0}
    PROVE  1..k # {} /\ Max(1..k) = k /\ (1..k) \ {k} = 1..(k - 1)
<1>1. 1..k \in SUBSET (1..k) /\ k \in 1..k /\ \A j \in 1..k : j <= k
  OBVIOUS
<1>2. Max(1..k) = k
  BY <1>1, GreatestIs
<1>. QED BY <1>2

LEMMA FoldHasPath ==
    ASSUME NEW base, NEW ms, Len(ms) \in Nat, DOMAIN ms = 1..Len(ms)
    PROVE  \E g : IsPath(g, base, ms) /\ FoldLeft(Step, base, ms) = g[Len(ms)]
<1>. DEFINE n == Len(ms)
            it == CHOOSE f : Iterates(f, base, ms, n)
            g == [k \in 0..n |-> it[1..k]]
<1>1. Iterates(it, base, ms, n)
  BY FoldExists
<1>2. FoldLeft(Step, base, ms) = it[1..n]
  BY Zenon DEF FoldLeft, MapThenFoldSet, Iterates
<1>. HIDE DEF it
<1>3. g[0] = base
  BY <1>1 DEF Iterates
<1>4. ASSUME NEW k \in 1..n PROVE g[k] = Step(g[k - 1], ms[k])
  <2>1. 1..k # {} /\ Max(1..k) = k /\ (1..k) \ {k} = 1..(k - 1)
    BY UpTo
  <2>2. 1..k \in SUBSET (1..n) /\ k - 1 \in 0..n
    OBVIOUS
  <2>3. it[1..k] = Step(it[1..(k - 1)], ms[k])
    BY <1>1, <2>1, <2>2 DEF Iterates
  <2>. QED BY <2>2, <2>3
<1>5. FoldLeft(Step, base, ms) = g[n]
  BY <1>2
<1>. HIDE DEF g
<1>. QED BY <1>3, <1>4, <1>5 DEF IsPath

\* There is one such path only, so any will do.
LEMMA FoldIs ==
    ASSUME NEW base, NEW ms, Len(ms) \in Nat, DOMAIN ms = 1..Len(ms),
           NEW g, IsPath(g, base, ms)
    PROVE  FoldLeft(Step, base, ms) = g[Len(ms)]
<1>1. PICK h : IsPath(h, base, ms) /\ FoldLeft(Step, base, ms) = h[Len(ms)]
  BY FoldHasPath
<1>. DEFINE S == {k \in Nat : k <= Len(ms) => g[k] = h[k]}
<1>2. 0 \in S
  BY <1>1 DEF IsPath
<1>3. ASSUME NEW k \in Nat, k \in S PROVE k + 1 \in S
  <2>. SUFFICES ASSUME k + 1 <= Len(ms) PROVE g[k + 1] = h[k + 1]
    OBVIOUS
  <2>1. k + 1 \in 1..Len(ms) /\ (k + 1) - 1 = k /\ g[k] = h[k]
    BY <1>3
  <2>. QED BY <1>1, <2>1 DEF IsPath
<1>. HIDE DEF S
<1>4. Len(ms) \in S
  BY <1>2, <1>3, NatInduct
<1>. QED BY <1>1, <1>4 DEF S

-----------------------------------------------------------------------------
\* Taking an element out of a sequence.

LEMMA RemovalAt ==
    ASSUME NEW S, NEW s \in Seq(S), NEW i \in 1..Len(s)
    PROVE  RemoveAt(s, i) \in Seq(S) /\ Len(RemoveAt(s, i)) = Len(s) - 1
<1>1. Len(s) \in Nat
  BY LenProperties
<1>2. SubSeq(s, 1, i - 1) \in Seq(S) /\ Len(SubSeq(s, 1, i - 1)) = i - 1
  BY <1>1, SubSeqProperties
<1>3. SubSeq(s, i + 1, Len(s)) \in Seq(S) /\ Len(SubSeq(s, i + 1, Len(s))) = Len(s) - i
  BY <1>1, SubSeqProperties
<1>. DEFINE a == SubSeq(s, 1, i - 1)
            b == SubSeq(s, i + 1, Len(s))
<1>4. RemoveAt(s, i) = a \o b
  BY DEF RemoveAt
<1>. HIDE DEF a, b
<1>5. a \in Seq(S) /\ b \in Seq(S) /\ Len(a) = i - 1 /\ Len(b) = Len(s) - i
  BY <1>2, <1>3 DEF a, b
<1>6. a \o b \in Seq(S) /\ Len(a \o b) = (i - 1) + (Len(s) - i)
  <2>1. a \o b \in Seq(S) /\ Len(a \o b) = Len(a) + Len(b)
    BY <1>5, ConcatProperties
  <2>. QED BY <1>1, <1>5, <2>1
<1>. QED BY <1>1, <1>4, <1>6

LEMMA FirstRemoved ==
    ASSUME NEW S, NEW s \in Seq(S), NEW e
    PROVE  /\ RemoveFirst(s, e) \in Seq(S) /\ Len(RemoveFirst(s, e)) <= Len(s)
           /\ s = <<>> => RemoveFirst(s, e) = <<>>
<1>0. Len(s) \in Nat
  BY LenProperties
<1>1. CASE \E i \in 1..Len(s) : s[i] = e
  <2>. DEFINE I == {i \in 1..Len(s) : s[i] = e}
  <2>1. I \in SUBSET Nat /\ I # {} /\ I \subseteq 1..Len(s)
    BY <1>0, <1>1
  <2>2. SelectInSeq(s, LAMBDA v : v = e) = Min(I)
    BY <2>1, Zenon DEF SelectInSeq
  <2>. HIDE DEF I
  <2>3. Min(I) \in 1..Len(s)
    BY <2>1, LeastOf
  <2>4. RemoveFirst(s, e) = RemoveAt(s, Min(I))
    BY <1>1, <2>2, Zenon DEF RemoveFirst
  <2>5. s # <<>>
    BY <1>0, <2>3, EmptySeq
  <2>6. RemoveAt(s, Min(I)) \in Seq(S) /\ Len(RemoveAt(s, Min(I))) = Len(s) - 1
    BY <2>3, RemovalAt
  <2>. QED BY <1>0, <2>4, <2>5, <2>6
<1>2. CASE ~ \E i \in 1..Len(s) : s[i] = e
  <2>1. RemoveFirst(s, e) = s
    BY <1>2, Zenon DEF RemoveFirst
  <2>. QED BY <1>0, <2>1
<1>. QED BY <1>1, <1>2
=============================================================================
