------------------------- MODULE SeqlenBalancing_proofs -------------------------
(***************************************************************************)
(* What the differencing guarantees for batches of every size, proved: no  *)
(* row is lost or doubled, the partitions spread no wider than one row is  *)
(* long (or two rows differ, with equal_size), no assertion of             *)
(* get_seqlen_balanced_partitions fails, and no micro-batch exceeds the    *)
(* token limit by a row.                                                   *)
(*                                                                         *)
(* The inductive invariant says of every State that its Sets are in        *)
(* decreasing order, and that as long as one of them is empty none has two *)
(* rows: merging fills all Sets before it doubles any.  TokenInv adds that *)
(* the sums are those of the rows, and what rearrange_micro_batches asked  *)
(* for.                                                                    *)
(***************************************************************************)
EXTENDS SeqlenBalancing, FiniteSetTheorems, FunctionTheorems, SequenceTheorems,
        WellFoundedInduction, TLAPS

\* A Set without rows has no tokens, so that it is lighter than any other.
EmptyIsLight(s) == \A g \in 1 .. k : Len(s[g].items) = 0 => s[g].sum = 0

\* With equal_size, all Sets of a State have as many rows.
SameSizes(s) == equal => \A g, h \in 1 .. k : Len(s[g].items) = Len(s[h].items)

\* Two rows meet in one Set only when every Set has one.
FullOrSingles(s) ==
    \/ \A g \in 1 .. k : Len(s[g].items) >= 1
    \/ \A g \in 1 .. k : Len(s[g].items) <= 1

\* What Balanced says of one State.
Narrow(s) ==
    \E i, j \in Rows : Spread(s) <= IF equal THEN lens[i] - lens[j] ELSE lens[i]

Sound(s) == Decreasing(s) /\ EmptyIsLight(s) /\ SameSizes(s) /\ FullOrSingles(s) /\ Narrow(s)

EnoughRows == k <= Len(lens)

IInv ==
    /\ TypeOK
    /\ EnoughRows
    /\ \A s \in heap : Sound(s)
    /\ EachRowOnce
    /\ AssertionsHold

--------------------------------------------------------------------------------
(* States *)

\* The lengths of a batch are positive.
LEMMA LensType ==
    ASSUME TypeOK
    PROVE  /\ Len(lens) \in Nat
           /\ \A i \in Rows : lens[i] \in Nat \ {0}
<1>1. Len(lens) \in Nat
  BY LenProperties DEF TypeOK
<1>2. ASSUME NEW i \in Rows PROVE lens[i] \in Nat \ {0}
  <2>1. lens[i] \in Lengths
    BY ElementOfSeq DEF TypeOK, Rows
  <2> QED
    BY <2>1, LengthAssumption
<1> QED
  BY <1>1, <1>2

\* The Sets of a State are typed, and their rows a sequence.
LEMMA StateType ==
    ASSUME TypeOK, NEW s \in States, NEW g \in 1 .. k
    PROVE  /\ s[g].sum \in Nat
           /\ s[g].items \in Seq(Rows)
           /\ Len(s[g].items) \in Nat
           /\ DOMAIN s[g].items = 1 .. Len(s[g].items)
           /\ \A p \in 1 .. Len(s[g].items) : s[g].items[p] \in Rows
<1>1. s[g] \in Sets
  BY DEF States
<1>2. s[g].sum \in Nat /\ s[g].items \in Seq(Rows)
  BY <1>1 DEF Sets
<1>3. Len(s[g].items) \in Nat /\ DOMAIN s[g].items = 1 .. Len(s[g].items)
  BY <1>2, LenProperties
<1>4. \A p \in 1 .. Len(s[g].items) : s[g].items[p] \in Rows
  BY <1>2, ElementOfSeq
<1> QED
  BY <1>2, <1>3, <1>4

\* In a State in decreasing order, the sums decrease.
LEMMA SumsDecrease ==
    ASSUME TypeOK, NEW s \in States, Decreasing(s), NEW g \in 1 .. k, NEW h \in 1 .. k, g <= h
    PROVE  s[g].sum >= s[h].sum
<1>1. s[g].sum \in Nat /\ s[h].sum \in Nat
  BY StateType
<1>2. CASE g = h
  BY <1>1, <1>2
<1>3. CASE g < h
  <2>1. ~Lighter(s[g], s[h])
    BY <1>3 DEF Decreasing
  <2> QED
    BY <2>1, <1>1 DEF Lighter
<1> QED
  BY <1>2, <1>3 DEF TypeOK

\* In a State in decreasing order, the empty Sets come last.
LEMMA EmptyLast ==
    ASSUME TypeOK, NEW s \in States, Decreasing(s), EmptyIsLight(s),
           NEW g \in 1 .. k, NEW h \in 1 .. k, g <= h, Len(s[g].items) = 0
    PROVE  Len(s[h].items) = 0
<1>1. s[h].sum \in Nat /\ Len(s[h].items) \in Nat /\ s[g].sum = 0
  BY StateType DEF EmptyIsLight
<1>2. CASE g = h
  BY <1>2
<1>3. CASE g < h
  <2>1. ~Lighter(s[g], s[h])
    BY <1>3 DEF Decreasing
  <2> QED
    BY <2>1, <1>1 DEF Lighter
<1> QED
  BY <1>2, <1>3 DEF TypeOK

\* Sorting a State permutes its Sets and puts them in decreasing order.
LEMMA ArrangedFacts ==
    ASSUME TypeOK, NEW s \in States
    PROVE  \E p \in [1 .. k -> 1 .. k] :
               /\ \A g, h \in 1 .. k : p[g] = p[h] => g = h
               /\ \A h \in 1 .. k : \E g \in 1 .. k : p[g] = h
               /\ Arranged(s) = [r \in 1 .. k |-> s[p[r]]]
               /\ Decreasing(Arranged(s))
<1> DEFINE K == 1 .. k
           C(h, g) == Lighter(s[g], s[h]) \/ (h < g /\ ~Lighter(s[h], s[g]))
           S(g) == s[g].sum
           L(g) == Len(s[g].items)
           H(g) == IF L(g) = 0 THEN 0 ELSE s[g].items[1]
           rank == [g \in K |-> Cardinality(Ahead(s, g)) + 1]
           chosen(r) == CHOOSE g \in K : Cardinality(Ahead(s, g)) = r - 1
           p == [r \in K |-> chosen(r)]
<1>k. k \in Nat \ {0}
  BY DEF TypeOK
<1>f. IsFiniteSet(K) /\ Cardinality(K) = k
  BY <1>k, FS_Interval
<1>1. ASSUME NEW g \in K PROVE S(g) \in Nat /\ L(g) \in Nat /\ H(g) \in Nat
  <2>1. S(g) \in Nat /\ L(g) \in Nat /\ (L(g) # 0 => s[g].items[1] \in Rows)
    BY StateType
  <2>2. Rows \subseteq Nat
    BY DEF Rows
  <2> QED
    BY <2>1, <2>2
<1>2. ASSUME NEW g \in K, NEW h \in K
      PROVE  Lighter(s[g], s[h]) <=>
                 \/ S(g) < S(h)
                 \/ S(g) = S(h) /\ L(g) < L(h)
                 \/ S(g) = S(h) /\ L(g) = L(h) /\ H(g) < H(h)
  <2>1. s[g].items = <<>> <=> L(g) = 0
    <3>1. s[g].items \in Seq(Rows)
      BY StateType
    <3> QED
      BY <3>1, EmptySeq, <1>1
  <2> QED
    BY <2>1, <1>1 DEF Lighter
<1> HIDE DEF S, L, H
<1>3. ASSUME NEW f \in K, NEW g \in K, NEW h \in K, C(f, g), C(g, h) PROVE C(f, h)
  BY <1>1, <1>2, <1>3
<1>4. \A g \in K : ~C(g, g)
  BY <1>1, <1>2
<1>5. \A g, h \in K : g # h => C(g, h) \/ C(h, g)
  BY <1>1, <1>2
<1>6. \A g, h \in K : C(g, h) => ~Lighter(s[g], s[h])
  BY <1>1, <1>2
<1>7. \A g, h \in K : h \in Ahead(s, g) <=> C(h, g)
  BY DEF Ahead
<1>8. \A g \in K : Ahead(s, g) \subseteq K \ {g}
  BY <1>4, <1>7 DEF Ahead
<1> HIDE DEF C
<1>9. ASSUME NEW g \in K
      PROVE  /\ IsFiniteSet(Ahead(s, g))
             /\ Cardinality(Ahead(s, g)) \in 0 .. k - 1
  <2>1. IsFiniteSet(K \ {g}) /\ Cardinality(K \ {g}) = k - 1
    BY <1>f, FS_RemoveElement
  <2>2. Ahead(s, g) \in SUBSET (K \ {g})
    BY <1>8
  <2>3. IsFiniteSet(Ahead(s, g)) /\ Cardinality(Ahead(s, g)) <= k - 1
    BY <2>1, <2>2, FS_Subset
  <2> QED
    BY <2>3, FS_CardinalityType, <1>k
<1>10. rank \in [K -> K]
  BY <1>9, <1>k
<1>11. ASSUME NEW g \in K, NEW h \in K, C(g, h) PROVE rank[g] < rank[h]
  <2>1. Ahead(s, g) \in SUBSET Ahead(s, h)
    BY <1>3, <1>7, <1>8, <1>11
  <2>2. Ahead(s, g) # Ahead(s, h)
    BY <1>4, <1>7, <1>11
  <2>3. Cardinality(Ahead(s, g)) <= Cardinality(Ahead(s, h))
    BY <2>1, <1>9, FS_Subset
  <2>4. Cardinality(Ahead(s, g)) # Cardinality(Ahead(s, h))
    BY <2>1, <2>2, <1>9, FS_Subset
  <2>5. Cardinality(Ahead(s, g)) < Cardinality(Ahead(s, h))
    BY <2>3, <2>4, <1>9
  <2> QED
    BY <2>5, <1>9
<1>12. \A g, h \in K : rank[g] = rank[h] => g = h
  BY <1>5, <1>10, <1>11
<1>13. \A r \in K : \E g \in K : rank[g] = r
  <2>1. rank \in Injection(K, K)
    BY <1>10, <1>12, Fun_IsInj
  <2>2. rank \in Surjection(K, K)
    BY <2>1, <1>f, FS_Injection
  <2> HIDE DEF rank
  <2> QED
    BY <2>2, Fun_SurjectionProperties
<1>14. ASSUME NEW r \in K PROVE p[r] \in K /\ rank[p[r]] = r
  <2>1. PICK g \in K : rank[g] = r
    BY <1>13
  <2>2. Cardinality(Ahead(s, g)) = r - 1
    BY <2>1, <1>9
  <2>3. p[r] \in K /\ Cardinality(Ahead(s, p[r])) = r - 1
    BY <2>2
  <2> QED
    BY <2>3, <1>9
<1>15. Arranged(s) = [r \in K |-> s[p[r]]]
  BY DEF Arranged
<1>16. p \in [K -> K]
  <2>1. \A r \in K : chosen(r) \in K
    BY <1>14
  <2> HIDE DEF chosen
  <2> QED
    BY <2>1
<1> HIDE DEF rank, chosen, p
<1>17. \A g, h \in K : p[g] = p[h] => g = h
  BY <1>14
<1>18. ASSUME NEW h \in K PROVE \E g \in K : p[g] = h
  <2>1. rank[h] \in K
    BY <1>10
  <2>2. p[rank[h]] = h
    BY <2>1, <1>12, <1>14
  <2> QED
    BY <2>1, <2>2
<1>19. Decreasing(Arranged(s))
  <2> SUFFICES ASSUME NEW g \in K, NEW h \in K, g < h
               PROVE  ~Lighter(s[p[g]], s[p[h]])
    BY <1>15 DEF Decreasing
  <2>1. p[g] \in K /\ p[h] \in K /\ rank[p[g]] = g /\ rank[p[h]] = h
    BY <1>14
  <2>2. p[g] # p[h] /\ ~C(p[h], p[g])
    BY <2>1, <1>11
  <2> QED
    BY <2>1, <2>2, <1>5, <1>6
<1> QED
  BY <1>15, <1>16, <1>17, <1>18, <1>19

--------------------------------------------------------------------------------
(* Merging *)

\* Every Set of the merged State joins a Set of one State with the one of the other
\* that is as far from the end as it is from the start.
LEMMA MergeFacts ==
    ASSUME TypeOK, NEW s \in States, NEW t \in States
    PROVE  \E p \in [1 .. k -> 1 .. k] :
               /\ \A g, h \in 1 .. k : p[g] = p[h] => g = h
               /\ \A h \in 1 .. k : \E g \in 1 .. k : p[g] = h
               /\ Arranged(Merged(s, t)) \in States
               /\ Decreasing(Arranged(Merged(s, t)))
               /\ \A g \in 1 .. k :
                   Arranged(Merged(s, t))[g] = Join(s[p[g]], t[k + 1 - p[g]])
<1> DEFINE raw == Merged(s, t)
<1>1. ASSUME NEW g \in 1 .. k PROVE raw[g] \in Sets /\ k + 1 - g \in 1 .. k
  <2>1. k + 1 - g \in 1 .. k
    BY DEF TypeOK
  <2>2. s[g].sum \in Nat /\ s[g].items \in Seq(Rows)
    BY StateType
  <2>3. t[k + 1 - g].sum \in Nat /\ t[k + 1 - g].items \in Seq(Rows)
    BY StateType, <2>1
  <2>4. s[g].items \o t[k + 1 - g].items \in Seq(Rows)
    BY <2>2, <2>3, ConcatProperties
  <2>5. raw[g] = [sum |-> s[g].sum + t[k + 1 - g].sum,
                  items |-> s[g].items \o t[k + 1 - g].items]
    BY DEF Merged, Join
  <2>6. s[g].sum + t[k + 1 - g].sum \in Nat
    BY <2>2, <2>3
  <2> QED
    BY <2>1, <2>4, <2>5, <2>6 DEF Sets
<1>2. raw \in States
  BY <1>1 DEF Merged, States
<1>3. PICK p \in [1 .. k -> 1 .. k] :
          /\ \A g, h \in 1 .. k : p[g] = p[h] => g = h
          /\ \A h \in 1 .. k : \E g \in 1 .. k : p[g] = h
          /\ Arranged(raw) = [r \in 1 .. k |-> raw[p[r]]]
          /\ Decreasing(Arranged(raw))
  <2> HIDE DEF raw
  <2> QED
    BY <1>2, ArrangedFacts
<1>4. Arranged(raw) \in States
  <2> HIDE DEF raw
  <2> QED
    BY <1>2, <1>3 DEF States
<1>5. \A g \in 1 .. k : Arranged(raw)[g] = Join(s[p[g]], t[k + 1 - p[g]])
  <2>1. \A g \in 1 .. k : raw[p[g]] = Join(s[p[g]], t[k + 1 - p[g]])
    BY <1>3 DEF Merged
  <2> HIDE DEF raw
  <2> QED
    BY <2>1, <1>3
<1> QED
  BY <1>3, <1>4, <1>5

\* Merging keeps what the invariant says of a State.
LEMMA MergedSound ==
    ASSUME TypeOK, NEW s \in States, NEW t \in States, Sound(s), Sound(t)
    PROVE  Sound(Arranged(Merged(s, t)))
<1> DEFINE m == Arranged(Merged(s, t))
           K == 1 .. k
<1>1. PICK p \in [K -> K] :
          /\ \A g, h \in K : p[g] = p[h] => g = h
          /\ \A h \in K : \E g \in K : p[g] = h
          /\ m \in States
          /\ Decreasing(m)
          /\ \A g \in K : m[g] = Join(s[p[g]], t[k + 1 - p[g]])
  BY MergeFacts
<1>k. k \in Nat \ {0} /\ 1 \in K /\ k \in K
  BY DEF TypeOK
<1>q. \A g \in K : p[g] \in K /\ k + 1 - p[g] \in K
  BY <1>k
<1> DEFINE SS(g) == s[g].sum
           ST(g) == t[g].sum
           SM(g) == m[g].sum
           LS(g) == Len(s[g].items)
           LT(g) == Len(t[g].items)
           LM(g) == Len(m[g].items)
<1>2. \A g \in K : SS(g) \in Nat /\ ST(g) \in Nat /\ LS(g) \in Nat /\ LT(g) \in Nat
  BY StateType
<1>3. ASSUME NEW g \in K
      PROVE  /\ SM(g) = SS(p[g]) + ST(k + 1 - p[g])
             /\ LM(g) = LS(p[g]) + LT(k + 1 - p[g])
  <2>1. m[g] = Join(s[p[g]], t[k + 1 - p[g]])
    BY <1>1
  <2>2. s[p[g]].items \in Seq(Rows) /\ t[k + 1 - p[g]].items \in Seq(Rows)
    BY <1>q, StateType
  <2>3. Len(s[p[g]].items \o t[k + 1 - p[g]].items) = LS(p[g]) + LT(k + 1 - p[g])
    BY <2>2, ConcatProperties
  <2> HIDE DEF m
  <2> QED
    BY <2>1, <2>3 DEF Join
<1>4. \A g, h \in K : g <= h => SS(g) >= SS(h) /\ ST(g) >= ST(h)
  BY SumsDecrease DEF Sound
<1>5. \A g, h \in K : g <= h => (LS(g) = 0 => LS(h) = 0) /\ (LT(g) = 0 => LT(h) = 0)
  BY EmptyLast DEF Sound
<1>6. \A g \in K : (LS(g) = 0 => SS(g) = 0) /\ (LT(g) = 0 => ST(g) = 0)
  BY DEF Sound, EmptyIsLight
<1>7. equal => \A g, h \in K : LS(g) = LS(h) /\ LT(g) = LT(h)
  BY DEF Sound, SameSizes
<1>8. /\ (\A g \in K : LS(g) >= 1) \/ (\A g \in K : LS(g) <= 1)
      /\ (\A g \in K : LT(g) >= 1) \/ (\A g \in K : LT(g) <= 1)
  BY DEF Sound, FullOrSingles
<1>9. /\ Spread(s) = SS(1) - SS(k)
      /\ Spread(t) = ST(1) - ST(k)
      /\ Spread(m) = SM(1) - SM(k)
  BY DEF Spread
<1>10. EmptyIsLight(m) <=> \A g \in K : LM(g) = 0 => SM(g) = 0
  BY DEF EmptyIsLight
<1>11. SameSizes(m) <=> (equal => \A g, h \in K : LM(g) = LM(h))
  BY DEF SameSizes
<1>12. FullOrSingles(m) <=> (\A g \in K : LM(g) >= 1) \/ (\A g \in K : LM(g) <= 1)
  BY DEF FullOrSingles
<1> HIDE DEF m, K, SS, ST, SM, LS, LT, LM
<1>13. EmptyIsLight(m)
  BY <1>2, <1>3, <1>6, <1>10, <1>q
<1>14. SameSizes(m)
  BY <1>3, <1>7, <1>11, <1>q
<1>15. FullOrSingles(m)
  <2>1. CASE (\A g \in K : LS(g) >= 1) \/ (\A g \in K : LT(g) >= 1)
    BY <2>1, <1>2, <1>3, <1>12, <1>q
  <2>2. CASE (\A g \in K : LS(g) <= 1) /\ (\A g \in K : LT(g) <= 1)
    <3>1. SUFFICES ASSUME NEW f \in K, LM(f) = 0, NEW g \in K
                   PROVE  LM(g) <= 1
      <4>1. \A g \in K : LM(g) \in Nat
        BY <1>2, <1>3, <1>q
      <4> QED
        BY <4>1, <1>12
    <3>2. LS(p[f]) = 0 /\ LT(k + 1 - p[f]) = 0
      BY <3>1, <1>2, <1>3, <1>q
    <3>3. CASE p[g] >= p[f]
      <4>1. LS(p[g]) = 0
        BY <3>2, <3>3, <1>5, <1>q
      <4> QED
        BY <4>1, <2>2, <1>2, <1>3, <1>q
    <3>4. CASE p[g] < p[f]
      <4>1. k + 1 - p[f] <= k + 1 - p[g]
        BY <3>4, <1>k, <1>q DEF K
      <4>2. LT(k + 1 - p[g]) = 0
        BY <3>2, <4>1, <1>5, <1>q
      <4> QED
        BY <4>2, <2>2, <1>2, <1>3, <1>q
    <3> QED
      BY <3>3, <3>4, <1>q DEF K
  <2> QED
    BY <2>1, <2>2, <1>8
<1>16. Spread(m) <= Spread(s) \/ Spread(m) <= Spread(t)
  <2> DEFINE a == p[1]
             b == p[k]
             c == k + 1 - p[1]
             d == k + 1 - p[k]
  <2>1. a \in K /\ b \in K /\ c \in K /\ d \in K
    BY <1>k, <1>q
  <2>2. (a <= b /\ d <= c) \/ (b <= a /\ c <= d)
    BY <2>1, <1>k DEF K
  <2>3. Spread(m) = SS(a) + ST(c) - SS(b) - ST(d)
    <3>1. SM(1) = SS(a) + ST(c) /\ SM(k) = SS(b) + ST(d)
      BY <1>3, <1>k
    <3>2. SS(a) \in Nat /\ ST(c) \in Nat /\ SS(b) \in Nat /\ ST(d) \in Nat
      BY <2>1, <1>2
    <3> QED
      BY <3>1, <3>2, <1>9
  <2>4. /\ SS(1) >= SS(a) /\ SS(b) >= SS(k)
        /\ ST(1) >= ST(c) /\ ST(d) >= ST(k)
        /\ SS(1) >= SS(b) /\ SS(a) >= SS(k)
        /\ ST(1) >= ST(d) /\ ST(c) >= ST(k)
    BY <2>1, <1>4, <1>k DEF K
  <2>5. (a <= b => SS(a) >= SS(b)) /\ (b <= a => SS(b) >= SS(a))
    BY <2>1, <1>4
  <2>6. (c <= d => ST(c) >= ST(d)) /\ (d <= c => ST(d) >= ST(c))
    BY <2>1, <1>4
  <2>7. /\ SS(a) \in Nat /\ SS(b) \in Nat /\ SS(1) \in Nat /\ SS(k) \in Nat
        /\ ST(c) \in Nat /\ ST(d) \in Nat /\ ST(1) \in Nat /\ ST(k) \in Nat
    BY <2>1, <1>2, <1>k
  <2> HIDE DEF a, b, c, d
  <2> QED
    BY <2>2, <2>3, <2>4, <2>5, <2>6, <2>7, <1>9
<1>17. Narrow(m)
  <2>1. /\ Spread(m) \in Int /\ Spread(s) \in Int /\ Spread(t) \in Int
    <3>1. SM(1) = SS(p[1]) + ST(k + 1 - p[1]) /\ SM(k) = SS(p[k]) + ST(k + 1 - p[k])
      BY <1>3, <1>k
    <3>2. /\ SS(p[1]) \in Nat /\ ST(k + 1 - p[1]) \in Nat
          /\ SS(p[k]) \in Nat /\ ST(k + 1 - p[k]) \in Nat
      BY <1>2, <1>k, <1>q
    <3>3. SS(1) \in Nat /\ SS(k) \in Nat /\ ST(1) \in Nat /\ ST(k) \in Nat
      BY <1>2, <1>k
    <3> QED
      BY <3>1, <3>2, <3>3, <1>9
  <2>2. Narrow(s) /\ Narrow(t)
    BY DEF Sound
  <2>3. \A i \in Rows : lens[i] \in Nat
    BY LensType
  <2> QED
    BY <2>1, <2>2, <2>3, <1>16 DEF Narrow
<1> QED
  BY <1>1, <1>13, <1>14, <1>15, <1>17 DEF Sound, m

\* Merging two States of the heap neither loses nor doubles a row of theirs.
LEMMA MergedRows ==
    ASSUME TypeOK, EachRowOnce, NEW s \in heap, NEW t \in heap, s # t,
           NEW m, m = Arranged(Merged(s, t))
    PROVE  /\ m \in States
           /\ \A g \in 1 .. k, i \in Rows :
               i \in Range(s[g].items) \/ i \in Range(t[g].items) =>
                   \E h \in 1 .. k : i \in Range(m[h].items)
           /\ \A g \in 1 .. k : \A q \in DOMAIN m[g].items :
               \E u \in {s, t} : \E h \in 1 .. k : \E r \in DOMAIN u[h].items :
                   m[g].items[q] = u[h].items[r]
           /\ \A g, h \in 1 .. k : \A q \in DOMAIN m[g].items, r \in DOMAIN m[h].items :
               m[g].items[q] = m[h].items[r] => g = h /\ q = r
<1> DEFINE K == 1 .. k
<1>s. s \in States /\ t \in States
  BY DEF TypeOK
<1>1. PICK p \in [K -> K] :
          /\ \A g, h \in K : p[g] = p[h] => g = h
          /\ \A h \in K : \E g \in K : p[g] = h
          /\ m \in States
          /\ \A g \in K : m[g] = Join(s[p[g]], t[k + 1 - p[g]])
  BY <1>s, MergeFacts
<1>k. k \in Nat
  BY DEF TypeOK
<1>q. \A g \in K : p[g] \in K /\ k + 1 - p[g] \in K
  BY <1>k
<1> DEFINE LS(g) == Len(s[g].items)
           LT(g) == Len(t[g].items)
           IS(g, q) == s[g].items[q]
           IT(g, q) == t[g].items[q]
           IM(g, q) == m[g].items[q]
           DM(g) == DOMAIN m[g].items
<1>2. ASSUME NEW g \in K
      PROVE  /\ LS(g) \in Nat /\ DOMAIN s[g].items = 1 .. LS(g)
             /\ LT(g) \in Nat /\ DOMAIN t[g].items = 1 .. LT(g)
  BY <1>s, StateType
<1>3. ASSUME NEW g \in K
      PROVE  /\ DOMAIN m[g].items = 1 .. LS(p[g]) + LT(k + 1 - p[g])
             /\ \A q \in 1 .. LS(p[g]) + LT(k + 1 - p[g]) :
                 IM(g, q) = IF q <= LS(p[g]) THEN IS(p[g], q)
                            ELSE IT(k + 1 - p[g], q - LS(p[g]))
  <2>1. s[p[g]].items \in Seq(Rows) /\ t[k + 1 - p[g]].items \in Seq(Rows)
    BY <1>s, <1>q, StateType
  <2>2. m[g].items = s[p[g]].items \o t[k + 1 - p[g]].items
    <3>1. m[g] = Join(s[p[g]], t[k + 1 - p[g]])
      BY <1>1
    <3> DEFINE x == s[p[g]].items \o t[k + 1 - p[g]].items
               y == s[p[g]].sum + t[k + 1 - p[g]].sum
    <3>2. m[g] = [sum |-> y, items |-> x]
      BY <3>1 DEF Join
    <3> HIDE DEF x, y
    <3>3. m[g].items = x
      BY <3>2
    <3> QED
      BY <3>3 DEF x
  <2>3. Len(m[g].items) = LS(p[g]) + LT(k + 1 - p[g])
    BY <2>1, <2>2, ConcatProperties
  <2>4. DOMAIN m[g].items = 1 .. Len(m[g].items)
    BY <1>1, StateType
  <2> DEFINE a == s[p[g]].items
             b == t[k + 1 - p[g]].items
             c == m[g].items
  <2>5. \A q \in 1 .. Len(a) + Len(b) :
            (a \o b)[q] = IF q <= Len(a) THEN a[q] ELSE b[q - Len(a)]
    <3> a \in Seq(Rows) /\ b \in Seq(Rows)
      BY <2>1
    <3> HIDE DEF a, b
    <3> QED
      BY ConcatProperties
  <2>6. /\ DOMAIN c = 1 .. Len(a) + Len(b)
        /\ \A q \in 1 .. Len(a) + Len(b) :
            c[q] = IF q <= Len(a) THEN a[q] ELSE b[q - Len(a)]
    <3> c = a \o b
      BY <2>2
    <3> DOMAIN c = 1 .. Len(c) /\ Len(c) = Len(a) + Len(b)
      BY <2>3, <2>4
    <3> HIDE DEF a, b, c
    <3> QED
      BY <2>5
  <2> QED
    BY <2>6
<1>4. /\ \A g, h \in K : \A q \in 1 .. LS(g), r \in 1 .. LS(h) :
           IS(g, q) = IS(h, r) => g = h /\ q = r
      /\ \A g, h \in K : \A q \in 1 .. LT(g), r \in 1 .. LT(h) :
           IT(g, q) = IT(h, r) => g = h /\ q = r
  BY <1>2 DEF EachRowOnce
<1>n. ASSUME NEW g \in K, NEW h \in K, NEW q \in 1 .. LS(g), NEW r \in 1 .. LT(h)
      PROVE  IS(g, q) # IT(h, r)
  BY <1>2 DEF EachRowOnce
<1>r. ASSUME NEW g \in K, NEW i
      PROVE  /\ i \in Range(s[g].items) => \E q \in 1 .. LS(g) : i = IS(g, q)
             /\ i \in Range(t[g].items) => \E q \in 1 .. LT(g) : i = IT(g, q)
             /\ \A q \in DM(g) : IM(g, q) \in Range(m[g].items)
  BY <1>2 DEF Range
<1>l. \A g \in K : LS(g) \in Nat /\ LT(g) \in Nat
  BY <1>2
<1>d. \A g \in K : DM(g) = 1 .. LS(p[g]) + LT(k + 1 - p[g])
  BY <1>3
<1>m. \A g \in K : \A q \in DM(g) :
          IM(g, q) = IF q <= LS(p[g]) THEN IS(p[g], q) ELSE IT(k + 1 - p[g], q - LS(p[g]))
  BY <1>3
<1> HIDE DEF LS, LT, IS, IT, IM, DM
<1>5. ASSUME NEW g \in K, NEW i, i \in Range(s[g].items) \/ i \in Range(t[g].items)
      PROVE  \E h \in K : i \in Range(m[h].items)
  <2>1. CASE i \in Range(s[g].items)
    <3>1. PICK q \in 1 .. LS(g) : i = IS(g, q)
      BY <2>1, <1>r
    <3>2. PICK h \in K : p[h] = g
      BY <1>1
    <3>3. q \in DM(h) /\ q <= LS(p[h])
      <4>1. LS(p[h]) \in Nat /\ LT(k + 1 - p[h]) \in Nat
        BY <1>l, <1>q
      <4>2. q \in 1 .. LS(p[h])
        BY <3>2
      <4>3. DM(h) = 1 .. LS(p[h]) + LT(k + 1 - p[h])
        BY <1>d
      <4> QED
        BY <4>1, <4>2, <4>3
    <3>4. IM(h, q) = i
      BY <3>1, <3>2, <3>3, <1>m
    <3> QED
      BY <3>3, <3>4, <1>r
  <2>2. CASE i \in Range(t[g].items)
    <3>1. PICK q \in 1 .. LT(g) : i = IT(g, q)
      BY <2>2, <1>r
    <3>2. k + 1 - g \in K
      BY <1>k
    <3>3. PICK h \in K : p[h] = k + 1 - g
      BY <3>2, <1>1
    <3>4. k + 1 - p[h] = g
      BY <3>3, <1>k
    <3>5. LS(p[h]) \in Nat /\ LT(g) \in Nat
      BY <1>l, <1>q
    <3>6. DM(h) = 1 .. LS(p[h]) + LT(g)
      BY <3>4, <1>d
    <3>7. q + LS(p[h]) \in DM(h) /\ ~(q + LS(p[h]) <= LS(p[h])) /\ (q + LS(p[h])) - LS(p[h]) = q
      BY <3>5, <3>6
    <3>8. IM(h, q + LS(p[h])) = IT(k + 1 - p[h], (q + LS(p[h])) - LS(p[h]))
      BY <3>7, <1>m
    <3>9. IM(h, q + LS(p[h])) = i
      BY <3>1, <3>4, <3>7, <3>8
    <3> QED
      BY <3>7, <3>9, <1>r
  <2> QED
    BY <2>1, <2>2, <1>5
<1>6. ASSUME NEW g \in K, NEW q \in DM(g)
      PROVE  /\ q \in Nat
             /\ \/ q \in 1 .. LS(p[g]) /\ IM(g, q) = IS(p[g], q)
                \/ /\ q > LS(p[g])
                   /\ q - LS(p[g]) \in 1 .. LT(k + 1 - p[g])
                   /\ IM(g, q) = IT(k + 1 - p[g], q - LS(p[g]))
  <2>1. LS(p[g]) \in Nat /\ LT(k + 1 - p[g]) \in Nat
    BY <1>l, <1>q
  <2>2. q \in 1 .. LS(p[g]) + LT(k + 1 - p[g])
    BY <1>d
  <2>3. CASE q <= LS(p[g])
    BY <2>1, <2>2, <2>3, <1>m
  <2>4. CASE ~(q <= LS(p[g]))
    BY <2>1, <2>2, <2>4, <1>m
  <2> QED
    BY <2>3, <2>4
<1>7. ASSUME NEW g \in K, NEW q \in DM(g)
      PROVE  \E u \in {s, t} : \E h \in K : \E r \in DOMAIN u[h].items :
                 m[g].items[q] = u[h].items[r]
  <2>1. CASE q \in 1 .. LS(p[g]) /\ IM(g, q) = IS(p[g], q)
    <3>1. q \in DOMAIN s[p[g]].items /\ m[g].items[q] = s[p[g]].items[q]
      BY <2>1, <1>2, <1>q DEF IM, IS
    <3> QED
      BY <3>1, <1>q
  <2>2. CASE /\ q - LS(p[g]) \in 1 .. LT(k + 1 - p[g])
             /\ IM(g, q) = IT(k + 1 - p[g], q - LS(p[g]))
    <3> DEFINE h == k + 1 - p[g]
               r == q - LS(p[g])
    <3>1. h \in K
      BY <1>q
    <3>2. r \in DOMAIN t[h].items
      BY <2>2, <3>1, <1>2
    <3>3. m[g].items[q] = t[h].items[r]
      BY <2>2 DEF IM, IT
    <3> HIDE DEF h, r
    <3> QED
      BY <3>1, <3>2, <3>3
  <2> QED
    BY <2>1, <2>2, <1>6
<1>8. ASSUME NEW g \in K, NEW h \in K, NEW q \in DM(g), NEW r \in DM(h), IM(g, q) = IM(h, r)
      PROVE  g = h /\ q = r
  <2>0. q \in Nat /\ r \in Nat /\ LS(p[g]) \in Nat /\ LS(p[h]) \in Nat
    BY <1>6, <1>l, <1>q
  <2>1. CASE /\ q \in 1 .. LS(p[g]) /\ IM(g, q) = IS(p[g], q)
             /\ r \in 1 .. LS(p[h]) /\ IM(h, r) = IS(p[h], r)
    <3>1. p[g] = p[h] /\ q = r
      BY <2>1, <1>4, <1>8, <1>q
    <3> QED
      BY <3>1, <1>1
  <2>2. CASE /\ q - LS(p[g]) \in 1 .. LT(k + 1 - p[g])
             /\ IM(g, q) = IT(k + 1 - p[g], q - LS(p[g]))
             /\ r - LS(p[h]) \in 1 .. LT(k + 1 - p[h])
             /\ IM(h, r) = IT(k + 1 - p[h], r - LS(p[h]))
    <3> DEFINE a == k + 1 - p[g]
               b == k + 1 - p[h]
               x == q - LS(p[g])
               y == r - LS(p[h])
    <3>1. a \in K /\ b \in K /\ x \in 1 .. LT(a) /\ y \in 1 .. LT(b) /\ IT(a, x) = IT(b, y)
      BY <2>2, <1>8, <1>q
    <3>2. a = b /\ x = y
      <4> HIDE DEF a, b, x, y
      <4> QED
        BY <3>1, <1>4
    <3>3. p[g] = p[h]
      BY <3>2, <1>q, <1>k
    <3>4. g = h
      BY <3>3, <1>1
    <3> QED
      BY <2>0, <3>2, <3>4
  <2>3. CASE /\ q \in 1 .. LS(p[g]) /\ IM(g, q) = IS(p[g], q)
             /\ r - LS(p[h]) \in 1 .. LT(k + 1 - p[h])
             /\ IM(h, r) = IT(k + 1 - p[h], r - LS(p[h]))
    <3> DEFINE b == k + 1 - p[h]
               y == r - LS(p[h])
    <3>1. b \in K /\ y \in 1 .. LT(b) /\ IS(p[g], q) = IT(b, y)
      BY <2>3, <1>8, <1>q
    <3> HIDE DEF b, y
    <3> QED
      BY <3>1, <2>3, <1>n, <1>q
  <2>4. CASE /\ r \in 1 .. LS(p[h]) /\ IM(h, r) = IS(p[h], r)
             /\ q - LS(p[g]) \in 1 .. LT(k + 1 - p[g])
             /\ IM(g, q) = IT(k + 1 - p[g], q - LS(p[g]))
    <3> DEFINE b == k + 1 - p[g]
               y == q - LS(p[g])
    <3>1. b \in K /\ y \in 1 .. LT(b) /\ IS(p[h], r) = IT(b, y)
      BY <2>4, <1>8, <1>q
    <3> HIDE DEF b, y
    <3> QED
      BY <3>1, <2>4, <1>n, <1>q
  <2>5. \/ q \in 1 .. LS(p[g]) /\ IM(g, q) = IS(p[g], q)
        \/ /\ q - LS(p[g]) \in 1 .. LT(k + 1 - p[g])
           /\ IM(g, q) = IT(k + 1 - p[g], q - LS(p[g]))
    BY <1>6
  <2>6. \/ r \in 1 .. LS(p[h]) /\ IM(h, r) = IS(p[h], r)
        \/ /\ r - LS(p[h]) \in 1 .. LT(k + 1 - p[h])
           /\ IM(h, r) = IT(k + 1 - p[h], r - LS(p[h]))
    BY <1>6
  <2> QED
    BY <2>1, <2>2, <2>3, <2>4, <2>5, <2>6
<1> QED
  BY <1>1, <1>5, <1>7, <1>8 DEF DM, IM

--------------------------------------------------------------------------------
(* Returning *)

\* The last State has all rows, in Sets that the assertions accept.
LEMMA LastAccepted ==
    ASSUME IInv, unsorted = {}, NEW s, heap = {s}
    PROVE  Accepted([g \in 1 .. k |-> Range(s[g].items)])
<1> DEFINE K == 1 .. k
           parts == [g \in K |-> Range(s[g].items)]
           L(g) == Len(s[g].items)
<1>t. TypeOK /\ EachRowOnce /\ s \in States /\ Sound(s) /\ k \in Nat \ {0} /\ k <= Len(lens)
  BY DEF IInv, TypeOK, EnoughRows
<1>n. Len(lens) \in Nat /\ IsFiniteSet(Rows) /\ Cardinality(Rows) = Len(lens)
  BY <1>t, LensType, FS_Interval DEF Rows
<1>1. ASSUME NEW g \in K
      PROVE  /\ L(g) \in Nat
             /\ s[g].items \in [1 .. L(g) -> Rows]
             /\ \A i : i \in parts[g] <=> \E q \in 1 .. L(g) : s[g].items[q] = i
  <2>1. s[g].items \in Seq(Rows) /\ L(g) \in Nat
    BY <1>t, StateType
  <2>2. s[g].items \in [1 .. L(g) -> Rows]
    BY <2>1, LenProperties
  <2> QED
    BY <2>1, <2>2 DEF Range
<1>2. \A g, h \in K : \A p \in 1 .. L(g), q \in 1 .. L(h) :
          s[g].items[p] = s[h].items[q] => g = h /\ p = q
  BY <1>t, <1>1 DEF EachRowOnce
<1>3. \A i \in Rows : \E g \in K : i \in parts[g]
  BY <1>t DEF EachRowOnce
<1>4. \A i \in Rows : \E g \in K : \E q \in 1 .. L(g) : s[g].items[q] = i
  BY <1>1, <1>3
<1>5. UNION {parts[g] : g \in K} = Rows
  <2>1. ASSUME NEW g \in K, NEW i \in parts[g] PROVE i \in Rows
    <3>1. PICK q \in 1 .. L(g) : s[g].items[q] = i
      BY <1>1
    <3> QED
      BY <3>1, <1>1
  <2> HIDE DEF parts
  <2> QED
    BY <2>1, <1>3
<1>6. ASSUME NEW e \in K, parts[e] = {} PROVE FALSE
  <2>1. L(e) = 0
    <3>1. ~ (1 \in 1 .. L(e))
      BY <1>1, <1>6
    <3> QED
      BY <3>1, <1>1
  <2>2. \A g \in K : L(g) <= 1
    BY <2>1, <1>1, <1>t DEF Sound, FullOrSingles
  <2> DEFINE own(i) == CHOOSE g \in K : i \in parts[g]
             f == [i \in Rows |-> own(i)]
  <2>3. \A i \in Rows : own(i) \in K /\ i \in parts[own(i)]
    BY <1>3
  <2> HIDE DEF own
  <2>4. \A i \in Rows : own(i) \in K \ {e}
    BY <2>3, <1>6
  <2>5. f \in [Rows -> K \ {e}]
    BY <2>4
  <2>6. IsFiniteSet(K \ {e}) /\ Cardinality(K \ {e}) < Cardinality(Rows)
    <3>1. IsFiniteSet(K) /\ Cardinality(K) = k
      BY <1>t, FS_Interval
    <3>2. IsFiniteSet(K \ {e}) /\ Cardinality(K \ {e}) = k - 1
      BY <3>1, FS_RemoveElement
    <3> QED
      BY <3>2, <1>n, <1>t
  <2>7. PICK i \in Rows, j \in Rows : i # j /\ f[i] = f[j]
    <3> HIDE DEF f
    <3> QED
      BY <2>5, <2>6, <1>n, FS_PigeonHole
  <2>8. own(i) = own(j) /\ own(i) \in K /\ i \in parts[own(i)] /\ j \in parts[own(i)]
    BY <2>3, <2>7
  <2>9. PICK g \in K : i \in parts[g] /\ j \in parts[g]
    BY <2>8
  <2>10. s[g].items[1] = i /\ s[g].items[1] = j
    <3>1. PICK p \in 1 .. L(g) : s[g].items[p] = i
      BY <2>9, <1>1
    <3>2. PICK q \in 1 .. L(g) : s[g].items[q] = j
      BY <2>9, <1>1
    <3>3. p = 1 /\ q = 1
      BY <2>2, <1>1
    <3> QED
      BY <3>1, <3>2, <3>3
  <2> QED
    BY <2>7, <2>10
<1>7. ASSUME equal, NEW g \in K PROVE Cardinality(parts[g]) * k = Len(lens)
  <2> DEFINE c == L(g)
             cell(x) == s[x[1]].items[x[2]]
             F == [x \in K \X (1 .. c) |-> cell(x)]
  <2>1. c \in Nat /\ \A h \in K : L(h) = c
    BY <1>1, <1>7, <1>t DEF Sound, SameSizes
  <2>2. Cardinality(parts[g]) = c
    <3>1. s[g].items \in [1 .. c -> parts[g]]
      BY <1>1
    <3>2. \A p, q \in 1 .. c : s[g].items[p] = s[g].items[q] => p = q
      BY <1>2
    <3>3. \A i \in parts[g] : \E q \in 1 .. c : s[g].items[q] = i
      BY <1>1
    <3>4. s[g].items \in Bijection(1 .. c, parts[g])
      <4> DEFINE it == s[g].items
                 pg == parts[g]
      <4> it \in [1 .. c -> pg] /\ (\A p, q \in 1 .. c : it[p] = it[q] => p = q)
            /\ (\A i \in pg : \E q \in 1 .. c : it[q] = i)
        BY <3>1, <3>2, <3>3
      <4> HIDE DEF it, pg, c
      <4>1. it \in Bijection(1 .. c, pg)
        BY Fun_IsBij
      <4> QED
        BY <4>1 DEF it, pg
    <3>5. ExistsBijection(1 .. c, parts[g])
      BY <3>4 DEF ExistsBijection
    <3> HIDE DEF parts, c
    <3> QED
      BY <2>1, <3>5, FS_CountingElements
  <2>3. \A x \in K \X (1 .. c) : cell(x) \in Rows
    BY <2>1, <1>1
  <2>4. F \in [K \X (1 .. c) -> Rows]
    <3> HIDE DEF cell
    <3> QED
      BY <2>3
  <2>5. \A x, y \in K \X (1 .. c) : F[x] = F[y] => x = y
    <3> SUFFICES ASSUME NEW x \in K \X (1 .. c), NEW y \in K \X (1 .. c), cell(x) = cell(y)
                 PROVE  x = y
      OBVIOUS
    <3>1. /\ x[1] \in K /\ x[2] \in 1 .. L(x[1]) /\ y[1] \in K /\ y[2] \in 1 .. L(y[1])
          /\ x = <<x[1], x[2]>> /\ y = <<y[1], y[2]>>
      BY <2>1
    <3>2. x[1] = y[1] /\ x[2] = y[2]
      BY <3>1, <1>2
    <3> QED
      BY <3>1, <3>2
  <2>6. \A i \in Rows : \E x \in K \X (1 .. c) : F[x] = i
    <3> SUFFICES ASSUME NEW i \in Rows PROVE \E x \in K \X (1 .. c) : F[x] = i
      OBVIOUS
    <3>1. PICK h \in K : \E q \in 1 .. L(h) : s[h].items[q] = i
      BY <1>4
    <3>2. PICK q \in 1 .. c : s[h].items[q] = i
      BY <3>1, <2>1
    <3>3. <<h, q>> \in K \X (1 .. c) /\ F[<<h, q>>] = i
      BY <3>2
    <3> QED
      BY <3>3
  <2>7. IsFiniteSet(K \X (1 .. c)) /\ Cardinality(K \X (1 .. c)) = k * c
    <3>1. IsFiniteSet(K) /\ Cardinality(K) = k
      BY <1>t, FS_Interval
    <3>2. IsFiniteSet(1 .. c) /\ Cardinality(1 .. c) = c
      <4> c \in Nat
        BY <2>1
      <4> HIDE DEF c
      <4> QED
        BY FS_Interval
    <3> HIDE DEF K, c
    <3> QED
      BY <3>1, <3>2, FS_Product
  <2>8. Cardinality(Rows) = Cardinality(K \X (1 .. c))
    <3> DEFINE D == K \X (1 .. c)
    <3> HIDE DEF D, F
    <3>1. F \in [D -> Rows] /\ (\A x, y \in D : F[x] = F[y] => x = y)
            /\ (\A i \in Rows : \E x \in D : F[x] = i) /\ IsFiniteSet(D)
      BY <2>4, <2>5, <2>6, <2>7 DEF D
    <3>2. F \in Bijection(D, Rows)
      BY <3>1, Fun_IsBij
    <3>3. ExistsBijection(D, Rows)
      BY <3>2 DEF ExistsBijection
    <3>4. Cardinality(Rows) = Cardinality(D)
      BY <3>1, <3>3, FS_Bijection
    <3> QED
      BY <3>4 DEF D
  <2>9. Len(lens) = k * c
    BY <2>7, <2>8, <1>n
  <2> HIDE DEF c, parts
  <2> QED
    BY <2>1, <2>2, <2>9, <1>t
<1> QED
  BY <1>5, <1>6, <1>7 DEF Accepted

--------------------------------------------------------------------------------
(* The invariant *)

\* Nothing but the heap matters to what is said of a State.
LEMMA InputStays ==
    ASSUME UNCHANGED input
    PROVE  /\ Rows' = Rows /\ States' = States
           /\ \A s : Sound(s)' <=> Sound(s)
<1> lens' = lens /\ equal' = equal /\ limit' = limit /\ k' = k
  BY DEF input
<1>1. Rows' = Rows
  BY DEF Rows
<1>2. States' = States
  BY <1>1 DEF States, Sets
<1>3. ASSUME NEW s PROVE Sound(s)' <=> Sound(s)
  <2>1. Decreasing(s)' <=> Decreasing(s)
    BY DEF Decreasing
  <2>2. EmptyIsLight(s)' <=> EmptyIsLight(s)
    BY DEF EmptyIsLight
  <2>3. SameSizes(s)' <=> SameSizes(s)
    BY DEF SameSizes
  <2>4. FullOrSingles(s)' <=> FullOrSingles(s)
    BY DEF FullOrSingles
  <2>5. Narrow(s)' <=> Narrow(s)
    BY <1>1 DEF Narrow, Spread
  <2> QED
    BY <2>1, <2>2, <2>3, <2>4, <2>5 DEF Sound
<1> QED
  BY <1>1, <1>2, <1>3

\* The typing of a step that leaves the input alone.
LEMMA TypeStays ==
    ASSUME TypeOK, UNCHANGED input, unsorted' \subseteq Rows, heap' \subseteq States,
           outcome' \in {"running", "returned", "raised"},
           partitions' # <<>> => partitions' \in [1 .. k -> SUBSET Rows]
    PROVE  TypeOK'
<1>1. lens' = lens /\ equal' = equal /\ limit' = limit /\ k' = k
  BY DEF input
<1>2. Rows' = Rows /\ States' = States
  BY InputStays
<1> QED
  BY <1>1, <1>2 DEF TypeOK

\* A State of one row in a Set holds it there.
LEMMA SingleType ==
    ASSUME TypeOK, NEW i \in Rows
    PROVE  /\ Single(i) \in Sets
           /\ Single(i).sum = lens[i]
           /\ Len(Single(i).items) = 1
           /\ DOMAIN Single(i).items = {1}
           /\ Single(i).items[1] = i
<1>1. <<i>> \in Seq(Rows) /\ Len(<<i>>) = 1 /\ DOMAIN <<i>> = {1} /\ <<i>>[1] = i
  OBVIOUS
<1>2. lens[i] \in Nat
  BY LensType
<1> QED
  BY <1>1, <1>2 DEF Single, Sets

\* The invariant holds of the sorted list before anything is pushed.
LEMMA InitInv == Init => IInv
<1> SUFFICES ASSUME Init PROVE IInv
  OBVIOUS
<1>1. PICK n \in 1 .. MaxRows : lens \in [1 .. n -> Lengths]
  BY DEF Init
<1>2. n \in Nat \ {0}
  BY RowsAssumption
<1>3. lens \in Seq(Lengths)
  BY <1>1, <1>2, SeqDef
<1>4. Len(lens) = n
  BY <1>1, <1>2, <1>3, LenProperties
<1>5. k \in Nat \ {0} /\ k <= Len(lens)
  <2>1. CASE k \in {w \in Worlds : Len(lens) % w = 0}
    <3>1. k \in Nat \ {0} /\ n % k = 0
      BY <2>1, <1>4, WorldAssumption
    <3>2. k > n => n % k = n
      BY <3>1, <1>2
    <3> QED
      BY <3>1, <3>2, <1>2, <1>4
  <2>2. CASE k \in Rows
    BY <2>2, <1>2, <1>4 DEF Rows
  <2> QED
    BY <2>1, <2>2 DEF Init
<1>6. TypeOK
  BY <1>3, <1>5 DEF Init, TypeOK
<1> QED
  BY <1>5, <1>6 DEF Init, IInv, EnoughRows, EachRowOnce, AssertionsHold

\* Pushing a State made of rows from the sorted list keeps the invariant.
LEMMA Pushed ==
    ASSUME IInv, UNCHANGED <<input, outcome, partitions>>,
           NEW n \in States, Sound(n), heap' = heap \union {n},
           NEW B \in SUBSET unsorted, unsorted' = unsorted \ B,
           \A i \in B : \E g \in 1 .. k : i \in Range(n[g].items),
           \A g \in 1 .. k : \A q \in DOMAIN n[g].items : n[g].items[q] \in B,
           \A g, h \in 1 .. k : \A q \in DOMAIN n[g].items, r \in DOMAIN n[h].items :
               n[g].items[q] = n[h].items[r] => g = h /\ q = r
    PROVE  IInv'
<1>1. UNCHANGED input /\ k' = k /\ lens' = lens /\ outcome' = outcome /\ partitions' = partitions
  BY DEF input
<1>2. Rows' = Rows /\ \A s : Sound(s)' <=> Sound(s)
  BY <1>1, InputStays
<1>3. TypeOK'
  BY <1>1, TypeStays DEF IInv, TypeOK
<1>4. EnoughRows' /\ AssertionsHold'
  BY <1>1 DEF IInv, EnoughRows, AssertionsHold
<1>5. (\A s \in heap : Sound(s))'
  BY <1>2 DEF IInv
<1>6. \A i \in Rows \ unsorted' : \E s \in heap' : \E g \in 1 .. k : i \in Range(s[g].items)
  <2> SUFFICES ASSUME NEW i \in Rows \ unsorted'
               PROVE  \E s \in heap' : \E g \in 1 .. k : i \in Range(s[g].items)
    OBVIOUS
  <2>1. CASE i \in B
    BY <2>1
  <2>2. CASE i \notin B
    <3>1. i \in Rows \ unsorted
      BY <2>2
    <3>2. \E s \in heap : \E g \in 1 .. k : i \in Range(s[g].items)
      BY <3>1 DEF IInv, EachRowOnce
    <3> QED
      BY <3>2
  <2> QED
    BY <2>1, <2>2
<1>7. ASSUME NEW s \in heap', NEW t \in heap', NEW g \in 1 .. k, NEW h \in 1 .. k,
             NEW p \in DOMAIN s[g].items, NEW q \in DOMAIN t[h].items
      PROVE  /\ s[g].items[p] \notin unsorted'
             /\ s[g].items[p] = t[h].items[q] => s = t /\ g = h /\ p = q
  <2>1. \A u \in heap : \A f \in 1 .. k : \A r \in DOMAIN u[f].items : u[f].items[r] \notin unsorted
    BY DEF IInv, EachRowOnce
  <2>2. s[g].items[p] \notin unsorted'
    BY <2>1
  <2>3. CASE s \in heap /\ t \in heap
    BY <2>2, <2>3 DEF IInv, EachRowOnce
  <2>4. CASE s = n /\ t = n
    BY <2>2, <2>4
  <2>5. CASE s = n /\ t \in heap
    BY <2>1, <2>2, <2>5
  <2>6. CASE s \in heap /\ t = n
    BY <2>1, <2>2, <2>6
  <2> QED
    BY <2>3, <2>4, <2>5, <2>6
<1>8. EachRowOnce'
  BY <1>1, <1>2, <1>6, <1>7 DEF EachRowOnce
<1> QED
  BY <1>3, <1>4, <1>5, <1>8 DEF IInv

LEMMA PushBlockInv == IInv /\ PushBlock => IInv'
<1> SUFFICES ASSUME IInv, PushBlock PROVE IInv'
  OBVIOUS
<1>t. TypeOK /\ k \in Nat \ {0} /\ equal
  BY DEF IInv, TypeOK, PushBlock
<1>1. PICK b \in Injection(1 .. k, unsorted) :
          /\ unsorted' = unsorted \ Range(b)
          /\ Decreasing([g \in 1 .. k |-> Single(b[g])])
          /\ heap' = heap \union {[g \in 1 .. k |-> Single(b[g])]}
  BY DEF PushBlock
<1> DEFINE n == [g \in 1 .. k |-> Single(b[g])]
<1>2. /\ b \in [1 .. k -> unsorted]
      /\ \A g, h \in 1 .. k : b[g] = b[h] => g = h
      /\ \A g \in 1 .. k : b[g] \in Rows
  BY Fun_InjectionProperties, <1>t DEF TypeOK
<1>3. ASSUME NEW g \in 1 .. k
      PROVE  /\ n[g] \in Sets /\ n[g].sum = lens[b[g]]
             /\ Len(n[g].items) = 1 /\ DOMAIN n[g].items = {1} /\ n[g].items[1] = b[g]
  BY <1>2, <1>t, SingleType
<1>4. n \in States
  BY <1>3 DEF States
<1>5. Sound(n)
  <2>1. Narrow(n)
    <3>1. 1 \in 1 .. k /\ k \in 1 .. k
      BY <1>t
    <3>2. Spread(n) = lens[b[1]] - lens[b[k]]
      BY <3>1, <1>3 DEF Spread
    <3>3. lens[b[1]] \in Nat /\ lens[b[k]] \in Nat
      BY <3>1, <1>2, <1>t, LensType
    <3> HIDE DEF n
    <3> QED
      BY <3>1, <3>2, <3>3, <1>2, <1>t DEF Narrow
  <2>2. EmptyIsLight(n) /\ SameSizes(n) /\ FullOrSingles(n)
    <3>1. \A g \in 1 .. k : Len(n[g].items) = 1
      BY <1>3
    <3> HIDE DEF n
    <3>2. EmptyIsLight(n)
      BY <3>1 DEF EmptyIsLight
    <3>3. SameSizes(n)
      BY <3>1 DEF SameSizes
    <3>4. ASSUME NEW g \in 1 .. k PROVE Len(n[g].items) <= 1
      <4> DEFINE x == Len(n[g].items)
      <4> x = 1
        BY <3>1
      <4> HIDE DEF x
      <4>1. x <= 1
        OBVIOUS
      <4> QED
        BY <4>1 DEF x
    <3> QED
      BY <3>2, <3>3, <3>4 DEF FullOrSingles
  <2> QED
    BY <2>1, <2>2, <1>1 DEF Sound
<1>6. Range(b) \in SUBSET unsorted
  BY <1>2 DEF Range
<1>7. /\ \A i \in Range(b) : \E g \in 1 .. k : i \in Range(n[g].items)
      /\ \A g \in 1 .. k : \A q \in DOMAIN n[g].items : n[g].items[q] \in Range(b)
      /\ \A g, h \in 1 .. k : \A q \in DOMAIN n[g].items, r \in DOMAIN n[h].items :
          n[g].items[q] = n[h].items[r] => g = h /\ q = r
  <2> HIDE DEF n
  <2>1. \A g \in 1 .. k : b[g] \in Range(b) /\ b[g] \in Range(n[g].items)
    BY <1>2, <1>3 DEF Range
  <2>2. ASSUME NEW i \in Range(b) PROVE \E g \in 1 .. k : i \in Range(n[g].items)
    <3>1. PICK g \in 1 .. k : i = b[g]
      BY <1>2 DEF Range
    <3> QED
      BY <3>1, <2>1
  <2> QED
    BY <1>2, <1>3, <2>1, <2>2
<1>8. UNCHANGED <<input, outcome, partitions>>
  BY DEF PushBlock
<1> HIDE DEF n
<1>9. heap' = heap \union {n}
  BY <1>1 DEF n
<1> QED
  BY <1>1, <1>4, <1>5, <1>6, <1>7, <1>8, <1>9, Pushed

LEMMA PushRowInv == IInv /\ PushRow => IInv'
<1> SUFFICES ASSUME IInv, PushRow PROVE IInv'
  OBVIOUS
<1>t. TypeOK /\ k \in Nat \ {0} /\ ~equal
  BY DEF IInv, TypeOK, PushRow
<1>1. PICK i \in unsorted :
          /\ unsorted' = unsorted \ {i}
          /\ heap' = heap \union {[g \in 1 .. k |-> IF g = 1 THEN Single(i) ELSE EmptySet]}
  BY DEF PushRow
<1> DEFINE n == [g \in 1 .. k |-> IF g = 1 THEN Single(i) ELSE EmptySet]
<1>2. i \in Rows /\ lens[i] \in Nat
  BY <1>t, LensType DEF TypeOK
<1>3. /\ EmptySet \in Sets /\ EmptySet.sum = 0 /\ EmptySet.items = <<>>
      /\ Len(EmptySet.items) = 0 /\ DOMAIN EmptySet.items = {}
  BY DEF EmptySet, Sets
<1>4. /\ 1 \in 1 .. k /\ n[1] \in Sets /\ n[1].sum = lens[i]
      /\ Len(n[1].items) = 1 /\ DOMAIN n[1].items = {1} /\ n[1].items[1] = i
  BY <1>2, <1>t, SingleType
<1>5. \A g \in 1 .. k : g # 1 => n[g] = EmptySet
  OBVIOUS
<1>6. n \in States
  BY <1>3, <1>4, <1>5 DEF States
<1> HIDE DEF n
<1>7. \A g \in 1 .. k : g # 1 =>
          /\ n[g].sum = 0 /\ n[g].items = <<>> /\ Len(n[g].items) = 0 /\ DOMAIN n[g].items = {}
  BY <1>3, <1>5
<1>8. Sound(n)
  <2>1. Decreasing(n)
    <3> SUFFICES ASSUME NEW g \in 1 .. k, NEW h \in 1 .. k, g < h PROVE ~Lighter(n[g], n[h])
      BY DEF Decreasing
    <3>1. h # 1
      OBVIOUS
    <3>2. n[h].sum = 0 /\ Len(n[h].items) = 0
      BY <3>1, <1>7
    <3>3. n[g].sum \in Nat /\ Len(n[g].items) \in Nat /\ (Len(n[g].items) = 0 => n[g].items = <<>>)
      BY <1>2, <1>4, <1>7
    <3> QED
      BY <3>2, <3>3 DEF Lighter
  <2>2. EmptyIsLight(n) /\ SameSizes(n)
    BY <1>4, <1>7, <1>t DEF EmptyIsLight, SameSizes
  <2>3. FullOrSingles(n)
    <3>1. ASSUME NEW g \in 1 .. k PROVE Len(n[g].items) <= 1
      <4>1. CASE g = 1
        BY <4>1, <1>4
      <4>2. CASE g # 1
        BY <4>2, <1>7
      <4> QED
        BY <4>1, <4>2
    <3> QED
      BY <3>1 DEF FullOrSingles
  <2>4. Narrow(n)
    <3>1. k \in 1 .. k /\ (n[k].sum = lens[i] \/ n[k].sum = 0)
      BY <1>4, <1>7, <1>t
    <3>2. Spread(n) <= lens[i]
      BY <3>1, <1>2, <1>4 DEF Spread
    <3> QED
      BY <3>2, <1>2, <1>t DEF Narrow
  <2> QED
    BY <2>1, <2>2, <2>3, <2>4 DEF Sound
<1> DEFINE B == {i}
<1>9. /\ \A j \in B : \E g \in 1 .. k : j \in Range(n[g].items)
      /\ \A g \in 1 .. k : \A q \in DOMAIN n[g].items : n[g].items[q] \in B
      /\ \A g, h \in 1 .. k : \A q \in DOMAIN n[g].items, r \in DOMAIN n[h].items :
          n[g].items[q] = n[h].items[r] => g = h /\ q = r
  <2>1. i \in Range(n[1].items)
    BY <1>4 DEF Range
  <2> QED
    BY <2>1, <1>4, <1>7
<1>10. /\ UNCHANGED <<input, outcome, partitions>> /\ heap' = heap \union {n}
       /\ B \in SUBSET unsorted /\ unsorted' = unsorted \ B
  BY <1>1 DEF PushRow, n
<1> HIDE DEF B
<1> QED
  BY <1>6, <1>8, <1>9, <1>10, Pushed

LEMMA MergeTwoInv == IInv /\ MergeTwo => IInv'
<1> SUFFICES ASSUME IInv, MergeTwo PROVE IInv'
  OBVIOUS
<1>t. TypeOK /\ EachRowOnce /\ unsorted = {}
  BY DEF IInv, MergeTwo
<1>1. PICK s \in heap, t \in heap :
          s # t /\ heap' = (heap \ {s, t}) \union {Arranged(Merged(s, t))}
  BY DEF MergeTwo
<1> DEFINE m == Arranged(Merged(s, t))
<1>2. Sound(m)
  <2>1. s \in States /\ t \in States /\ Sound(s) /\ Sound(t)
    BY DEF IInv, TypeOK
  <2> QED
    BY <2>1, <1>t, MergedSound
<1>3. heap' = (heap \ {s, t}) \union {m}
  BY <1>1
<1>4. /\ m \in States
      /\ \A g \in 1 .. k, i \in Rows :
          i \in Range(s[g].items) \/ i \in Range(t[g].items) =>
              \E h \in 1 .. k : i \in Range(m[h].items)
      /\ \A g \in 1 .. k : \A q \in DOMAIN m[g].items :
          \E u \in {s, t} : \E h \in 1 .. k : \E r \in DOMAIN u[h].items :
              m[g].items[q] = u[h].items[r]
      /\ \A g, h \in 1 .. k : \A q \in DOMAIN m[g].items, r \in DOMAIN m[h].items :
          m[g].items[q] = m[h].items[r] => g = h /\ q = r
  <2>1. m = Arranged(Merged(s, t))
    OBVIOUS
  <2> HIDE DEF m
  <2> QED
    BY <2>1, <1>t, <1>1, MergedRows
<1> HIDE DEF m
<1>5. /\ UNCHANGED input /\ unsorted' = unsorted /\ k' = k /\ lens' = lens
      /\ outcome' = outcome /\ partitions' = partitions
  BY DEF MergeTwo, input
<1>6. Rows' = Rows /\ \A u : Sound(u)' <=> Sound(u)
  BY <1>5, InputStays
<1>7. TypeOK'
  BY <1>3, <1>4, <1>5, <1>t, TypeStays DEF TypeOK
<1>8. EnoughRows' /\ AssertionsHold'
  BY <1>5 DEF IInv, EnoughRows, AssertionsHold
<1>9. (\A u \in heap : Sound(u))'
  BY <1>2, <1>3, <1>6 DEF IInv
<1>10. ASSUME NEW i \in Rows
       PROVE  \E u \in heap' : \E g \in 1 .. k : i \in Range(u[g].items)
  <2>1. PICK u \in heap : \E g \in 1 .. k : i \in Range(u[g].items)
    BY <1>t DEF EachRowOnce
  <2>2. CASE u \in {s, t}
    <3>1. \E g \in 1 .. k : i \in Range(s[g].items) \/ i \in Range(t[g].items)
      BY <2>1, <2>2
    <3>2. \E h \in 1 .. k : i \in Range(m[h].items)
      BY <3>1, <1>4
    <3> QED
      BY <3>2, <1>3
  <2>3. CASE u \notin {s, t}
    BY <2>1, <2>3, <1>3
  <2> QED
    BY <2>2, <2>3
<1>11. ASSUME NEW u \in heap \ {s, t}, NEW g \in 1 .. k, NEW h \in 1 .. k,
              NEW p \in DOMAIN u[g].items, NEW q \in DOMAIN m[h].items
       PROVE  u[g].items[p] # m[h].items[q]
  <2>1. PICK v \in {s, t}, f \in 1 .. k :
            \E r \in DOMAIN v[f].items : m[h].items[q] = v[f].items[r]
    BY <1>4
  <2>2. PICK r \in DOMAIN v[f].items : m[h].items[q] = v[f].items[r]
    BY <2>1
  <2>3. u[g].items[p] = v[f].items[r] => u = v
    BY <1>t DEF EachRowOnce
  <2> QED
    BY <2>2, <2>3
<1>12. ASSUME NEW u \in heap', NEW v \in heap', NEW g \in 1 .. k, NEW h \in 1 .. k,
              NEW p \in DOMAIN u[g].items, NEW q \in DOMAIN v[h].items
       PROVE  u[g].items[p] = v[h].items[q] => u = v /\ g = h /\ p = q
  <2>1. CASE u = m /\ v = m
    BY <2>1, <1>4
  <2>2. CASE u = m /\ v \in heap \ {s, t}
    BY <2>2, <1>11
  <2>3. CASE u \in heap \ {s, t} /\ v = m
    BY <2>3, <1>11
  <2>4. CASE u \in heap /\ v \in heap
    BY <2>4, <1>t DEF EachRowOnce
  <2> QED
    BY <2>1, <2>2, <2>3, <2>4, <1>3
<1>13. EachRowOnce'
  BY <1>t, <1>5, <1>6, <1>10, <1>12 DEF EachRowOnce
<1> QED
  BY <1>7, <1>8, <1>9, <1>13 DEF IInv

LEMMA ReturnInv == IInv /\ Return => IInv'
<1> SUFFICES ASSUME IInv, Return PROVE IInv'
  OBVIOUS
<1>1. PICK s \in heap : heap = {s} /\ partitions' = [g \in 1 .. k |-> Range(s[g].items)]
  BY DEF Return
<1>2. outcome' = "returned"
  <2>1. Accepted(partitions')
    BY <1>1, LastAccepted DEF Return
  <2> QED
    BY <2>1 DEF Return
<1>3. /\ UNCHANGED input /\ unsorted' = unsorted /\ heap' = heap /\ k' = k /\ lens' = lens
  BY DEF Return, input
<1>4. Rows' = Rows /\ \A u : Sound(u)' <=> Sound(u)
  BY <1>3, InputStays
<1>5. partitions' \in [1 .. k -> SUBSET Rows]
  <2>1. ASSUME NEW g \in 1 .. k PROVE Range(s[g].items) \in SUBSET Rows
    <3>1. s \in States /\ TypeOK
      BY DEF IInv, TypeOK
    <3> QED
      BY <3>1, StateType DEF Range
  <2> QED
    BY <2>1, <1>1
<1>6. TypeOK'
  BY <1>2, <1>3, <1>5, TypeStays DEF IInv, TypeOK
<1>7. EachRowOnce'
  BY <1>3, <1>4 DEF IInv, EachRowOnce
<1>8. (\A u \in heap : Sound(u))' /\ EnoughRows' /\ AssertionsHold'
  BY <1>2, <1>3, <1>4 DEF IInv, EnoughRows, AssertionsHold
<1> QED
  BY <1>6, <1>7, <1>8 DEF IInv

LEMMA StutterInv == IInv /\ UNCHANGED vars => IInv'
<1> SUFFICES ASSUME IInv, UNCHANGED vars PROVE IInv'
  OBVIOUS
<1>1. /\ UNCHANGED input /\ unsorted' = unsorted /\ heap' = heap /\ k' = k /\ lens' = lens
      /\ outcome' = outcome /\ partitions' = partitions
  BY DEF vars, input
<1>2. Rows' = Rows /\ \A u : Sound(u)' <=> Sound(u)
  BY <1>1, InputStays
<1>3. TypeOK'
  BY <1>1, TypeStays DEF IInv, TypeOK
<1> QED
  BY <1>1, <1>2, <1>3 DEF IInv, EachRowOnce, EnoughRows, AssertionsHold

THEOREM Inductive == Spec => []IInv
<1>1. IInv /\ [Next]_vars => IInv'
  BY PushBlockInv, PushRowInv, MergeTwoInv, ReturnInv, StutterInv DEF Next
<1> QED
  BY InitInv, <1>1, PTL DEF Spec

--------------------------------------------------------------------------------
(* The theorems *)

\* Type correctness of the heap and of what is returned.
THEOREM TypeCorrect == Spec => []TypeOK
<1>1. IInv => TypeOK
  BY DEF IInv
<1> QED
  BY <1>1, Inductive, PTL

\* Pushing, merging and sorting neither lose nor double a row, in batches of any size.
THEOREM NoRowLost == Spec => []EachRowOnce
<1>1. IInv => EachRowOnce
  BY DEF IInv
<1> QED
  BY <1>1, Inductive, PTL

\* The partitions spread no wider than one row is long, or two rows differ.
THEOREM Balance == Spec => []Balanced
<1>1. IInv => Balanced
  BY DEF IInv, Sound, Narrow, Balanced
<1> QED
  BY <1>1, Inductive, PTL

\* No assertion of karmarkar_karp and get_seqlen_balanced_partitions on what the
\* differencing returns ever fails.
THEOREM NeverRaises == Spec => []AssertionsHold
<1>1. IInv => AssertionsHold
  BY DEF IInv
<1> QED
  BY <1>1, Inductive, PTL

--------------------------------------------------------------------------------
(* How many tokens a set of rows has.  What Tokens adds up is proved by    *)
(* the least number of rows for which it would be false (Least).           *)

LEMMA Least ==
    ASSUME NEW T, T \subseteq Nat, T # {}
    PROVE  \E n \in T : \A m \in T : n <= m
<1>1. PICK n \in T : \A m \in T : <<m, n>> \notin OpToRel(<, Nat)
  BY NatLessThanWellFounded, WFMin
<1>2. ASSUME NEW m \in T PROVE n <= m
  <2>1. m \in Nat /\ n \in Nat
    OBVIOUS
  <2>2. ~(m < n)
    BY <1>1, <2>1 DEF OpToRel
  <2> QED
    BY <2>1, <2>2
<1> QED
  BY <1>2

\* The sums of the first entries of f.
Adds(F, f, n) == F = [m \in 0 .. n |-> IF m = 0 THEN 0 ELSE F[m - 1] + f[m]]

LEMMA SumExists ==
    ASSUME NEW f, NEW n \in Nat
    PROVE  \E F : Adds(F, f, n)
<1> DEFINE Wrong == {m \in Nat : ~\E F : Adds(F, f, m)}
<1> SUFFICES ASSUME Wrong # {} PROVE FALSE
  OBVIOUS
<1>1. PICK m \in Wrong : \A l \in Wrong : m <= l
  <2>1. Wrong \subseteq Nat
    OBVIOUS
  <2> HIDE DEF Wrong
  <2> QED
    BY <2>1, Least
<1>2. m \in Nat /\ ~\E F : Adds(F, f, m)
  OBVIOUS
<1>3. CASE m = 0
  <2> DEFINE F == [l \in 0 .. 0 |-> 0]
  <2>1. F = [l \in 0 .. m |-> IF l = 0 THEN 0 ELSE F[l - 1] + f[l]]
    BY <1>3
  <2> QED
    BY <1>2, <2>1 DEF Adds
<1>4. CASE m # 0
  <2>1. m - 1 \in Nat /\ m - 1 \notin Wrong
    <3>1. m - 1 \in Nat /\ ~(m <= m - 1)
      BY <1>2, <1>4
    <3> HIDE DEF Wrong
    <3> QED
      BY <1>1, <3>1
  <2>2. PICK F : Adds(F, f, m - 1)
    BY <2>1
  <2> DEFINE G == [l \in 0 .. m |-> IF l = m THEN F[m - 1] + f[m] ELSE F[l]]
  <2>3. ASSUME NEW l \in 0 .. m PROVE G[l] = IF l = 0 THEN 0 ELSE G[l - 1] + f[l]
    <3>1. CASE l = m
      <4>1. G[l] = F[m - 1] + f[m] /\ G[l - 1] = F[m - 1] /\ l # 0
        BY <1>2, <1>4, <3>1
      <4> QED
        BY <3>1, <4>1
    <3>2. CASE l # m /\ l # 0
      <4>1. G[l] = F[l] /\ G[l - 1] = F[l - 1] /\ l \in 0 .. m - 1
        BY <1>2, <3>2
      <4>2. F[l] = F[l - 1] + f[l]
        BY <2>2, <3>2, <4>1 DEF Adds
      <4> QED
        BY <3>2, <4>1, <4>2
    <3>3. CASE l # m /\ l = 0
      <4>1. G[l] = F[l] /\ l \in 0 .. m - 1
        BY <1>2, <3>3
      <4> QED
        BY <2>2, <3>3, <4>1 DEF Adds
    <3> QED
      BY <3>1, <3>2, <3>3
  <2>4. Adds(G, f, m)
    BY <2>3 DEF Adds
  <2> QED
    BY <1>2, <2>4
<1> QED
  BY <1>3, <1>4

\* The tokens of the rows up to each row.
TokensUpTo(ls, rows) ==
    CHOOSE sum : sum = [n \in 0 .. Len(ls) |->
        IF n = 0 THEN 0 ELSE sum[n - 1] + IF n \in rows THEN ls[n] ELSE 0]

LEMMA TokensDef ==
    \A rows : Tokens(rows) = TokensUpTo(lens, rows)[Len(lens)]
BY DEF Tokens, TokensUpTo

LEMMA TokensStay ==
    ASSUME lens' = lens PROVE \A rows : Tokens(rows)' = Tokens(rows)
<1>1. \A rows : Tokens(rows)' = TokensUpTo(lens', rows)[Len(lens')]
  BY DEF Tokens, TokensUpTo
<1> QED
  BY <1>1, TokensDef

LEMMA Steps ==
    ASSUME TypeOK, NEW rows
    PROVE  /\ TokensUpTo(lens, rows)[0] = 0
           /\ \A n \in Rows : TokensUpTo(lens, rows)[n] =
                 TokensUpTo(lens, rows)[n - 1] + IF n \in rows THEN lens[n] ELSE 0
<1> DEFINE f == [i \in Rows |-> IF i \in rows THEN lens[i] ELSE 0]
           Is(F) == F = [n \in 0 .. Len(lens) |->
                       IF n = 0 THEN 0 ELSE F[n - 1] + IF n \in rows THEN lens[n] ELSE 0]
<1>1. Len(lens) \in Nat
  BY LensType
<1>2. PICK F : Adds(F, f, Len(lens))
  <2> HIDE DEF f
  <2> QED
    BY <1>1, SumExists
<1>3. ASSUME NEW n \in 0 .. Len(lens), n # 0 PROVE f[n] = IF n \in rows THEN lens[n] ELSE 0
  BY <1>1, <1>3 DEF Rows
<1>4. Is(F)
  <2> HIDE DEF f
  <2> QED
    BY <1>2, <1>3 DEF Adds
<1>5. TokensUpTo(lens, rows) = CHOOSE G : Is(G)
  BY DEF TokensUpTo
<1>6. PICK G : G = TokensUpTo(lens, rows) /\ Is(G)
  <2> HIDE DEF Is
  <2> QED
    BY <1>4, <1>5
<1>7. G[0] = 0 /\ \A n \in Rows : G[n] = G[n - 1] + IF n \in rows THEN lens[n] ELSE 0
  BY <1>1, <1>6 DEF Rows
<1> QED
  BY <1>6, <1>7

\* What holds of no rows, and goes from each row to the next, holds of all.
LEMMA ByRows ==
    ASSUME TypeOK, NEW P, P \subseteq 0 .. Len(lens), 0 \in P,
           \A n \in Rows : n - 1 \in P => n \in P
    PROVE  P = 0 .. Len(lens)
<1> DEFINE Wrong == {n \in 0 .. Len(lens) : n \notin P}
<1>1. Len(lens) \in Nat
  BY LensType
<1> SUFFICES ASSUME Wrong # {} PROVE FALSE
  OBVIOUS
<1>2. PICK n \in Wrong : \A l \in Wrong : n <= l
  <2>1. Wrong \subseteq Nat
    BY <1>1
  <2> HIDE DEF Wrong
  <2> QED
    BY <2>1, Least
<1>3. n \in 0 .. Len(lens) /\ n \notin P
  OBVIOUS
<1>4. n \in Rows /\ n - 1 \in 0 .. Len(lens) /\ ~(n <= n - 1)
  BY <1>1, <1>3 DEF Rows
<1>5. n - 1 \notin Wrong
  <2> HIDE DEF Wrong
  <2> QED
    BY <1>2, <1>4
<1> QED
  BY <1>3, <1>4, <1>5

LEMMA TokensNat ==
    ASSUME TypeOK, NEW rows
    PROVE  \A n \in 0 .. Len(lens) : TokensUpTo(lens, rows)[n] \in Nat
<1> DEFINE P == {n \in 0 .. Len(lens) : TokensUpTo(lens, rows)[n] \in Nat}
<1>1. Len(lens) \in Nat /\ \A i \in Rows : lens[i] \in Nat
  BY LensType
<1>2. 0 \in P
  BY <1>1, Steps
<1>3. ASSUME NEW n \in Rows, n - 1 \in P PROVE n \in P
  BY <1>1, <1>3, Steps DEF Rows
<1>4. P \subseteq 0 .. Len(lens)
  OBVIOUS
<1>5. P = 0 .. Len(lens)
  <2> HIDE DEF P
  <2> QED
    BY <1>2, <1>3, <1>4, ByRows
<1> QED
  BY <1>5

\* No rows have no tokens, a row has its own, and disjoint rows add up.
LEMMA TokensOf ==
    ASSUME TypeOK
    PROVE  /\ \A rows : Tokens(rows) \in Nat
           /\ Tokens({}) = 0
           /\ \A i \in Rows : Tokens({i}) = lens[i]
           /\ \A a, b : a \cap b = {} => Tokens(a \cup b) = Tokens(a) + Tokens(b)
<1>1. Len(lens) \in Nat /\ (\A i \in Rows : lens[i] \in Nat) /\ Len(lens) \in 0 .. Len(lens)
  BY LensType
<1>2. ASSUME NEW rows PROVE Tokens(rows) \in Nat
  BY <1>1, TokensDef, TokensNat
<1>3. Tokens({}) = 0
  <2> DEFINE P == {n \in 0 .. Len(lens) : TokensUpTo(lens, {})[n] = 0}
  <2>1. P \subseteq 0 .. Len(lens) /\ 0 \in P /\ \A n \in Rows : n - 1 \in P => n \in P
    BY <1>1, Steps DEF Rows
  <2>2. P = 0 .. Len(lens)
    <3> HIDE DEF P
    <3> QED
      BY <2>1, ByRows
  <2> QED
    BY <1>1, <2>2, TokensDef
<1>4. ASSUME NEW i \in Rows PROVE Tokens({i}) = lens[i]
  <2> DEFINE P == {n \in 0 .. Len(lens) : TokensUpTo(lens, {i})[n] = IF n < i THEN 0 ELSE lens[i]}
  <2>1. 0 \in P
    BY <1>1, Steps DEF Rows
  <2>2. ASSUME NEW n \in Rows, n - 1 \in P PROVE n \in P
    <3>1. TokensUpTo(lens, {i})[n] = TokensUpTo(lens, {i})[n - 1] + IF n \in {i} THEN lens[n] ELSE 0
      BY Steps
    <3>2. TokensUpTo(lens, {i})[n - 1] = IF n - 1 < i THEN 0 ELSE lens[i]
      BY <2>2
    <3> QED
      BY <1>1, <3>1, <3>2 DEF Rows
  <2>3. P \subseteq 0 .. Len(lens)
    OBVIOUS
  <2>4. P = 0 .. Len(lens)
    <3> HIDE DEF P
    <3> QED
      BY <2>1, <2>2, <2>3, ByRows
  <2>5. Len(lens) \in P /\ ~(Len(lens) < i)
    <3>1. i \in 1 .. Len(lens)
      BY DEF Rows
    <3> HIDE DEF P
    <3> QED
      BY <1>1, <2>4, <3>1
  <2>6. TokensUpTo(lens, {i})[Len(lens)] = lens[i]
    BY <2>5, Zenon
  <2> QED
    BY <2>6, TokensDef, Zenon
<1>5. ASSUME NEW a, NEW b, a \cap b = {} PROVE Tokens(a \cup b) = Tokens(a) + Tokens(b)
  <2> DEFINE A(n) == TokensUpTo(lens, a)[n]
             B(n) == TokensUpTo(lens, b)[n]
             C(n) == TokensUpTo(lens, a \cup b)[n]
             P    == {n \in 0 .. Len(lens) : C(n) = A(n) + B(n)}
  <2>1. 0 \in P
    BY <1>1, Steps
  <2>2. ASSUME NEW n \in Rows, n - 1 \in P PROVE n \in P
    <3>1. n - 1 \in 0 .. Len(lens) /\ n \in 0 .. Len(lens)
      BY <1>1 DEF Rows
    <3>2. A(n - 1) \in Nat /\ B(n - 1) \in Nat
      BY <3>1, TokensNat
    <3>3. C(n - 1) = A(n - 1) + B(n - 1)
      BY <2>2
    <3>4. /\ A(n) = A(n - 1) + IF n \in a THEN lens[n] ELSE 0
          /\ B(n) = B(n - 1) + IF n \in b THEN lens[n] ELSE 0
          /\ C(n) = C(n - 1) + IF n \in a \cup b THEN lens[n] ELSE 0
      BY Steps
    <3> HIDE DEF A, B, C
    <3>5. C(n) = A(n) + B(n)
      <4>1. lens[n] \in Nat /\ ~(n \in a /\ n \in b)
        BY <1>1, <1>5
      <4> QED
        BY <3>2, <3>3, <3>4, <4>1
    <3> QED
      BY <3>1, <3>5
  <2>3. P \subseteq 0 .. Len(lens)
    OBVIOUS
  <2>4. P = 0 .. Len(lens)
    <3> HIDE DEF P
    <3> QED
      BY <2>1, <2>2, <2>3, ByRows
  <2> QED
    BY <1>1, <2>4, TokensDef
<1> QED
  BY <1>2, <1>3, <1>4, <1>5

\* Parts that share no row and have at least least tokens each, the first of them first,
\* have together as many as that makes.
LEMMA PartsAddUp ==
    ASSUME TypeOK, NEW parts, NEW least \in Nat, NEW first \in Nat,
           \A g, h \in 1 .. k : g # h => parts[g] \cap parts[h] = {},
           \A g \in 1 .. k : Tokens(parts[g]) >= least,
           Tokens(parts[1]) >= first
    PROVE  Tokens(UNION {parts[g] : g \in 1 .. k}) >= first + (k - 1) * least
<1> DEFINE Upto(n) == UNION {parts[g] : g \in 1 .. n}
           Wrong == {n \in 1 .. k : ~(Tokens(Upto(n)) >= first + (n - 1) * least)}
<1>k. k \in Nat \ {0}
  BY DEF TypeOK
<1> SUFFICES ASSUME Wrong # {} PROVE FALSE
  <2>1. k \in 1 .. k
    BY <1>k
  <2>2. Wrong = {} => Tokens(Upto(k)) >= first + (k - 1) * least
    BY <2>1
  <2> QED
    BY <2>2
<1>1. PICK n \in Wrong : \A l \in Wrong : n <= l
  <2>1. Wrong \subseteq Nat
    BY <1>k
  <2> HIDE DEF Wrong
  <2> QED
    BY <2>1, Least
<1>2. n \in 1 .. k /\ ~(Tokens(Upto(n)) >= first + (n - 1) * least)
  OBVIOUS
<1>3. CASE n = 1
  <2>1. Upto(1) = parts[1]
    OBVIOUS
  <2>2. first + (n - 1) * least = first
    BY <1>3
  <2> HIDE DEF Upto
  <2> QED
    BY <1>2, <1>3, <2>1, <2>2
<1>4. CASE n # 1
  <2>1. n - 1 \in 1 .. k /\ n - 1 \notin Wrong
    <3>1. n - 1 \in 1 .. k /\ ~(n <= n - 1)
      BY <1>k, <1>2, <1>4
    <3> HIDE DEF Wrong
    <3> QED
      BY <1>1, <3>1
  <2>2. Tokens(Upto(n - 1)) >= first + (n - 2) * least
    <3>1. Tokens(Upto(n - 1)) >= first + ((n - 1) - 1) * least
      BY <2>1
    <3>2. (n - 1) - 1 = n - 2
      BY <1>k, <1>2
    <3> HIDE DEF Upto
    <3> QED
      BY <3>1, <3>2
  <2>3. Upto(n) = Upto(n - 1) \cup parts[n]
    <3>1. 1 .. n = (1 .. n - 1) \cup {n}
      BY <1>k, <1>2
    <3> QED
      BY <3>1
  <2>4. Upto(n - 1) \cap parts[n] = {}
    <3> SUFFICES ASSUME NEW g \in 1 .. n - 1 PROVE parts[g] \cap parts[n] = {}
      OBVIOUS
    <3>1. g \in 1 .. k /\ g # n
      BY <1>k, <1>2
    <3> QED
      BY <1>2, <3>1
  <2> DEFINE x == Tokens(Upto(n - 1))
             y == Tokens(parts[n])
             z == (n - 2) * least
  <2>5. Tokens(Upto(n)) = x + y
    <3> HIDE DEF Upto
    <3> QED
      BY <2>3, <2>4, TokensOf
  <2>6. x \in Nat /\ y \in Nat /\ y >= least /\ z \in Int /\ (n - 1) * least = z + least
    <3>1. x \in Nat /\ y \in Nat
      BY TokensOf
    <3>2. n \in Int
      BY <1>k, <1>2
    <3> QED
      BY <1>2, <3>1, <3>2
  <2>7. x >= first + z
    BY <2>2
  <2>8. Tokens(Upto(n)) >= first + (n - 1) * least
    <3> HIDE DEF x, y, z, Upto
    <3> QED
      BY <2>5, <2>6, <2>7
  <2> QED
    BY <1>2, <2>8
<1> QED
  BY <1>3, <1>4

--------------------------------------------------------------------------------
(* Micro-batches and the limit *)

\* Every Set has the tokens of its rows.
SumsTrue == \A s \in heap : \A g \in 1 .. k : s[g].sum = Tokens(Range(s[g].items))

\* All rows fit into k micro-batches of the limit.
LimitAsked == ~equal => limit \in Limits /\ Tokens(Rows) <= k * limit

TokenInv == SumsTrue /\ LimitAsked /\ OneRowOver

LEMMA InitTokens == Init => TokenInv
<1> SUFFICES ASSUME Init PROVE TokenInv
  OBVIOUS
<1>t. TypeOK
  BY InitInv DEF IInv
<1>1. LimitAsked
  <2> SUFFICES ASSUME ~equal PROVE limit \in Limits /\ Tokens(Rows) <= k * limit
    BY DEF LimitAsked
  <2>1. limit \in Limits /\ k >= CeilDiv(Tokens(Rows), limit)
    BY DEF Init, MicroBatches
  <2>2. limit \in Nat \ {0}
    <3>1. PICK i : i \in Rows
      BY <1>t, InitInv DEF IInv, EnoughRows, TypeOK, Rows
    <3>2. lens[i] \in Lengths /\ lens[i] \in Nat \ {0}
      BY <1>t, <3>1, LensType, ElementOfSeq DEF TypeOK, Rows
    <3> QED
      BY <2>1, <3>2, LimitAssumption
  <2> DEFINE t == Tokens(Rows)
             d == (-t) \div limit
  <2>3. t \in Nat /\ k \in Nat
    BY <1>t, TokensOf DEF TypeOK
  <2> HIDE DEF t
  <2>4. d \in Int /\ limit * d <= -t
    BY <2>2, <2>3
  <2>5. k >= -d
    BY <2>1 DEF CeilDiv, t
  <2> HIDE DEF d
  <2>6. limit * (-d) >= t /\ limit * (-d) \in Int
    BY <2>2, <2>3, <2>4
  <2>7. k * limit >= limit * (-d)
    BY <2>2, <2>3, <2>4, <2>5
  <2>8. t <= k * limit
    BY <2>2, <2>3, <2>6, <2>7
  <2> QED
    BY <2>1, <2>8 DEF t
<1> QED
  BY <1>1 DEF Init, TokenInv, SumsTrue, OneRowOver

\* Steps that leave the outcome alone.
LEMMA TokensKept ==
    ASSUME TokenInv, UNCHANGED <<input, outcome, partitions>>, SumsTrue'
    PROVE  TokenInv'
<1>1. lens' = lens /\ equal' = equal /\ limit' = limit /\ k' = k
  BY DEF input
<1>2. Rows' = Rows /\ \A rows : Tokens(rows)' = Tokens(rows)
  BY <1>1, TokensStay DEF Rows
<1> QED
  BY <1>1, <1>2 DEF TokenInv, LimitAsked, OneRowOver

LEMMA PushBlockTokens == IInv /\ TokenInv /\ PushBlock => TokenInv'
<1> SUFFICES ASSUME IInv, TokenInv, PushBlock PROVE TokenInv'
  OBVIOUS
<1>t. TypeOK
  BY DEF IInv
<1>1. PICK b \in Injection(1 .. k, unsorted) :
          heap' = heap \union {[g \in 1 .. k |-> Single(b[g])]}
  BY DEF PushBlock
<1>2. UNCHANGED <<input, outcome, partitions>> /\ lens' = lens /\ k' = k
  BY DEF PushBlock, input
<1>3. \A rows : Tokens(rows)' = Tokens(rows)
  BY <1>2, TokensStay
<1>4. ASSUME NEW g \in 1 .. k PROVE Single(b[g]).sum = Tokens(Range(Single(b[g]).items))
  <2>1. b[g] \in Rows
    BY <1>t, Fun_InjectionProperties DEF TypeOK
  <2>2. Range(Single(b[g]).items) = {b[g]}
    BY <1>t, <2>1, SingleType DEF Range
  <2> QED
    BY <1>t, <2>1, <2>2, SingleType, TokensOf
<1>5. SumsTrue'
  BY <1>1, <1>2, <1>3, <1>4 DEF TokenInv, SumsTrue
<1> QED
  BY <1>2, <1>5, TokensKept

LEMMA PushRowTokens == IInv /\ TokenInv /\ PushRow => TokenInv'
<1> SUFFICES ASSUME IInv, TokenInv, PushRow PROVE TokenInv'
  OBVIOUS
<1>t. TypeOK
  BY DEF IInv
<1>1. PICK i \in unsorted :
          heap' = heap \union {[g \in 1 .. k |-> IF g = 1 THEN Single(i) ELSE EmptySet]}
  BY DEF PushRow
<1>2. UNCHANGED <<input, outcome, partitions>> /\ lens' = lens /\ k' = k
  BY DEF PushRow, input
<1>3. \A rows : Tokens(rows)' = Tokens(rows)
  BY <1>2, TokensStay
<1>4. Single(i).sum = Tokens(Range(Single(i).items))
  <2>1. i \in Rows
    BY <1>t DEF TypeOK
  <2>2. Range(Single(i).items) = {i}
    BY <1>t, <2>1, SingleType DEF Range
  <2> QED
    BY <1>t, <2>1, <2>2, SingleType, TokensOf
<1>5. EmptySet.sum = Tokens(Range(EmptySet.items))
  <2>1. Range(<<>>) = {}
    BY DEF Range
  <2> QED
    BY <1>t, <2>1, TokensOf DEF EmptySet
<1>6. SumsTrue'
  BY <1>1, <1>2, <1>3, <1>4, <1>5 DEF TokenInv, SumsTrue
<1> QED
  BY <1>2, <1>6, TokensKept

LEMMA MergeTokens == IInv /\ TokenInv /\ MergeTwo => TokenInv'
<1> SUFFICES ASSUME IInv, TokenInv, MergeTwo PROVE TokenInv'
  OBVIOUS
<1>t. TypeOK /\ EachRowOnce /\ k \in Nat
  BY DEF IInv, TypeOK
<1>1. PICK s \in heap, t \in heap :
          s # t /\ heap' = (heap \ {s, t}) \union {Arranged(Merged(s, t))}
  BY DEF MergeTwo
<1>2. UNCHANGED <<input, outcome, partitions>> /\ lens' = lens /\ k' = k
  BY DEF MergeTwo, input
<1>3. \A rows : Tokens(rows)' = Tokens(rows)
  BY <1>2, TokensStay
<1>s. s \in States /\ t \in States
  BY <1>t DEF TypeOK
<1>4. PICK p \in [1 .. k -> 1 .. k] :
          \A g \in 1 .. k : Arranged(Merged(s, t))[g] = Join(s[p[g]], t[k + 1 - p[g]])
  BY <1>t, <1>s, MergeFacts
<1>5. ASSUME NEW g \in 1 .. k, NEW h \in 1 .. k
      PROVE  Join(s[g], t[h]).sum = Tokens(Range(Join(s[g], t[h]).items))
  <2>1. /\ s[g].sum = Tokens(Range(s[g].items)) /\ t[h].sum = Tokens(Range(t[h].items))
    BY DEF TokenInv, SumsTrue
  <2>2. s[g].items \in Seq(Rows) /\ t[h].items \in Seq(Rows)
    BY <1>t, <1>s, StateType
  <2>3. Range(s[g].items) \cap Range(t[h].items) = {}
    <3> SUFFICES ASSUME NEW i, i \in Range(s[g].items), i \in Range(t[h].items) PROVE FALSE
      OBVIOUS
    <3>1. PICK q \in DOMAIN s[g].items : i = s[g].items[q]
      BY DEF Range
    <3>2. PICK r \in DOMAIN t[h].items : i = t[h].items[r]
      BY DEF Range
    <3>3. s[g].items[q] = t[h].items[r] => s = t
      BY <1>t DEF EachRowOnce
    <3> QED
      BY <1>1, <3>1, <3>2, <3>3
  <2>4. Range(s[g].items \o t[h].items) = Range(s[g].items) \cup Range(t[h].items)
    BY <2>2, RangeConcatenation
  <2>5. Join(s[g], t[h]).sum = s[g].sum + t[h].sum /\ Join(s[g], t[h]).items = s[g].items \o t[h].items
    BY DEF Join
  <2>6. Tokens(Range(s[g].items) \cup Range(t[h].items)) =
           Tokens(Range(s[g].items)) + Tokens(Range(t[h].items))
    BY <1>t, <2>3, TokensOf
  <2> QED
    BY <2>1, <2>4, <2>5, <2>6
<1>6. \A g \in 1 .. k : k + 1 - g \in 1 .. k
  BY <1>t
<1> DEFINE m == Arranged(Merged(s, t))
<1>7. \A g \in 1 .. k : m[g].sum = Tokens(Range(m[g].items))
  <2> SUFFICES ASSUME NEW g \in 1 .. k PROVE m[g].sum = Tokens(Range(m[g].items))
    OBVIOUS
  <2>1. p[g] \in 1 .. k /\ k + 1 - p[g] \in 1 .. k /\ m[g] = Join(s[p[g]], t[k + 1 - p[g]])
    BY <1>4, <1>6
  <2> HIDE DEF m
  <2> QED
    BY <1>5, <2>1
<1>8. heap' = (heap \ {s, t}) \union {m}
  BY <1>1
<1> HIDE DEF m
<1>9. SumsTrue'
  BY <1>2, <1>3, <1>7, <1>8 DEF TokenInv, SumsTrue
<1> QED
  BY <1>2, <1>9, TokensKept

LEMMA ReturnTokens == IInv /\ TokenInv /\ Return => TokenInv'
<1> SUFFICES ASSUME IInv, TokenInv, Return PROVE TokenInv'
  OBVIOUS
<1>1. PICK s \in heap : heap = {s} /\ partitions' = [g \in 1 .. k |-> Range(s[g].items)]
  BY DEF Return
<1>t. /\ TypeOK /\ EachRowOnce /\ s \in States /\ Sound(s) /\ k \in Nat \ {0} /\ unsorted = {}
  BY DEF IInv, TypeOK, Return
<1>2. UNCHANGED input /\ heap' = heap /\ lens' = lens /\ k' = k /\ equal' = equal /\ limit' = limit
  BY DEF Return, input
<1>3. Rows' = Rows /\ \A rows : Tokens(rows)' = Tokens(rows)
  BY <1>2, TokensStay DEF Rows
<1>4. SumsTrue' /\ LimitAsked'
  BY <1>2, <1>3 DEF TokenInv, SumsTrue, LimitAsked
<1> DEFINE part == [g \in 1 .. k |-> Range(s[g].items)]
<1>5. ASSUME NEW g \in 1 .. k PROVE s[g].sum = Tokens(part[g]) /\ s[g].sum \in Nat
  <2>1. s[g].sum \in Nat
    BY <1>t, StateType
  <2> QED
    BY <2>1 DEF TokenInv, SumsTrue
<1>6. \A g, h \in 1 .. k : g # h => part[g] \cap part[h] = {}
  BY <1>t DEF EachRowOnce, Range
<1>7. UNION {part[g] : g \in 1 .. k} = Rows
  <2>1. Accepted(part)
    BY <1>1, <1>t, LastAccepted
  <2> HIDE DEF part
  <2> QED
    BY <2>1 DEF Accepted
<1>8. ASSUME ~equal, NEW g \in 1 .. k
      PROVE  \E i \in Rows : Tokens(part[g]) < limit + lens[i]
  <2>1. PICK i \in Rows : Spread(s) <= lens[i]
    BY <1>t, <1>8 DEF Sound, Narrow
  <2>2. /\ limit \in Nat /\ Tokens(Rows) <= k * limit /\ lens[i] \in Nat \ {0}
        /\ 1 \in 1 .. k /\ k \in 1 .. k
    <3>1. limit \in Limits /\ Tokens(Rows) <= k * limit
      BY <1>8 DEF TokenInv, LimitAsked
    <3>2. limit \in Nat
      BY <3>1, LimitAssumption
    <3>3. lens[i] \in Nat \ {0}
      BY <1>t, LensType
    <3> QED
      BY <1>t, <3>1, <3>2, <3>3
  <2>3. s[1].sum >= s[g].sum /\ \A h \in 1 .. k : s[h].sum >= s[k].sum
    BY <1>t, <2>2, SumsDecrease DEF Sound
  <2>4. s[1].sum - s[k].sum <= lens[i]
    BY <2>1 DEF Spread
  <2>5. s[1].sum < limit + lens[i]
    <3> SUFFICES ASSUME s[1].sum >= limit + lens[i] PROVE FALSE
      BY <1>5, <2>2
    <3>1. s[1].sum \in Nat /\ s[k].sum \in Nat
      BY <1>5, <2>2
    <3>2. s[k].sum >= limit /\ s[1].sum >= limit + 1
      BY <2>2, <2>4, <3>1
    <3>3. \A h \in 1 .. k : Tokens(part[h]) >= limit
      BY <1>5, <2>2, <2>3, <3>1, <3>2
    <3>4. Tokens(part[1]) >= limit + 1
      BY <1>5, <2>2, <3>2
    <3> HIDE DEF part
    <3>5. Tokens(UNION {part[h] : h \in 1 .. k}) >= (limit + 1) + (k - 1) * limit
      BY <1>t, <1>6, <2>2, <3>3, <3>4, PartsAddUp
    <3>6. (limit + 1) + (k - 1) * limit = k * limit + 1 /\ k * limit \in Nat
      BY <1>t, <2>2
    <3>7. Tokens(Rows) \in Nat
      BY <1>t, TokensOf
    <3>8. Tokens(Rows) >= k * limit + 1
      BY <1>7, <3>5, <3>6
    <3> QED
      BY <2>2, <3>6, <3>7, <3>8
  <2> QED
    BY <1>5, <2>2, <2>3, <2>5
<1>9. OneRowOver'
  BY <1>1, <1>2, <1>3, <1>8 DEF OneRowOver
<1> QED
  BY <1>4, <1>9 DEF TokenInv

\* No micro-batch exceeds the limit by a row or more, whatever the lengths, the limit and
\* the number of micro-batches that the other ranks of the group ask for.
THEOREM WithinLimit == Spec => []OneRowOver
<1>1. IInv /\ TokenInv /\ UNCHANGED vars => TokenInv'
  <2> SUFFICES ASSUME TokenInv, UNCHANGED vars PROVE TokenInv'
    OBVIOUS
  <2>1. UNCHANGED <<input, outcome, partitions>> /\ lens' = lens /\ k' = k /\ heap' = heap
    BY DEF vars, input
  <2>2. \A rows : Tokens(rows)' = Tokens(rows)
    BY <2>1, TokensStay
  <2> QED
    BY <2>1, <2>2, TokensKept DEF TokenInv, SumsTrue
<1>2. IInv /\ TokenInv /\ [Next]_vars => TokenInv'
  BY <1>1, PushBlockTokens, PushRowTokens, MergeTokens, ReturnTokens DEF Next
<1>3. TokenInv => OneRowOver
  BY DEF TokenInv
<1> QED
  BY InitTokens, Inductive, <1>2, <1>3, PTL DEF Spec

================================================================================
