------------------------- MODULE MegatronWeights_proofs ------------------------
(***************************************************************************)
(* Proofs about MegatronWeights: the weights are where training looks for  *)
(* them after loading (LoadingRight), what is saved is the model           *)
(* (MergingWhole), and every engine is given the model, but where layers   *)
(* are misnamed (EnginesWhole), for every layout that the assumptions on   *)
(* Jobs allow.                                                             *)
(*                                                                         *)
(* Three kinds of facts come together.  Tensors: ShardOf(part, l, t) is    *)
(* what tensor rank t has of a part of layer l; the loader cuts it         *)
(* (LoadedIs), training expects it (RightIs), and what engines and saver   *)
(* put together from all ranks is the whole (JoinedIs, CollectedIs).       *)
(* Layers: which layer a chunk starts with (LayerStarts), that the chunks  *)
(* have every layer (LayersCovered), and which layers are given a name of  *)
(* their own when they are sent (OffsetRight, OffsetWrong).  Collectives:  *)
(* how far each rank has come says what it has loaded, sent or kept        *)
(* (LoadInv, SyncInv, MergeInv).                                           *)
(*                                                                         *)
(* Every set or sequence that is made by going through a range of numbers  *)
(* is described by what it has at each of them, and induction is by the    *)
(* least number at which that fails.                                       *)
(***************************************************************************)
EXTENDS MegatronWeights, SequenceTheorems, WellFoundedInduction, TLAPS

--------------------------------------------------------------------------------
(* Sequences *)

IsSeq(s) == s \in Seq(Range(s))

\* A function on 1 .. n is a sequence.
LEMMA FunctionIsSeq ==
    ASSUME NEW n \in Nat, NEW s, s = [i \in 1 .. n |-> s[i]]
    PROVE  IsSeq(s) /\ Len(s) = n /\ DOMAIN s = 1 .. n
<1>1. DOMAIN s = 1 .. n
  OBVIOUS
<1>2. s \in [1 .. n -> Range(s)]
  <2>1. \A i \in 1 .. n : s[i] \in Range(s)
    BY <1>1 DEF Range
  <2> QED
    BY <2>1
<1> QED
  BY <1>1, <1>2 DEF IsSeq

LEMMA SeqFacts ==
    ASSUME NEW s, IsSeq(s)
    PROVE  /\ Len(s) \in Nat /\ DOMAIN s = 1 .. Len(s) /\ s = [i \in 1 .. Len(s) |-> s[i]]
           /\ Len(s) = 0 <=> s = <<>>
<1>1. Len(s) \in Nat /\ DOMAIN s = 1 .. Len(s) /\ s \in [1 .. Len(s) -> Range(s)]
  BY LenProperties DEF IsSeq
<1>2. s # <<>> => Len(s) # 0
  BY EmptySeq DEF IsSeq
<1>3. Len(<<>>) = 0
  OBVIOUS
<1> QED
  BY <1>1, <1>2, <1>3

LEMMA SameSeq ==
    ASSUME NEW s, NEW t, IsSeq(s), IsSeq(t), Len(s) = Len(t), \A i \in 1 .. Len(s) : s[i] = t[i]
    PROVE  s = t
BY SeqFacts

LEMMA ConcatFacts ==
    ASSUME NEW s, NEW t, IsSeq(s), IsSeq(t)
    PROVE  /\ IsSeq(s \o t) /\ Len(s \o t) = Len(s) + Len(t)
           /\ \A i \in 1 .. Len(s) : (s \o t)[i] = s[i]
           /\ \A i \in 1 .. Len(t) : (s \o t)[Len(s) + i] = t[i]
           /\ Range(s \o t) = Range(s) \cup Range(t)
<1> DEFINE S == Range(s) \cup Range(t)
<1>1. s \in Seq(S) /\ t \in Seq(S)
  BY SeqMonotonic DEF IsSeq
<1> HIDE DEF S
<1>2. Len(s) \in Nat /\ Len(t) \in Nat
  BY SeqFacts
<1>3. /\ s \o t \in Seq(S) /\ Len(s \o t) = Len(s) + Len(t)
      /\ \A i \in 1 .. Len(s) + Len(t) :
            (s \o t)[i] = IF i <= Len(s) THEN s[i] ELSE t[i - Len(s)]
  BY <1>1, ConcatProperties
<1>4. Range(s \o t) = S
  BY <1>1, RangeConcatenation DEF S
<1>5. IsSeq(s \o t)
  BY <1>3, <1>4 DEF IsSeq
<1>6. ASSUME NEW i \in 1 .. Len(t) PROVE (s \o t)[Len(s) + i] = t[i]
  <2>1. Len(s) + i \in 1 .. Len(s) + Len(t) /\ ~(Len(s) + i <= Len(s)) /\ (Len(s) + i) - Len(s) = i
    BY <1>2
  <2> QED
    BY <1>3, <2>1
<1> QED
  BY <1>2, <1>3, <1>4, <1>5, <1>6 DEF S

\* What comes after the first a entries, up to the b-th.
Span(s, a, b) == SubSeq(s, a + 1, b)

LEMMA SpanFacts ==
    ASSUME NEW s, IsSeq(s), NEW a \in Nat, NEW b \in Nat, a <= b, b <= Len(s)
    PROVE  /\ IsSeq(Span(s, a, b)) /\ Len(Span(s, a, b)) = b - a
           /\ \A i \in 1 .. b - a : Span(s, a, b)[i] = s[a + i]
<1>1. Len(s) \in Nat /\ \A i \in 1 .. Len(s) : s[i] \in Range(s)
  BY SeqFacts, ElementOfSeq DEF IsSeq
<1>2. /\ SubSeq(s, a + 1, b) \in Seq(Range(s))
      /\ Len(SubSeq(s, a + 1, b)) = IF a + 1 <= b THEN b - (a + 1) + 1 ELSE 0
      /\ \A i \in 1 .. b - (a + 1) + 1 : SubSeq(s, a + 1, b)[i] = s[(a + 1) + i - 1]
  <2>1. \A i \in a + 1 .. b : s[i] \in Range(s)
    BY <1>1
  <2> QED
    BY <2>1, SubSeqProperties
<1>3. Len(SubSeq(s, a + 1, b)) = b - a
  BY <1>2
<1>4. IsSeq(SubSeq(s, a + 1, b))
  <2> DEFINE u == SubSeq(s, a + 1, b)
  <2>1. u \in Seq(Range(s))
    BY <1>2
  <2> HIDE DEF u
  <2>2. u \in Seq(Range(u))
    BY <2>1, SeqOfRange
  <2> QED
    BY <2>2 DEF u, IsSeq
<1>5. ASSUME NEW i \in 1 .. b - a PROVE SubSeq(s, a + 1, b)[i] = s[a + i]
  <2>1. i \in 1 .. b - (a + 1) + 1 /\ (a + 1) + i - 1 = a + i
    OBVIOUS
  <2> QED
    BY <1>2, <2>1
<1> QED
  BY <1>3, <1>4, <1>5 DEF Span

--------------------------------------------------------------------------------
(* Induction, by the least number for which a statement would be false *)

LEMMA Least ==
    ASSUME NEW T, T \subseteq Nat, T # {}
    PROVE  \E n \in T : \A m \in T : n <= m
<1>1. PICK n \in T : \A m \in T : <<m, n>> \notin OpToRel(<, Nat)
  BY NatLessThanWellFounded, WFMin
<1>2. ASSUME NEW m \in T PROVE n <= m
  <2>1. m \in Nat /\ n \in Nat
    OBVIOUS
  <2>2. ~(m < n)
    BY <1>1, <2>1 DEF OpToRel
  <2> QED
    BY <2>1, <2>2
<1> QED
  BY <1>2

LEMMA Upwards ==
    ASSUME NEW n \in Nat, NEW P, 1 \in P, \A i \in 1 .. n : i > 1 /\ i - 1 \in P => i \in P
    PROVE  1 .. n \subseteq P
<1> DEFINE Wrong == {i \in 1 .. n : i \notin P}
<1> SUFFICES ASSUME Wrong # {} PROVE FALSE
  OBVIOUS
<1>1. PICK i \in Wrong : \A j \in Wrong : i <= j
  <2>1. Wrong \subseteq Nat
    OBVIOUS
  <2> HIDE DEF Wrong
  <2> QED
    BY <2>1, Least
<1>2. i \in 1 .. n /\ i \notin P /\ i > 1
  OBVIOUS
<1>3. i - 1 \in 1 .. n /\ ~(i <= i - 1)
  BY <1>2
<1>4. i - 1 \notin Wrong
  <2> HIDE DEF Wrong
  <2> QED
    BY <1>1, <1>3
<1> QED
  BY <1>2, <1>3, <1>4

--------------------------------------------------------------------------------
(* What FlattenSeq puts together *)

Joins(F, seqs, n) == F = [i \in 1 .. n |-> IF i = 1 THEN seqs[i] ELSE F[i - 1] \o seqs[i]]

LEMMA JoinsExists ==
    ASSUME NEW seqs, NEW n \in Nat
    PROVE  \E F : Joins(F, seqs, n)
<1> DEFINE Wrong == {m \in Nat : ~\E F : Joins(F, seqs, m)}
<1> SUFFICES ASSUME Wrong # {} PROVE FALSE
  OBVIOUS
<1>1. PICK m \in Wrong : \A l \in Wrong : m <= l
  <2>1. Wrong \subseteq Nat
    OBVIOUS
  <2> HIDE DEF Wrong
  <2> QED
    BY <2>1, Least
<1>2. m \in Nat /\ ~\E F : Joins(F, seqs, m)
  OBVIOUS
<1>3. CASE m = 0
  <2> DEFINE F == [i \in 1 .. 0 |-> 0]
  <2>1. F = [i \in 1 .. m |-> IF i = 1 THEN seqs[i] ELSE F[i - 1] \o seqs[i]]
    BY <1>3
  <2> QED
    BY <1>2, <2>1 DEF Joins
<1>4. CASE m # 0
  <2>1. m - 1 \in Nat /\ m - 1 \notin Wrong
    <3>1. m - 1 \in Nat /\ ~(m <= m - 1)
      BY <1>2, <1>4
    <3> HIDE DEF Wrong
    <3> QED
      BY <1>1, <3>1
  <2>2. PICK F : Joins(F, seqs, m - 1)
    BY <2>1
  <2> DEFINE G == [i \in 1 .. m |-> IF i = 1 THEN seqs[1] ELSE IF i = m THEN F[i - 1] \o seqs[i] ELSE F[i]]
  <2>3. ASSUME NEW i \in 1 .. m PROVE G[i] = IF i = 1 THEN seqs[i] ELSE G[i - 1] \o seqs[i]
    <3>1. CASE i = 1
      BY <3>1
    <3>2. CASE i > 1 /\ i < m
      <4>1. i \in 1 .. m - 1 /\ i - 1 \in 1 .. m - 1 /\ i # 1 /\ i # m /\ i - 1 # m
        BY <1>2, <3>2
      <4>2. F[i] = F[i - 1] \o seqs[i] /\ (i - 1 = 1 => F[i - 1] = seqs[1])
        BY <2>2, <4>1 DEF Joins
      <4>3. G[i] = F[i] /\ G[i - 1] = IF i - 1 = 1 THEN seqs[1] ELSE F[i - 1]
        BY <4>1, i - 1 \in 1 .. m
      <4> QED
        BY <4>1, <4>2, <4>3
    <3>3. CASE i > 1 /\ i = m
      <4>1. i - 1 \in 1 .. m - 1 /\ i - 1 \in 1 .. m /\ i # 1 /\ i - 1 # m
        BY <1>2, <3>3
      <4>2. i - 1 = 1 => F[i - 1] = seqs[1]
        BY <2>2, <4>1 DEF Joins
      <4> QED
        BY <3>3, <4>1, <4>2
    <3> QED
      BY <1>2, <3>1, <3>2, <3>3
  <2>4. Joins(G, seqs, m)
    BY <2>3 DEF Joins
  <2> QED
    BY <1>2, <2>4
<1> QED
  BY <1>3, <1>4

\* The sequences put together one by one.
LEMMA FlattenSteps ==
    ASSUME NEW seqs, NEW n \in Nat \ {0}, Len(seqs) = n
    PROVE  \E F : /\ F[1] = seqs[1]
                  /\ \A i \in 1 .. n : i > 1 => F[i] = F[i - 1] \o seqs[i]
                  /\ FlattenSeq(seqs) = F[n]
<1> DEFINE F == CHOOSE F : F = [i \in 1 .. Len(seqs) |-> IF i = 1 THEN seqs[i] ELSE F[i - 1] \o seqs[i]]
<1>1. \E G : G = [i \in 1 .. Len(seqs) |-> IF i = 1 THEN seqs[i] ELSE G[i - 1] \o seqs[i]]
  BY JoinsExists DEF Joins
<1>2. F = [i \in 1 .. Len(seqs) |-> IF i = 1 THEN seqs[i] ELSE F[i - 1] \o seqs[i]]
  BY <1>1
<1>3. FlattenSeq(seqs) = F[Len(seqs)]
  BY DEF FlattenSeq
<1> HIDE DEF F
<1>4. F[1] = seqs[1]
  BY <1>2
<1>5. ASSUME NEW i \in 1 .. n, i > 1 PROVE F[i] = F[i - 1] \o seqs[i]
  <2>1. i \in 1 .. Len(seqs) /\ i # 1
    BY <1>5
  <2>2. F[i] = IF i = 1 THEN seqs[i] ELSE F[i - 1] \o seqs[i]
    BY <1>2, <2>1
  <2> QED
    BY <2>1, <2>2
<1> QED
  BY <1>3, <1>4, <1>5

--------------------------------------------------------------------------------
(* Division *)

LEMMA Division ==
    ASSUME NEW a \in Nat, NEW b \in Nat \ {0}
    PROVE  \E q \in Nat : \E t \in 0 .. b - 1 : q = a \div b /\ t = a % b /\ a = q * b + t
<1>1. a % b = a - b * (a \div b)
  OBVIOUS
<1>2. PICK q \in Nat, t \in 0 .. b - 1 : q = a \div b /\ t = a % b
  OBVIOUS
<1>3. t = a - b * q
  BY <1>1, <1>2
<1>4. PICK c \in Int : c = b * q /\ c = q * b
  <2>1. b * q = q * b /\ b * q \in Int
    OBVIOUS
  <2> QED
    BY <2>1
<1>5. t = a - c
  BY <1>3, <1>4
<1>6. a = q * b + t
  BY <1>4, <1>5
<1> QED
  BY <1>2, <1>6, Zenon

LEMMA Quotient ==
    ASSUME NEW q \in Int, NEW b \in Nat \ {0}, NEW t \in 0 .. b - 1
    PROVE  (q * b + t) \div b = q /\ (q * b + t) % b = t
OBVIOUS

LEMMA Exact ==
    ASSUME NEW a \in Nat, NEW b \in Nat \ {0}, a % b = 0
    PROVE  a = b * (a \div b) /\ a \div b \in Nat
OBVIOUS

LEMMA Multiple ==
    ASSUME NEW b \in Nat \ {0}, NEW m \in Nat
    PROVE  (b * m) \div b = m /\ (b * m) % b = 0
OBVIOUS

LEMMA Shifted ==
    ASSUME NEW a \in Nat, NEW k \in Nat \ {0}, NEW b \in Nat
    PROVE  (a * k + b) \div k = a + b \div k /\ (a * k + b) % k = b % k
<1>1. PICK q \in Nat, t \in 0 .. k - 1 : q = b \div k /\ t = b % k /\ b = q * k + t
  BY Division
<1>3. a * k + b = (a + q) * k + t
  BY <1>1
<1>4. ((a + q) * k + t) \div k = a + q /\ ((a + q) * k + t) % k = t
  BY Quotient
<1> QED
  BY <1>1, <1>3, <1>4

\* Numbers below n * m, by the multiple of m they are above.
LEMMA Within ==
    ASSUME NEW n \in Nat, NEW m \in Nat, NEW i \in 0 .. n - 1, NEW j \in 1 .. m
    PROVE  i * m + j \in 1 .. n * m /\ i * m \in Nat /\ i * m + m <= n * m /\ n * m \in Nat
<1>1. PICK a \in Nat, b \in Nat : a = i * m /\ b = ((n - i) - 1) * m
  <2>1. i \in Nat /\ (n - i) - 1 \in Nat
    OBVIOUS
  <2> QED
    BY <2>1
<1>2. n * m = (a + m) + b
  BY <1>1
<1> QED
  BY <1>1, <1>2

LEMMA PositionOf ==
    ASSUME NEW n \in Nat, NEW m \in Nat \ {0}, NEW k \in 1 .. n * m
    PROVE  \E i \in 0 .. n - 1, j \in 1 .. m : k = i * m + j
<1>1. k - 1 \in Nat
  OBVIOUS
<1>2. PICK q \in Nat, t \in 0 .. m - 1 : k - 1 = q * m + t
  BY <1>1, Division
<1>3. q < n
  <2> SUFFICES ASSUME q >= n PROVE FALSE
    OBVIOUS
  <2>1. PICK a \in Nat, b \in Nat : a = n * m /\ b = (q - n) * m
    <3>1. q - n \in Nat
      OBVIOUS
    <3> QED
      BY <3>1
  <2>2. q * m = a + b
    BY <2>1
  <2> QED
    BY <1>2, <2>1, <2>2
<1>4. PICK c \in Nat : c = q * m
  OBVIOUS
<1>5. k = c + (t + 1) /\ t + 1 \in 1 .. m /\ q \in 0 .. n - 1
  BY <1>2, <1>3, <1>4
<1> QED
  BY <1>4, <1>5

--------------------------------------------------------------------------------
(* What is flattened *)

AllSeqs(seqs, n) == \A i \in 1 .. n : IsSeq(seqs[i])
RangesUpTo(seqs, n) == UNION {Range(seqs[i]) : i \in 1 .. n}

LEMMA FlattenRange ==
    ASSUME NEW n \in Nat, NEW seqs, seqs = [i \in 1 .. n |-> seqs[i]], AllSeqs(seqs, n)
    PROVE  IsSeq(FlattenSeq(seqs)) /\ Range(FlattenSeq(seqs)) = RangesUpTo(seqs, n)
<1>1. IsSeq(seqs) /\ Len(seqs) = n
  BY FunctionIsSeq
<1>2. CASE n = 0
  <2>1. FlattenSeq(seqs) = seqs
    BY <1>1, <1>2 DEF FlattenSeq
  <2>2. Range(seqs) = {}
    <3>1. DOMAIN seqs = 1 .. n /\ 1 .. n = {}
      BY <1>2, FunctionIsSeq
    <3> QED
      BY <3>1 DEF Range
  <2>3. RangesUpTo(seqs, n) = {}
    BY <1>2 DEF RangesUpTo
  <2> QED
    BY <1>1, <2>1, <2>2, <2>3
<1>3. CASE n # 0
  <2>1. PICK F : /\ F[1] = seqs[1]
                 /\ \A i \in 1 .. n : i > 1 => F[i] = F[i - 1] \o seqs[i]
                 /\ FlattenSeq(seqs) = F[n]
    <3>1. n \in Nat \ {0}
      BY <1>3
    <3> QED
      BY <1>1, <3>1, FlattenSteps
  <2> DEFINE P == {i \in 1 .. n : IsSeq(F[i]) /\ Range(F[i]) = RangesUpTo(seqs, i)}
  <2>2. 1 \in P
    <3>1. RangesUpTo(seqs, 1) = Range(seqs[1])
      <4>1. 1 .. 1 = {1}
        OBVIOUS
      <4> QED
        BY <4>1 DEF RangesUpTo
    <3> QED
      BY <1>3, <2>1, <3>1 DEF AllSeqs
  <2>3. ASSUME NEW i \in 1 .. n, i > 1, i - 1 \in P PROVE i \in P
    <3>1. IsSeq(F[i - 1]) /\ IsSeq(seqs[i]) /\ Range(F[i - 1]) = RangesUpTo(seqs, i - 1)
      BY <2>3 DEF AllSeqs
    <3>2. IsSeq(F[i]) /\ Range(F[i]) = Range(F[i - 1]) \union Range(seqs[i])
      <4>1. PICK s, t : s = F[i - 1] /\ t = seqs[i]
        OBVIOUS
      <4>2. F[i] = s \o t
        BY <2>1, <2>3, <4>1
      <4>3. IsSeq(s \o t) /\ Range(s \o t) = Range(s) \union Range(t)
        BY <3>1, <4>1, ConcatFacts
      <4> QED
        BY <4>1, <4>2, <4>3
    <3>3. RangesUpTo(seqs, i) = RangesUpTo(seqs, i - 1) \union Range(seqs[i])
      <4>1. 1 .. i = (1 .. i - 1) \union {i}
        BY <2>3
      <4> QED
        BY <4>1 DEF RangesUpTo
    <3> QED
      BY <3>1, <3>2, <3>3
  <2>4. 1 .. n \subseteq P
    <3> HIDE DEF P
    <3> QED
      BY <2>2, <2>3, Upwards
  <2> QED
    BY <1>3, <2>1, <2>4
<1> QED
  BY <1>2, <1>3

\* Sequences of one length, flattened.
AllOf(seqs, n, m) == \A i \in 1 .. n : IsSeq(seqs[i]) /\ Len(seqs[i]) = m
Lined(whole, seqs, n, m) == \A i \in 0 .. n - 1 : \A j \in 1 .. m : whole[i * m + j] = seqs[i + 1][j]

LEMMA EqualFlatten ==
    ASSUME NEW n \in Nat \ {0}, NEW m \in Nat \ {0}, NEW seqs, Len(seqs) = n, AllOf(seqs, n, m)
    PROVE  /\ IsSeq(FlattenSeq(seqs)) /\ Len(FlattenSeq(seqs)) = n * m
           /\ Lined(FlattenSeq(seqs), seqs, n, m)
<1>1. PICK F : /\ F[1] = seqs[1]
               /\ \A i \in 1 .. n : i > 1 => F[i] = F[i - 1] \o seqs[i]
               /\ FlattenSeq(seqs) = F[n]
  BY FlattenSteps
<1> DEFINE P == {i \in 1 .. n : IsSeq(F[i]) /\ Len(F[i]) = i * m /\ Lined(F[i], seqs, i, m)}
<1>2. 1 \in P
  <2>1. IsSeq(seqs[1]) /\ Len(seqs[1]) = m
    BY DEF AllOf
  <2>2. Lined(seqs[1], seqs, 1, m)
    <3>1. \A i \in 0 .. 1 - 1 : \A j \in 1 .. m : i * m + j = j /\ i + 1 = 1
      <4>1. \A i \in 0 .. 1 - 1 : i = 0 /\ i * m = 0
        OBVIOUS
      <4> QED
        BY <4>1
    <3> QED
      BY <3>1 DEF Lined
  <2> QED
    BY <1>1, <2>1, <2>2
<1>3. ASSUME NEW i \in 1 .. n, i > 1, i - 1 \in P PROVE i \in P
  <2>1. /\ IsSeq(F[i - 1]) /\ Len(F[i - 1]) = (i - 1) * m /\ Lined(F[i - 1], seqs, i - 1, m)
        /\ IsSeq(seqs[i]) /\ Len(seqs[i]) = m
    BY <1>3 DEF AllOf
  <2>2. /\ IsSeq(F[i]) /\ Len(F[i]) = Len(F[i - 1]) + m
        /\ \A k \in 1 .. Len(F[i - 1]) : F[i][k] = F[i - 1][k]
        /\ \A k \in 1 .. m : F[i][Len(F[i - 1]) + k] = seqs[i][k]
    <3>1. PICK s, t : s = F[i - 1] /\ t = seqs[i]
      OBVIOUS
    <3>2. F[i] = s \o t
      BY <1>1, <1>3, <3>1
    <3>3. /\ IsSeq(s \o t) /\ Len(s \o t) = Len(s) + Len(t)
          /\ \A k \in 1 .. Len(s) : (s \o t)[k] = s[k]
          /\ \A k \in 1 .. Len(t) : (s \o t)[Len(s) + k] = t[k]
      BY <2>1, <3>1, ConcatFacts
    <3> QED
      BY <2>1, <3>1, <3>2, <3>3
  <2>3. Len(F[i]) = i * m
    BY <2>1, <2>2
  <2>4. ASSUME NEW h \in 0 .. i - 1, NEW j \in 1 .. m PROVE F[i][h * m + j] = seqs[h + 1][j]
    <3>1. CASE h = i - 1
      BY <2>1, <2>2, <3>1
    <3>2. CASE h \in 0 .. (i - 1) - 1
      <4>1. i - 1 \in Nat
        OBVIOUS
      <4>2. h * m + j \in 1 .. (i - 1) * m
        BY <3>2, <4>1, Within
      <4>3. F[i][h * m + j] = F[i - 1][h * m + j]
        BY <2>1, <2>2, <4>2
      <4>4. F[i - 1][h * m + j] = seqs[h + 1][j]
        BY <2>1, <3>2 DEF Lined
      <4> QED
        BY <4>3, <4>4
    <3> QED
      BY <3>1, <3>2
  <2>5. Lined(F[i], seqs, i, m)
    BY <2>4 DEF Lined
  <2> QED
    BY <2>2, <2>3, <2>5
<1>4. 1 .. n \subseteq P
  <2> HIDE DEF P
  <2> QED
    BY <1>2, <1>3, Upwards
<1> QED
  BY <1>1, <1>4

\* The pieces of a sequence make it.
LEMMA FlattenIs ==
    ASSUME NEW n \in Nat \ {0}, NEW m \in Nat \ {0}, NEW seqs, Len(seqs) = n, AllOf(seqs, n, m),
           NEW whole, IsSeq(whole), Len(whole) = n * m, Lined(whole, seqs, n, m)
    PROVE  FlattenSeq(seqs) = whole
<1>1. /\ IsSeq(FlattenSeq(seqs)) /\ Len(FlattenSeq(seqs)) = n * m
      /\ Lined(FlattenSeq(seqs), seqs, n, m)
  BY EqualFlatten
<1>2. ASSUME NEW k \in 1 .. n * m PROVE FlattenSeq(seqs)[k] = whole[k]
  <2>1. PICK i \in 0 .. n - 1, j \in 1 .. m : k = i * m + j
    BY PositionOf
  <2> QED
    BY <1>1, <2>1 DEF Lined
<1> QED
  BY <1>1, <1>2, SameSeq

\* A piece of what was flattened is what it was.
LEMMA PieceOfFlat ==
    ASSUME NEW n \in Nat \ {0}, NEW m \in Nat \ {0}, NEW seqs, Len(seqs) = n, AllOf(seqs, n, m),
           NEW i \in 0 .. n - 1
    PROVE  SubSeq(FlattenSeq(seqs), i * m + 1, i * m + m) = seqs[i + 1]
<1> DEFINE whole == FlattenSeq(seqs)
<1>1. IsSeq(whole) /\ Len(whole) = n * m /\ Lined(whole, seqs, n, m)
  BY EqualFlatten
<1> HIDE DEF whole
<1>2. PICK a : a = i * m
  OBVIOUS
<1>3. a \in Nat /\ a + m <= Len(whole)
  <2>1. i * m \in Nat /\ i * m + m <= n * m
    <3>1. 1 \in 1 .. m
      OBVIOUS
    <3> QED
      BY <3>1, Within
  <2> QED
    BY <1>1, <1>2, <2>1
<1>4. /\ IsSeq(Span(whole, a, a + m)) /\ Len(Span(whole, a, a + m)) = m
      /\ \A j \in 1 .. m : Span(whole, a, a + m)[j] = whole[a + j]
  <2>1. PICK b \in Nat : b = a + m
    BY <1>3
  <2>2. a <= b /\ b - a = m /\ b <= Len(whole)
    BY <1>3, <2>1
  <2>3. /\ IsSeq(Span(whole, a, b)) /\ Len(Span(whole, a, b)) = b - a
        /\ \A j \in 1 .. b - a : Span(whole, a, b)[j] = whole[a + j]
    BY <1>1, <1>3, <2>2, SpanFacts
  <2> QED
    BY <2>1, <2>2, <2>3
<1>5. IsSeq(seqs[i + 1]) /\ Len(seqs[i + 1]) = m
  <2>1. i + 1 \in 1 .. n
    OBVIOUS
  <2> QED
    BY <2>1 DEF AllOf
<1>6. \A j \in 1 .. m : Span(whole, a, a + m)[j] = seqs[i + 1][j]
  BY <1>1, <1>2, <1>4 DEF Lined
<1>7. Span(whole, a, a + m) = seqs[i + 1]
  BY <1>4, <1>5, <1>6, SameSeq
<1> QED
  BY <1>2, <1>7 DEF Span, whole

--------------------------------------------------------------------------------
(* Configurations and ranks *)

LEMMA JobFacts ==
    ASSUME job \in Jobs
    PROVE  /\ job.tp \in Nat \ {0} /\ job.cp \in Nat \ {0} /\ job.dp \in Nat \ {0} /\ job.pp \in Nat \ {0}
           /\ job.layers \in Nat \ {0} /\ job.heads \in Nat \ {0} /\ job.kv \in Nat \ {0}
           /\ job.width \in Nat \ {0}
           /\ job.vpp \in Nat /\ job.vrank \in Nat /\ job.first \in Nat /\ job.last \in Nat
           /\ job.tied \in BOOLEAN /\ job.embed \in BOOLEAN /\ job.loss \in BOOLEAN /\ job.hf \in BOOLEAN
           /\ Chunks \in Nat \ {0}
<1>1. /\ \A f \in {"tp", "cp", "dp", "pp", "layers", "heads", "kv", "width"} : job[f] \in Nat \ {0}
      /\ \A f \in {"vpp", "vrank", "first", "last"} : job[f] \in Nat
      /\ \A f \in {"tied", "embed", "loss", "hf"} : job[f] \in BOOLEAN
  BY JobsAssumption
<1>2. job.vpp \in Nat
  BY <1>1
<1>3. Chunks \in Nat \ {0}
  BY <1>2 DEF Chunks
<1> QED
  BY <1>1, <1>3

\* What is left of the sizes when they are shared out: G query groups on a rank, of P query
\* heads each, and W units of a matrix.
LEMMA Sizes ==
    ASSUME job \in Jobs
    PROVE  \E G, P, W \in Nat \ {0} :
              /\ job.kv = job.tp * G /\ job.kv \div job.tp = G
              /\ job.heads = (job.tp * G) * P /\ job.heads \div job.kv = P
              /\ job.heads \div job.tp = G * P /\ (G * P) \div G = P /\ G \div G = 1
              /\ job.width = job.tp * W /\ job.width \div job.tp = W
<1>1. PICK t \in Nat \ {0}, k \in Nat \ {0}, h \in Nat \ {0}, w \in Nat \ {0} :
          t = job.tp /\ k = job.kv /\ h = job.heads /\ w = job.width
  BY JobFacts
<1>2. h % k = 0 /\ k % t = 0 /\ w % t = 0
  BY <1>1, JobsAssumption
<1>3. PICK G \in Nat, P \in Nat, W \in Nat : /\ k = t * G /\ G = k \div t /\ h = k * P /\ P = h \div k
                                             /\ w = t * W /\ W = w \div t
  <2>1. k = t * (k \div t) /\ k \div t \in Nat
    BY <1>2, Exact
  <2>2. h = k * (h \div k) /\ h \div k \in Nat
    BY <1>2, Exact
  <2>3. w = t * (w \div t) /\ w \div t \in Nat
    BY <1>2, Exact
  <2> QED
    BY <2>1, <2>2, <2>3, Zenon
<1>4. G # 0 /\ P # 0 /\ W # 0
  <2>1. t * 0 = 0 /\ k * 0 = 0
    OBVIOUS
  <2> QED
    BY <1>1, <1>3, <2>1
<1>5. PICK m \in Nat : m = G * P
  OBVIOUS
<1>6. h = t * m
  <2>1. (t * G) * P = t * (G * P)
    OBVIOUS
  <2> QED
    BY <1>3, <1>5, <2>1
<1>7. h \div t = m
  <2>1. (t * m) \div t = m
    BY Multiple
  <2> QED
    BY <1>6, <2>1
<1>8. m \div G = P
  <2>1. (G * P) \div G = P
    BY <1>4, Multiple
  <2> QED
    BY <1>5, <2>1
<1>9. G \div G = 1
  <2>1. (G * 1) \div G = 1 /\ G * 1 = G
    BY <1>4, Multiple
  <2> QED
    BY <2>1
<1>10. /\ G \in Nat \ {0} /\ P \in Nat \ {0} /\ W \in Nat \ {0}
       /\ job.kv = job.tp * G /\ job.kv \div job.tp = G
       /\ job.heads = (job.tp * G) * P /\ job.heads \div job.kv = P
       /\ job.heads \div job.tp = G * P /\ (G * P) \div G = P /\ G \div G = 1
       /\ job.width = job.tp * W /\ job.width \div job.tp = W
  <2>1. G \in Nat \ {0} /\ P \in Nat \ {0} /\ W \in Nat \ {0}
    BY <1>4
  <2>2. job.kv = job.tp * G /\ job.kv \div job.tp = G
    BY <1>1, <1>3, Zenon
  <2>3. job.heads = (job.tp * G) * P /\ job.heads \div job.kv = P
    BY <1>1, <1>3, Zenon
  <2>4. job.heads \div job.tp = G * P /\ (G * P) \div G = P
    BY <1>1, <1>5, <1>7, <1>8, Zenon
  <2>5. job.width = job.tp * W /\ job.width \div job.tp = W
    BY <1>1, <1>3, Zenon
  <2> QED
    BY <1>9, <2>1, <2>2, <2>3, <2>4, <2>5, Zenon
<1> QED
  BY <1>10, Zenon

LEMMA RankFacts ==
    ASSUME job \in Jobs
    PROVE  /\ StageSize \in Nat \ {0} /\ Ranks \subseteq Nat
           /\ \A r \in Ranks : /\ Tp(r) \in 0 .. job.tp - 1 /\ Cp(r) \in 0 .. job.cp - 1
                               /\ Dp(r) \in 0 .. job.dp - 1 /\ Pp(r) \in 0 .. job.pp - 1
<1>1. PICK t \in Nat \ {0}, c \in Nat \ {0}, d \in Nat \ {0}, p \in Nat \ {0} :
          t = job.tp /\ c = job.cp /\ d = job.dp /\ p = job.pp
  BY JobFacts
<1>2. PICK u \in Nat \ {0} : u = t * c
  OBVIOUS
<1>3. PICK s \in Nat \ {0} : s = u * d
  OBVIOUS
<1>4. StageSize = s
  BY <1>1, <1>2, <1>3 DEF StageSize
<1>5. PICK w \in Nat \ {0} : w = s * p
  OBVIOUS
<1>6. Ranks = 0 .. w - 1
  BY <1>1, <1>4, <1>5 DEF Ranks
<1>7. ASSUME NEW r \in Ranks
      PROVE  /\ Tp(r) \in 0 .. job.tp - 1 /\ Cp(r) \in 0 .. job.cp - 1
             /\ Dp(r) \in 0 .. job.dp - 1 /\ Pp(r) \in 0 .. job.pp - 1
  <2>1. r \in Nat /\ r < s * p
    BY <1>5, <1>6
  <2>2. r % t \in 0 .. t - 1
    BY <2>1
  <2>3. (r \div t) % c \in 0 .. c - 1
    BY <2>1
  <2>4. (r \div u) % d \in 0 .. d - 1
    BY <2>1
  <2>5. r \div s \in 0 .. p - 1
    <3>1. PICK q \in Nat, x \in 0 .. s - 1 : q = r \div s /\ r = q * s + x
      BY <2>1, Division
    <3>2. q < p
      <4> SUFFICES ASSUME q >= p PROVE FALSE
        OBVIOUS
      <4>1. PICK a \in Nat : a = (q - p) * s
        <5>1. q - p \in Nat
          OBVIOUS
        <5> QED
          BY <5>1
      <4>2. q * s = s * p + a
        BY <4>1
      <4> QED
        BY <2>1, <3>1, <4>2, <1>5
    <3> QED
      BY <3>1, <3>2
  <2> QED
    BY <1>1, <1>2, <1>4, <2>2, <2>3, <2>4, <2>5 DEF Tp, Cp, Dp, Pp
<1> QED
  BY <1>4, <1>6, <1>7

--------------------------------------------------------------------------------
(* Slices of the model's tensors *)

Unit(l, name, i) == <<l, IF job.tied /\ name = "lm_head" THEN "embed_tokens" ELSE name, i>>

LEMMA SliceIs ==
    ASSUME NEW l, NEW name, NEW from \in Nat, NEW n \in Nat
    PROVE  /\ IsSeq(Slice(l, name, from, n)) /\ Len(Slice(l, name, from, n)) = n
           /\ \A i \in 1 .. n : Slice(l, name, from, n)[i] = Unit(l, name, from + i)
<1> DEFINE s == Slice(l, name, from, n)
<1>1. s = [i \in 1 .. n |-> Unit(l, name, from + i)]
  BY DEF Slice, Unit
<1> HIDE DEF s
<1>2. s = [i \in 1 .. n |-> s[i]]
  BY <1>1
<1>3. IsSeq(s) /\ Len(s) = n
  BY <1>2, FunctionIsSeq
<1>4. \A i \in 1 .. n : s[i] = Unit(l, name, from + i)
  BY <1>1
<1> QED
  BY <1>3, <1>4 DEF s

LEMMA SubSlice ==
    ASSUME NEW l, NEW name, NEW from \in Nat, NEW n \in Nat, NEW a \in Nat, NEW b \in Nat, a <= b, b <= n
    PROVE  Span(Slice(l, name, from, n), a, b) = Slice(l, name, from + a, b - a)
<1> DEFINE s == Slice(l, name, from, n)
           u == Slice(l, name, from + a, b - a)
<1>1. IsSeq(s) /\ Len(s) = n /\ \A i \in 1 .. n : s[i] = Unit(l, name, from + i)
  BY SliceIs
<1>2. PICK f \in Nat, m \in Nat : f = from + a /\ m = b - a
  OBVIOUS
<1>3. IsSeq(u) /\ Len(u) = m /\ \A i \in 1 .. m : u[i] = Unit(l, name, f + i)
  <2>1. /\ IsSeq(Slice(l, name, f, m)) /\ Len(Slice(l, name, f, m)) = m
        /\ \A i \in 1 .. m : Slice(l, name, f, m)[i] = Unit(l, name, f + i)
    BY SliceIs
  <2> QED
    BY <1>2, <2>1
<1> HIDE DEF s, u
<1>4. a <= b /\ b <= Len(s) /\ b - a = m
  BY <1>1, <1>2
<1>5. /\ IsSeq(Span(s, a, b)) /\ Len(Span(s, a, b)) = b - a
      /\ \A i \in 1 .. b - a : Span(s, a, b)[i] = s[a + i]
  BY <1>1, <1>4, SpanFacts
<1>6. ASSUME NEW i \in 1 .. m PROVE Span(s, a, b)[i] = u[i]
  <2>1. a + i \in 1 .. n /\ from + (a + i) = f + i
    BY <1>2
  <2>2. s[a + i] = Unit(l, name, f + i)
    BY <1>1, <2>1
  <2> QED
    BY <1>3, <1>4, <1>5, <2>2
<1>7. Span(s, a, b) = u
  BY <1>3, <1>4, <1>5, <1>6, SameSeq
<1> QED
  BY <1>7 DEF s, u

CutsAt(l, name, from, n, m) ==
    \A i \in 0 .. n - 1 : Chunked(Slice(l, name, from, n * m), n)[i + 1] = Slice(l, name, from + i * m, m)

LEMMA AllCuts ==
    ASSUME NEW l, NEW name, NEW from \in Nat, NEW n \in Nat \ {0}, NEW m \in Nat
    PROVE  CutsAt(l, name, from, n, m)
<1> SUFFICES ASSUME NEW i \in 0 .. n - 1
             PROVE  Chunked(Slice(l, name, from, n * m), n)[i + 1] = Slice(l, name, from + i * m, m)
  BY Zenon DEF CutsAt
<1> DEFINE s == Slice(l, name, from, n * m)
<1>1. PICK size \in Nat, a \in Nat : size = n * m /\ a = i * m
  <2>1. n * m \in Nat /\ i * m \in Nat
    OBVIOUS
  <2> QED
    BY <2>1
<1>2. Len(s) = size
  <2>1. Len(Slice(l, name, from, size)) = size
    BY SliceIs
  <2> QED
    BY <1>1, <2>1
<1>3. size \div n = m
  <2>1. (n * m) \div n = m
    BY Multiple
  <2> QED
    BY <1>1, <2>1
<1>4. a + m <= size
  <2>1. i * m + m <= n * m
    <3>1. PICK c \in Nat : c = ((n - i) - 1) * m
      <4>1. (n - i) - 1 \in Nat
        OBVIOUS
      <4> QED
        BY <4>1
    <3>2. n * m = (i * m + m) + c
      BY <3>1
    <3> QED
      BY <1>1, <3>1, <3>2
  <2> QED
    BY <1>1, <2>1
<1>5. Chunked(s, n)[i + 1] = SubSeq(s, a + 1, a + m)
  <2>1. i + 1 \in 1 .. n /\ (i + 1) - 1 = i
    OBVIOUS
  <2>2. (i + 1) * m = a + m
    BY <1>1
  <2>3. Chunked(s, n)[i + 1] = SubSeq(s, ((i + 1) - 1) * (Len(s) \div n) + 1, (i + 1) * (Len(s) \div n))
    BY <2>1 DEF Chunked
  <2>4. Len(s) \div n = m
    BY <1>2, <1>3
  <2>5. Chunked(s, n)[i + 1] = SubSeq(s, i * m + 1, (i + 1) * m)
    BY <2>1, <2>3, <2>4, Zenon
  <2> QED
    BY <1>1, <2>2, <2>5, Zenon
<1>6. SubSeq(Slice(l, name, from, size), a + 1, a + m) = Slice(l, name, from + a, m)
  <2>1. PICK b \in Nat : b = a + m
    OBVIOUS
  <2>2. a <= b /\ b <= size /\ b - a = m
    BY <1>4, <2>1
  <2>3. Span(Slice(l, name, from, size), a, b) = Slice(l, name, from + a, b - a)
    BY <2>2, SubSlice
  <2> QED
    BY <2>1, <2>2, <2>3 DEF Span
<1> QED
  BY <1>1, <1>5, <1>6, Zenon

\* The slices of a tensor, one after the other, make it.
Sliced(seqs, l, name, n, m) ==
    Len(seqs) = n /\ \A i \in 0 .. n - 1 : seqs[i + 1] = Slice(l, name, i * m, m)

LEMMA SlicesMake ==
    ASSUME NEW l, NEW name, NEW n \in Nat \ {0}, NEW m \in Nat \ {0}, NEW seqs,
           Sliced(seqs, l, name, n, m)
    PROVE  FlattenSeq(seqs) = Slice(l, name, 0, n * m)
<1>0. Len(seqs) = n /\ \A i \in 0 .. n - 1 : seqs[i + 1] = Slice(l, name, i * m, m)
  BY DEF Sliced
<1> DEFINE whole == Slice(l, name, 0, n * m)
<1>1. PICK size \in Nat : size = n * m
  OBVIOUS
<1>2. IsSeq(whole) /\ Len(whole) = size /\ \A k \in 1 .. size : whole[k] = Unit(l, name, 0 + k)
  <2>1. /\ IsSeq(Slice(l, name, 0, size)) /\ Len(Slice(l, name, 0, size)) = size
        /\ \A k \in 1 .. size : Slice(l, name, 0, size)[k] = Unit(l, name, 0 + k)
    BY SliceIs
  <2> QED
    BY <1>1, <2>1
<1> HIDE DEF whole
<1>3. ASSUME NEW i \in 0 .. n - 1
      PROVE  /\ IsSeq(seqs[i + 1]) /\ Len(seqs[i + 1]) = m
             /\ \A j \in 1 .. m : whole[i * m + j] = seqs[i + 1][j]
  <2>1. PICK a \in Nat : a = i * m
    OBVIOUS
  <2>2. /\ IsSeq(Slice(l, name, a, m)) /\ Len(Slice(l, name, a, m)) = m
        /\ \A j \in 1 .. m : Slice(l, name, a, m)[j] = Unit(l, name, a + j)
    BY SliceIs
  <2>3. seqs[i + 1] = Slice(l, name, a, m)
    BY <1>0, <2>1
  <2>4. ASSUME NEW j \in 1 .. m PROVE whole[a + j] = seqs[i + 1][j]
    <3>1. i * m + j \in 1 .. n * m
      BY Within
    <3>2. a + j \in 1 .. size /\ 0 + (a + j) = a + j
      BY <1>1, <2>1, <3>1
    <3> QED
      BY <1>2, <2>2, <2>3, <3>2
  <2> QED
    BY <2>1, <2>2, <2>3, <2>4
<1>4. AllOf(seqs, n, m)
  <2>1. ASSUME NEW i \in 1 .. n PROVE IsSeq(seqs[i]) /\ Len(seqs[i]) = m
    <3>1. i - 1 \in 0 .. n - 1 /\ (i - 1) + 1 = i
      OBVIOUS
    <3> QED
      BY <1>3, <3>1
  <2> QED
    BY <2>1 DEF AllOf
<1>5. Lined(whole, seqs, n, m)
  BY <1>3 DEF Lined
<1>6. FlattenSeq(seqs) = whole
  <2>1. IsSeq(whole) /\ Len(whole) = n * m
    BY <1>1, <1>2
  <2> QED
    BY <1>0, <1>4, <1>5, <2>1, FlattenIs
<1> QED
  BY <1>6 DEF whole

\* The beginning of a sequence.
IsStart(u, w, a) == IsSeq(u) /\ Len(u) = a /\ \A i \in 1 .. a : u[i] = w[i]

LEMMA Start ==
    ASSUME NEW w, IsSeq(w), NEW a \in Nat, a <= Len(w)
    PROVE  IsStart(SubSeq(w, 0 + 1, 0 + a), w, a)
<1>1. PICK z \in Nat : z = 0
  OBVIOUS
<1>2. z <= a
  BY <1>1
<1>3. /\ IsSeq(Span(w, z, a)) /\ Len(Span(w, z, a)) = a - z
      /\ \A i \in 1 .. a - z : Span(w, z, a)[i] = w[z + i]
  BY <1>2, SpanFacts
<1>4. a - z = a /\ \A i \in 1 .. a : z + i = i
  BY <1>1
<1>5. IsStart(Span(w, z, a), w, a)
  BY <1>3, <1>4 DEF IsStart
<1>6. 0 + a = a
  OBVIOUS
<1> QED
  BY <1>1, <1>5, <1>6 DEF Span

\* Three sequences end to end, and taken apart.
Parted(w, s, t, u, a, b, c) ==
    /\ IsSeq(w) /\ Len(w) = a + b + c
    /\ SubSeq(w, 0 + 1, 0 + a) = s
    /\ SubSeq(w, a + 1, a + b) = t
    /\ SubSeq(w, a + b + 1, a + b + c) = u

SizedSeq(s, a) == IsSeq(s) /\ Len(s) = a

LEMMA ThreeParts ==
    ASSUME NEW s, NEW t, NEW u, NEW a \in Nat, NEW b \in Nat, NEW c \in Nat,
           SizedSeq(s, a), SizedSeq(t, b), SizedSeq(u, c)
    PROVE  Parted(s \o t \o u, s, t, u, a, b, c)
<1>0. IsSeq(s) /\ IsSeq(t) /\ IsSeq(u) /\ Len(s) = a /\ Len(t) = b /\ Len(u) = c
  BY DEF SizedSeq
<1>1. PICK v : v = s \o t
  OBVIOUS
<1>2. /\ IsSeq(v) /\ Len(v) = a + b
      /\ \A i \in 1 .. a : v[i] = s[i]
      /\ \A i \in 1 .. b : v[a + i] = t[i]
  <2>1. /\ IsSeq(s \o t) /\ Len(s \o t) = Len(s) + Len(t)
        /\ \A i \in 1 .. Len(s) : (s \o t)[i] = s[i]
        /\ \A i \in 1 .. Len(t) : (s \o t)[Len(s) + i] = t[i]
    BY <1>0, ConcatFacts
  <2> QED
    BY <1>0, <1>1, <2>1
<1>3. PICK w : w = v \o u
  OBVIOUS
<1>4. PICK ab \in Nat, abc \in Nat : ab = a + b /\ abc = a + b + c
  OBVIOUS
<1>5. /\ IsSeq(w) /\ Len(w) = abc
      /\ \A i \in 1 .. ab : w[i] = v[i]
      /\ \A i \in 1 .. c : w[ab + i] = u[i]
  <2>1. /\ IsSeq(w) /\ Len(w) = Len(v) + Len(u)
        /\ \A i \in 1 .. Len(v) : w[i] = v[i]
        /\ \A i \in 1 .. Len(u) : w[Len(v) + i] = u[i]
    <3>1. IsSeq(v)
      BY <1>2
    <3>2. IsSeq(u)
      BY <1>0
    <3> QED
      BY <1>3, <3>1, <3>2, ConcatFacts
  <2> QED
    BY <1>0, <1>2, <1>4, <2>1
<1>6 SubSeq(w, 0 + 1, 0 + a) = s
  <2>1. a <= Len(w) /\ IsSeq(w)
    BY <1>4, <1>5
  <2>2. IsStart(SubSeq(w, 0 + 1, 0 + a), w, a)
    BY <2>1, Start
  <2>3. \A i \in 1 .. a : w[i] = s[i]
    BY <1>2, <1>4, <1>5
  <2> QED
    BY <2>2, <2>3, <1>0, SameSeq DEF IsStart
<1>7. Span(w, a, ab) = t
  <2>1. a <= ab /\ ab <= Len(w) /\ ab - a = b
    BY <1>4, <1>5
  <2>2. /\ IsSeq(Span(w, a, ab)) /\ Len(Span(w, a, ab)) = ab - a
        /\ \A i \in 1 .. ab - a : Span(w, a, ab)[i] = w[a + i]
    <3>1. IsSeq(w)
      BY <1>5
    <3> QED
      BY <2>1, <3>1, SpanFacts
  <2>3. ASSUME NEW i \in 1 .. b PROVE Span(w, a, ab)[i] = t[i]
    <3>1. a + i \in 1 .. ab
      BY <1>4
    <3> QED
      BY <1>2, <1>5, <2>1, <2>2, <3>1
  <2> QED
    BY <2>1, <2>2, <2>3, <1>0, SameSeq
<1>8. Span(w, ab, abc) = u
  <2>1. ab <= abc /\ abc <= Len(w) /\ abc - ab = c
    BY <1>4, <1>5
  <2>2. /\ IsSeq(Span(w, ab, abc)) /\ Len(Span(w, ab, abc)) = abc - ab
        /\ \A i \in 1 .. abc - ab : Span(w, ab, abc)[i] = w[ab + i]
    <3>1. IsSeq(w)
      BY <1>5
    <3> QED
      BY <2>1, <3>1, SpanFacts
  <2>3. \A i \in 1 .. c : Span(w, ab, abc)[i] = u[i]
    BY <1>5, <2>1, <2>2
  <2> QED
    BY <2>1, <2>2, <2>3, <1>0, SameSeq
<1>9. s \o t \o u = w
  BY <1>1, <1>3
<1>10. SubSeq(w, a + 1, a + b) = t /\ SubSeq(w, a + b + 1, a + b + c) = u
  BY <1>4, <1>7, <1>8 DEF Span
<1> QED
  BY <1>4, <1>5, <1>6, <1>9, <1>10 DEF Parted

PartedInTwo(w, s, t, a, b) ==
    IsSeq(w) /\ Len(w) = a + b /\ SubSeq(w, 0 + 1, 0 + a) = s /\ SubSeq(w, a + 1, a + b) = t

LEMMA SliceSized ==
    ASSUME NEW l, NEW name, NEW from \in Nat, NEW n \in Nat
    PROVE  SizedSeq(Slice(l, name, from, n), n)
BY SliceIs DEF SizedSeq

LEMMA TwoParts ==
    ASSUME NEW s, NEW t, NEW a \in Nat, NEW b \in Nat, SizedSeq(s, a), SizedSeq(t, b)
    PROVE  PartedInTwo(s \o t, s, t, a, b)
<1>0. IsSeq(s) /\ IsSeq(t) /\ Len(s) = a /\ Len(t) = b
  BY DEF SizedSeq
<1>1. PICK v : v = s \o t
  OBVIOUS
<1>2. PICK ab \in Nat : ab = a + b
  OBVIOUS
<1>3. /\ IsSeq(v) /\ Len(v) = ab
      /\ \A i \in 1 .. a : v[i] = s[i]
      /\ \A i \in 1 .. b : v[a + i] = t[i]
  BY <1>0, <1>1, <1>2, ConcatFacts
<1>4 SubSeq(v, 0 + 1, 0 + a) = s
  <2>1. a <= Len(v) /\ IsSeq(v)
    BY <1>2, <1>3
  <2>2. IsStart(SubSeq(v, 0 + 1, 0 + a), v, a)
    BY <2>1, Start
  <2> QED
    BY <1>3, <2>2, <1>0, SameSeq DEF IsStart
<1>5. Span(v, a, ab) = t
  <2>1. a <= ab /\ ab <= Len(v) /\ ab - a = b
    BY <1>2, <1>3
  <2>2. /\ IsSeq(Span(v, a, ab)) /\ Len(Span(v, a, ab)) = ab - a
        /\ \A i \in 1 .. ab - a : Span(v, a, ab)[i] = v[a + i]
    <3>1. IsSeq(v)
      BY <1>3
    <3> QED
      BY <2>1, <3>1, SpanFacts
  <2>3. \A i \in 1 .. b : Span(v, a, ab)[i] = t[i]
    BY <1>3, <2>1, <2>2
  <2> QED
    BY <2>1, <2>2, <2>3, <1>0, SameSeq
<1>6. SubSeq(v, a + 1, a + b) = t
  BY <1>2, <1>5 DEF Span
<1> QED
  BY <1>1, <1>2, <1>3, <1>4, <1>6 DEF PartedInTwo

--------------------------------------------------------------------------------
(* The shards of a part of the model *)

AllParts == Range(Parts) \union {"embedding", "final_layernorm", "output_layer"}
Plain    == {"o_proj", "down_proj", "embedding", "output_layer"}

\* Query group g, and share t of gate and up.
QueryGroup(l, g) ==
    Slice(l, "q_proj", g * (job.heads \div job.kv), job.heads \div job.kv)
        \o Slice(l, "k_proj", g, 1) \o Slice(l, "v_proj", g, 1)

GateUp(l, t) ==
    Slice(l, "gate_proj", t * (job.width \div job.tp), job.width \div job.tp)
        \o Slice(l, "up_proj", t * (job.width \div job.tp), job.width \div job.tp)

\* What tensor rank t has of a part of layer l.
ShardOf(part, l, t) ==
    CASE part = "qkv" -> FlattenSeq([n \in 1 .. job.kv \div job.tp |->
                                        QueryGroup(l, t * (job.kv \div job.tp) + n - 1)])
      [] part = "gate_up" -> GateUp(l, t)
      [] part \in Norms -> Full(l, InHF(part)[1])
      [] OTHER -> Slice(l, InHF(part)[1], t * (Units(InHF(part)[1]) \div job.tp),
                        Units(InHF(part)[1]) \div job.tp)

\* The layer a parameter of stage p belongs to.
OwnLayer(p, x) == IF x[3] \in Range(Parts) THEN LayerOf(p, x[1], x[2]) ELSE 0

\* The tensors of the HF model that a part of layer l stands for.
Whole(part, l) == [n \in 1 .. Len(InHF(part)) |-> Full(l, InHF(part)[n])]

LEMMA PartsAre ==
    Range(Parts) = {"input_layernorm", "qkv", "o_proj", "post_attention_layernorm", "gate_up", "down_proj"}
<1>1. DOMAIN Parts = 1 .. 6
  BY DEF Parts
<1>2. 1 .. 6 = {1, 2, 3, 4, 5, 6}
  OBVIOUS
<1>3. Range(Parts) = {Parts[i] : i \in {1, 2, 3, 4, 5, 6}}
  BY <1>1, <1>2 DEF Range
<1> QED
  BY <1>3 DEF Parts

LEMMA UnitsAre ==
    /\ Units("q_proj") = job.heads /\ Units("k_proj") = job.kv /\ Units("v_proj") = job.kv
    /\ Units("gate_proj") = job.width /\ Units("up_proj") = job.width /\ Units("o_proj") = job.heads
    /\ Units("down_proj") = job.width /\ Units("embed_tokens") = job.width
    /\ Units("lm_head") = job.width
    /\ Units("input_layernorm") = 1 /\ Units("post_attention_layernorm") = 1 /\ Units("norm") = 1
BY DEF Units, Norms

LEMMA InHFAre ==
    /\ InHF("qkv") = <<"q_proj", "k_proj", "v_proj">> /\ InHF("gate_up") = <<"gate_proj", "up_proj">>
    /\ InHF("o_proj") = <<"o_proj">> /\ InHF("down_proj") = <<"down_proj">>
    /\ InHF("embedding") = <<"embed_tokens">> /\ InHF("output_layer") = <<"lm_head">>
    /\ InHF("input_layernorm") = <<"input_layernorm">>
    /\ InHF("post_attention_layernorm") = <<"post_attention_layernorm">>
    /\ InHF("final_layernorm") = <<"norm">>
BY DEF InHF

LEMMA PlainFacts ==
    ASSUME job \in Jobs, NEW part \in Plain
    PROVE  /\ part \notin Norms /\ part # "qkv" /\ part # "gate_up"
           /\ InHF(part) = <<InHF(part)[1]>>
           /\ \E m \in Nat \ {0} : /\ Units(InHF(part)[1]) = job.tp * m
                                   /\ Units(InHF(part)[1]) \div job.tp = m
<1>1. part \notin Norms /\ part # "qkv" /\ part # "gate_up"
  BY DEF Plain, Norms
<1>2. InHF(part) = <<InHF(part)[1]>> /\ Units(InHF(part)[1]) \in {job.heads, job.width}
  BY InHFAre, UnitsAre DEF Plain
<1>3. PICK G, P, W \in Nat \ {0} :
        /\ job.heads = (job.tp * G) * P /\ job.heads \div job.tp = G * P
        /\ job.width = job.tp * W /\ job.width \div job.tp = W
  BY Sizes
<1>4. PICK m \in Nat \ {0} : m = G * P
  OBVIOUS
<1>5. job.heads = job.tp * m
  <2>1. PICK t \in Nat : t = job.tp
    BY JobFacts
  <2>2. (t * G) * P = t * (G * P)
    OBVIOUS
  <2> QED
    BY <1>3, <1>4, <2>1, <2>2, Zenon
<1>6. job.heads \div job.tp = m
  BY <1>3, <1>4, Zenon
<1> QED
  BY <1>1, <1>2, <1>3, <1>4, <1>5, <1>6

LEMMA ShardsAre ==
    ASSUME NEW l, NEW t
    PROVE  /\ ShardOf("qkv", l, t) = FlattenSeq([n \in 1 .. job.kv \div job.tp |->
                                        QueryGroup(l, t * (job.kv \div job.tp) + n - 1)])
           /\ ShardOf("gate_up", l, t) = GateUp(l, t)
<1>1. ShardOf("qkv", l, t) = FlattenSeq([n \in 1 .. job.kv \div job.tp |->
                                QueryGroup(l, t * (job.kv \div job.tp) + n - 1)])
  BY DEF ShardOf, Norms
<1>2. ShardOf("gate_up", l, t) = GateUp(l, t)
  BY DEF ShardOf, Norms
<1> QED
  BY <1>1, <1>2

LEMMA RightIs ==
    ASSUME NEW r, NEW x
    PROVE  RightTensor(r, x) = ShardOf(x[3], OwnLayer(Pp(r), x), Tp(r))
BY UnitsAre DEF RightTensor, ShardOf, OwnLayer, QueryGroup, GateUp, Share

\* The loader cuts a tensor where Megatron's modules expect it.
LEMMA LoadedIs ==
    ASSUME job \in Jobs, NEW part \in AllParts, NEW l, NEW t \in 0 .. job.tp - 1
    PROVE  LoadedShard([layer |-> l, part |-> part], t) = ShardOf(part, l, t)
<1> DEFINE item == [layer |-> l, part |-> part]
           hf == [n \in 1 .. Len(InHF(item.part)) |-> Full(item.layer, InHF(item.part)[n])]
<1>1. item.part = part /\ item.layer = l
  OBVIOUS
<1>2. /\ part = "qkv" => LoadedShard(item, t) = QKVShard(hf[1], hf[2], hf[3], t)
      /\ part = "gate_up" =>
            LoadedShard(item, t) = Chunked(hf[1], job.tp)[t + 1] \o Chunked(hf[2], job.tp)[t + 1]
      /\ part \in Norms => LoadedShard(item, t) = hf[1]
      /\ part \notin Norms /\ part # "qkv" /\ part # "gate_up" =>
            LoadedShard(item, t) = Chunked(hf[1], job.tp)[t + 1]
  <2>1. part = "qkv" => LoadedShard(item, t) = QKVShard(hf[1], hf[2], hf[3], t)
    BY <1>1 DEF LoadedShard, Norms
  <2>2. part = "gate_up" =>
            LoadedShard(item, t) = Chunked(hf[1], job.tp)[t + 1] \o Chunked(hf[2], job.tp)[t + 1]
    BY <1>1 DEF LoadedShard, Norms
  <2>3. part \in Norms => LoadedShard(item, t) = hf[1]
    BY <1>1 DEF LoadedShard, Norms
  <2>4. part \notin Norms /\ part # "qkv" /\ part # "gate_up" =>
            LoadedShard(item, t) = Chunked(hf[1], job.tp)[t + 1]
    BY <1>1 DEF LoadedShard, Norms
  <2> QED
    BY <2>1, <2>2, <2>3, <2>4
<1>3. PICK tp \in Nat \ {0} : tp = job.tp
  BY JobFacts
<1>4. PICK G, P, W \in Nat \ {0} :
              /\ job.kv = job.tp * G /\ job.kv \div job.tp = G
              /\ job.heads = (job.tp * G) * P /\ job.heads \div job.kv = P
              /\ job.heads \div job.tp = G * P /\ (G * P) \div G = P /\ G \div G = 1
              /\ job.width = job.tp * W /\ job.width \div job.tp = W
  BY Sizes
<1>5. CASE part = "qkv"
  <2>1. hf[1] = Full(l, "q_proj") /\ hf[2] = Full(l, "k_proj") /\ hf[3] = Full(l, "v_proj")
    BY <1>1, <1>5, InHFAre
  <2>2. PICK m \in Nat \ {0} : m = G * P
    OBVIOUS
  <2>3. /\ Full(l, "q_proj") = Slice(l, "q_proj", 0, tp * m)
        /\ Full(l, "k_proj") = Slice(l, "k_proj", 0, tp * G)
        /\ Full(l, "v_proj") = Slice(l, "v_proj", 0, tp * G)
    <3>1. (tp * G) * P = tp * (G * P)
      OBVIOUS
    <3>2. Units("q_proj") = tp * m /\ Units("k_proj") = tp * G /\ Units("v_proj") = tp * G
      BY <1>3, <1>4, <2>2, <3>1, UnitsAre, Zenon
    <3> QED
      BY <3>2 DEF Full
  <2>4. PICK a \in Nat, b \in Nat : a = t * m /\ b = t * G
    <3>1. t \in Nat /\ t * m \in Nat /\ t * G \in Nat
      BY <1>3
    <3> QED
      BY <3>1
  <2>5. ASSUME NEW n \in 1 .. G
        PROVE  /\ Chunked(Chunked(Full(l, "q_proj"), tp)[t + 1], G)[n] = Slice(l, "q_proj", (b + n - 1) * P, P)
               /\ Chunked(Chunked(Full(l, "k_proj"), tp)[t + 1], G)[n] = Slice(l, "k_proj", b + n - 1, 1)
               /\ Chunked(Chunked(Full(l, "v_proj"), tp)[t + 1], G)[n] = Slice(l, "v_proj", b + n - 1, 1)
    <3>1. t \in 0 .. tp - 1
      BY <1>3
    <3>2. PICK i \in 0 .. G - 1 : n = i + 1
      <4>1. n - 1 \in 0 .. G - 1 /\ n = (n - 1) + 1
        OBVIOUS
      <4> QED
        BY <4>1
    <3>3. /\ Chunked(Slice(l, "q_proj", 0, tp * m), tp)[t + 1] = Slice(l, "q_proj", 0 + t * m, m)
          /\ Chunked(Slice(l, "k_proj", 0, tp * G), tp)[t + 1] = Slice(l, "k_proj", 0 + t * G, G)
          /\ Chunked(Slice(l, "v_proj", 0, tp * G), tp)[t + 1] = Slice(l, "v_proj", 0 + t * G, G)
      <4>1. CutsAt(l, "q_proj", 0, tp, m) /\ CutsAt(l, "k_proj", 0, tp, G) /\ CutsAt(l, "v_proj", 0, tp, G)
        BY AllCuts
      <4> QED
        BY <3>1, <4>1 DEF CutsAt
    <3>4. /\ Chunked(Slice(l, "q_proj", a, G * P), G)[i + 1] = Slice(l, "q_proj", a + i * P, P)
          /\ Chunked(Slice(l, "k_proj", b, G * 1), G)[i + 1] = Slice(l, "k_proj", b + i * 1, 1)
          /\ Chunked(Slice(l, "v_proj", b, G * 1), G)[i + 1] = Slice(l, "v_proj", b + i * 1, 1)
      <4>1. CutsAt(l, "q_proj", a, G, P) /\ CutsAt(l, "k_proj", b, G, 1) /\ CutsAt(l, "v_proj", b, G, 1)
        BY AllCuts
      <4> QED
        BY <4>1 DEF CutsAt
    <3>5. G * 1 = G /\ b + i * 1 = b + n - 1 /\ 0 + t * m = a /\ 0 + t * G = b
      BY <2>4, <3>2
    <3>6. a + i * P = (b + n - 1) * P
      <4>1. b + n - 1 = b + i /\ t \in Nat
        BY <1>3, <3>2
      <4>2. (t * G + i) * P = t * (G * P) + i * P
        BY <4>1
      <4> QED
        BY <2>2, <2>4, <4>1, <4>2, Zenon
    <3> QED
      BY <2>2, <2>3, <3>2, <3>3, <3>4, <3>5, <3>6, Zenon
  <2> DEFINE groups == [n \in 1 .. G |-> QueryGroup(l, b + n - 1)]
             shard(s) == Chunked(Chunked(s, tp)[t + 1], G)
  <2>6. QKVShard(hf[1], hf[2], hf[3], t) = FlattenSeq(groups)
    <3>1. QKVShard(hf[1], hf[2], hf[3], t)
            = FlattenSeq([n \in 1 .. G |-> shard(hf[1])[n] \o shard(hf[2])[n] \o shard(hf[3])[n]])
      <4>1. PICK g : g = job.kv \div job.tp
        OBVIOUS
      <4>2. QKVShard(hf[1], hf[2], hf[3], t)
              = FlattenSeq([n \in 1 .. g |-> Chunked(Chunked(hf[1], job.tp)[t + 1], g)[n]
                                               \o Chunked(Chunked(hf[2], job.tp)[t + 1], g)[n]
                                               \o Chunked(Chunked(hf[3], job.tp)[t + 1], g)[n]])
        BY <4>1 DEF QKVShard
      <4>3. g = G
        BY <1>4, <4>1
      <4> HIDE DEF hf
      <4> QED
        BY <1>3, <4>2, <4>3
    <3> HIDE DEF hf
    <3>2. ASSUME NEW n \in 1 .. G
          PROVE  shard(hf[1])[n] \o shard(hf[2])[n] \o shard(hf[3])[n] = QueryGroup(l, b + n - 1)
      BY <1>4, <2>1, <2>5, Zenon DEF QueryGroup
    <3>3. [n \in 1 .. G |-> shard(hf[1])[n] \o shard(hf[2])[n] \o shard(hf[3])[n]] = groups
      BY <3>2, Zenon
    <3> QED
      BY <3>1, <3>3, Zenon
  <2>7. ShardOf("qkv", l, t) = FlattenSeq(groups)
    <3>1. PICK g : g = job.kv \div job.tp
      OBVIOUS
    <3>2. ShardOf("qkv", l, t) = FlattenSeq([n \in 1 .. g |-> QueryGroup(l, t * g + n - 1)])
      BY <3>1, ShardsAre
    <3>3. g = G /\ t * g = b
      BY <1>4, <2>4, <3>1
    <3> QED
      BY <3>2, <3>3
  <2> HIDE DEF hf, groups
  <2> QED
    BY <1>2, <1>5, <2>6, <2>7
<1>6. CASE part = "gate_up"
  <2>1. hf[1] = Full(l, "gate_proj") /\ hf[2] = Full(l, "up_proj")
    BY <1>1, <1>6, InHFAre
  <2>2. /\ Full(l, "gate_proj") = Slice(l, "gate_proj", 0, tp * W)
        /\ Full(l, "up_proj") = Slice(l, "up_proj", 0, tp * W)
    BY <1>3, <1>4, UnitsAre DEF Full
  <2>3. t \in 0 .. tp - 1
    BY <1>3
  <2>4. /\ Chunked(Slice(l, "gate_proj", 0, tp * W), tp)[t + 1] = Slice(l, "gate_proj", 0 + t * W, W)
        /\ Chunked(Slice(l, "up_proj", 0, tp * W), tp)[t + 1] = Slice(l, "up_proj", 0 + t * W, W)
    <3>1. CutsAt(l, "gate_proj", 0, tp, W) /\ CutsAt(l, "up_proj", 0, tp, W)
      BY AllCuts
    <3> QED
      BY <2>3, <3>1 DEF CutsAt
  <2>5. 0 + t * W = t * W
    BY <1>3
  <2>6. ShardOf("gate_up", l, t) = Slice(l, "gate_proj", t * W, W) \o Slice(l, "up_proj", t * W, W)
    BY <1>4, ShardsAre, Zenon DEF GateUp
  <2>7. LoadedShard(item, t) = Chunked(hf[1], tp)[t + 1] \o Chunked(hf[2], tp)[t + 1]
    <3> HIDE DEF hf, item
    <3> QED
      BY <1>2, <1>3, <1>6, Zenon
  <2> HIDE DEF hf, item
  <2>8. LoadedShard(item, t) = Slice(l, "gate_proj", t * W, W) \o Slice(l, "up_proj", t * W, W)
    BY <2>1, <2>2, <2>4, <2>5, <2>7, Zenon
  <2> QED
    BY <1>6, <2>6, <2>8 DEF item
<1>7. CASE part \in Norms
  <2>1. part # "qkv" /\ part # "gate_up"
    BY <1>7 DEF Norms
  <2>2. hf[1] = Full(l, InHF(part)[1])
    BY <1>1, <1>7, InHFAre DEF Norms
  <2> QED
    BY <1>2, <1>7, <2>1, <2>2 DEF ShardOf
<1>8. CASE part \in Plain
  <2>1. part \notin Norms /\ part # "qkv" /\ part # "gate_up" /\ InHF(part) = <<InHF(part)[1]>>
    BY <1>8, PlainFacts
  <2>2. PICK name : name = InHF(part)[1]
    OBVIOUS
  <2>3. PICK m \in Nat \ {0} : Units(name) = tp * m /\ Units(name) \div job.tp = m
    BY <1>3, <1>8, <2>2, PlainFacts
  <2>4. hf[1] = Slice(l, name, 0, tp * m)
    <3>1. InHF(part) = <<name>>
      BY <2>1, <2>2
    <3>2. hf[1] = Full(l, name)
      BY <1>1, <3>1
    <3> HIDE DEF hf
    <3> QED
      BY <2>3, <3>2 DEF Full
  <2>5. t \in 0 .. tp - 1
    BY <1>3
  <2>6. Chunked(Slice(l, name, 0, tp * m), tp)[t + 1] = Slice(l, name, 0 + t * m, m)
    <3>1. CutsAt(l, name, 0, tp, m)
      BY AllCuts
    <3> QED
      BY <2>5, <3>1 DEF CutsAt
  <2>7. 0 + t * m = t * m
    BY <1>3
  <2>8. ShardOf(part, l, t) = Slice(l, name, t * m, m)
    BY <2>1, <2>2, <2>3 DEF ShardOf
  <2>9. LoadedShard(item, t) = Chunked(hf[1], tp)[t + 1]
    BY <1>2, <1>3, <2>1
  <2> HIDE DEF hf, item
  <2>10. LoadedShard(item, t) = Slice(l, name, t * m, m)
    BY <2>4, <2>6, <2>7, <2>9, Zenon
  <2> QED
    BY <2>8, <2>10 DEF item
<1>9. part \in {"qkv", "gate_up"} \union Norms \union Plain
  BY PartsAre DEF AllParts, Norms, Plain
<1> QED
  BY <1>5, <1>6, <1>7, <1>8, <1>9

--------------------------------------------------------------------------------
(* The shards put together *)

Piece(chunks, from, size) ==
    FlattenSeq([c \in 1 .. Len(chunks) |-> SubSeq(chunks[c], from + 1, from + size)])

LEMMA PiecesThree ==
    ASSUME NEW chunks, NEW a \in Nat, NEW b \in Nat, NEW c \in Nat
    PROVE  Pieces(chunks, <<a, b, c>>) = <<Piece(chunks, 0, a), Piece(chunks, a, b), Piece(chunks, a + b, c)>>
<1> DEFINE sizes == <<a, b, c>>
           Is(f) == f = [i \in 1 .. Len(sizes) |-> IF i = 1 THEN 0 ELSE f[i - 1] + sizes[i - 1]]
           before == CHOOSE f : Is(f)
           known == [i \in 1 .. 3 |-> IF i = 1 THEN 0 ELSE IF i = 2 THEN a ELSE a + b]
<1>1. Len(sizes) = 3 /\ sizes[1] = a /\ sizes[2] = b /\ sizes[3] = c
  OBVIOUS
<1>2. Is(known)
  <2>1. ASSUME NEW i \in 1 .. 3 PROVE known[i] = IF i = 1 THEN 0 ELSE known[i - 1] + sizes[i - 1]
    <3>1. i = 1 \/ i = 2 \/ i = 3
      OBVIOUS
    <3>2. known[1] = 0 /\ known[2] = a /\ known[3] = a + b
      OBVIOUS
    <3> HIDE DEF known
    <3> QED
      BY <1>1, <3>1, <3>2
  <2> QED
    BY <1>1, <2>1
<1>3. Is(before)
  <2> HIDE DEF Is, known
  <2> QED
    BY <1>2
<1>4. Pieces(chunks, sizes) =
        [i \in 1 .. Len(sizes) |->
            FlattenSeq([d \in 1 .. Len(chunks) |->
                SubSeq(chunks[d], before[i] + 1, before[i] + sizes[i])])]
  BY DEF Pieces
<1> HIDE DEF before
<1>5. before = [i \in 1 .. 3 |-> IF i = 1 THEN 0 ELSE before[i - 1] + sizes[i - 1]]
  BY <1>1, <1>3
<1>6. before[1] = 0 /\ before[2] = a /\ before[3] = a + b
  <2>1. before[1] = 0
    BY <1>5
  <2>2. before[2] = before[1] + sizes[1]
    <3>1. 2 \in 1 .. 3 /\ 2 # 1 /\ 2 - 1 = 1
      OBVIOUS
    <3>2. before[2] = before[2 - 1] + sizes[2 - 1]
      BY <1>5, <3>1
    <3> QED
      BY <3>1, <3>2
  <2>3. before[3] = before[2] + sizes[2]
    <3>1. 3 \in 1 .. 3 /\ 3 # 1 /\ 3 - 1 = 2
      OBVIOUS
    <3>2. before[3] = before[3 - 1] + sizes[3 - 1]
      BY <1>5, <3>1
    <3> QED
      BY <3>1, <3>2
  <2> QED
    BY <1>1, <2>1, <2>2, <2>3
<1> HIDE DEF sizes
<1>7. Pieces(chunks, sizes) = [i \in 1 .. 3 |-> Piece(chunks, before[i], sizes[i])]
  BY <1>1, <1>4 DEF Piece
<1>8. Pieces(chunks, sizes) = <<Piece(chunks, 0, a), Piece(chunks, a, b), Piece(chunks, a + b, c)>>
  BY <1>1, <1>6, <1>7
<1> QED
  BY <1>8 DEF sizes

LEMMA PiecesTwo ==
    ASSUME NEW chunks, NEW a \in Nat, NEW b \in Nat
    PROVE  Pieces(chunks, <<a, b>>) = <<Piece(chunks, 0, a), Piece(chunks, a, b)>>
<1> DEFINE sizes == <<a, b>>
           Is(f) == f = [i \in 1 .. Len(sizes) |-> IF i = 1 THEN 0 ELSE f[i - 1] + sizes[i - 1]]
           before == CHOOSE f : Is(f)
           known == [i \in 1 .. 2 |-> IF i = 1 THEN 0 ELSE a]
<1>1. Len(sizes) = 2 /\ sizes[1] = a /\ sizes[2] = b
  OBVIOUS
<1>2. Is(known)
  <2>1. ASSUME NEW i \in 1 .. 2 PROVE known[i] = IF i = 1 THEN 0 ELSE known[i - 1] + sizes[i - 1]
    <3>1. i = 1 \/ i = 2
      OBVIOUS
    <3>2. known[1] = 0 /\ known[2] = a
      OBVIOUS
    <3> HIDE DEF known
    <3> QED
      BY <1>1, <3>1, <3>2
  <2> QED
    BY <1>1, <2>1
<1>3. Is(before)
  <2> HIDE DEF Is, known
  <2> QED
    BY <1>2
<1>4. Pieces(chunks, sizes) =
        [i \in 1 .. Len(sizes) |->
            FlattenSeq([d \in 1 .. Len(chunks) |->
                SubSeq(chunks[d], before[i] + 1, before[i] + sizes[i])])]
  BY DEF Pieces
<1> HIDE DEF before
<1>5. before = [i \in 1 .. 2 |-> IF i = 1 THEN 0 ELSE before[i - 1] + sizes[i - 1]]
  BY <1>1, <1>3
<1>6. before[1] = 0 /\ before[2] = a
  <2>1. before[1] = 0
    BY <1>5
  <2>2. before[2] = before[1] + sizes[1]
    <3>1. 2 \in 1 .. 2 /\ 2 # 1 /\ 2 - 1 = 1
      OBVIOUS
    <3>2. before[2] = before[2 - 1] + sizes[2 - 1]
      BY <1>5, <3>1
    <3> QED
      BY <3>1, <3>2
  <2> QED
    BY <1>1, <2>1, <2>2
<1> HIDE DEF sizes
<1>7. Pieces(chunks, sizes) = [i \in 1 .. 2 |-> Piece(chunks, before[i], sizes[i])]
  BY <1>1, <1>4 DEF Piece
<1>8. Pieces(chunks, sizes) = <<Piece(chunks, 0, a), Piece(chunks, a, b)>>
  BY <1>1, <1>6, <1>7
<1> QED
  BY <1>8 DEF sizes

\* A piece of every chunk that is the chunk's slice of a tensor is the tensor.
HasSlices(chunks, from, l, name, n, m) ==
    /\ Len(chunks) = n
    /\ \A i \in 0 .. n - 1 : SubSeq(chunks[i + 1], from + 1, from + m) = Slice(l, name, i * m, m)

LEMMA PieceMakes ==
    ASSUME NEW chunks, NEW l, NEW name, NEW n \in Nat \ {0}, NEW m \in Nat \ {0}, NEW from,
           HasSlices(chunks, from, l, name, n, m)
    PROVE  Piece(chunks, from, m) = Slice(l, name, 0, n * m)
<1> DEFINE seqs == [c \in 1 .. n |-> SubSeq(chunks[c], from + 1, from + m)]
<1>1. Piece(chunks, from, m) = FlattenSeq(seqs)
  BY DEF Piece, HasSlices
<1>2. ASSUME NEW i \in 0 .. n - 1 PROVE seqs[i + 1] = Slice(l, name, i * m, m)
  <2>1. i + 1 \in 1 .. n
    OBVIOUS
  <2> QED
    BY <2>1 DEF HasSlices
<1>3. seqs = [c \in 1 .. n |-> seqs[c]]
  OBVIOUS
<1> HIDE DEF seqs
<1>4. Len(seqs) = n
  BY <1>3, FunctionIsSeq
<1>5. FlattenSeq(seqs) = Slice(l, name, 0, n * m)
  <2>1. Sliced(seqs, l, name, n, m)
    BY <1>2, <1>4 DEF Sliced
  <2> QED
    BY <2>1, SlicesMake
<1> QED
  BY <1>1, <1>5

LEMMA QueryGroupIs ==
    ASSUME NEW l, NEW g \in Nat, NEW P \in Nat \ {0}, P = job.heads \div job.kv
    PROVE  /\ IsSeq(QueryGroup(l, g)) /\ Len(QueryGroup(l, g)) = P + 1 + 1
           /\ SubSeq(QueryGroup(l, g), 0 + 1, 0 + P) = Slice(l, "q_proj", g * P, P)
           /\ SubSeq(QueryGroup(l, g), P + 1, P + 1) = Slice(l, "k_proj", g, 1)
           /\ SubSeq(QueryGroup(l, g), P + 1 + 1, P + 1 + 1) = Slice(l, "v_proj", g, 1)
<1>1. PICK a \in Nat : a = g * P
  OBVIOUS
<1>2. PICK s, t, u : s = Slice(l, "q_proj", a, P) /\ t = Slice(l, "k_proj", g, 1) /\ u = Slice(l, "v_proj", g, 1)
  OBVIOUS
<1>3. SizedSeq(s, P) /\ SizedSeq(t, 1) /\ SizedSeq(u, 1)
  BY <1>2, SliceSized
<1>4. Parted(s \o t \o u, s, t, u, P, 1, 1)
  BY <1>3, ThreeParts
<1>5. QueryGroup(l, g) = s \o t \o u
  BY <1>1, <1>2 DEF QueryGroup
<1> QED
  BY <1>1, <1>2, <1>4, <1>5, Zenon DEF Parted

\* All query groups, one after the other, are taken apart into the three matrices.
LEMMA GroupsMake ==
    ASSUME job \in Jobs, NEW l
    PROVE  Pieces([g \in 1 .. job.kv |-> QueryGroup(l, g - 1)], <<job.heads \div job.kv, 1, 1>>) = Whole("qkv", l)
<1> DEFINE chunks == [g \in 1 .. job.kv |-> QueryGroup(l, g - 1)]
<1>1. PICK K \in Nat \ {0}, P \in Nat \ {0} :
          K = job.kv /\ P = job.heads \div job.kv /\ job.heads = K * P
  <2>1. PICK G, P, W \in Nat \ {0} : job.kv = job.tp * G /\ job.heads = (job.tp * G) * P /\ job.heads \div job.kv = P
    BY Sizes
  <2>2. PICK K \in Nat \ {0} : K = job.kv
    BY JobFacts
  <2>3. job.heads = K * P
    BY <2>1, <2>2, Zenon
  <2> QED
    BY <2>1, <2>2, <2>3, Zenon
<1>2. chunks = [g \in 1 .. K |-> chunks[g]] /\ \A i \in 0 .. K - 1 : chunks[i + 1] = QueryGroup(l, i)
  <2>1. chunks = [g \in 1 .. K |-> QueryGroup(l, g - 1)]
    BY <1>1
  <2> HIDE DEF chunks
  <2>2. \A i \in 0 .. K - 1 : i + 1 \in 1 .. K /\ (i + 1) - 1 = i
    OBVIOUS
  <2> QED
    BY <2>1, <2>2
<1> HIDE DEF chunks
<1>3. Len(chunks) = K
  BY <1>2, FunctionIsSeq
<1>4. Pieces(chunks, <<P, 1, 1>>) = <<Piece(chunks, 0, P), Piece(chunks, P, 1), Piece(chunks, P + 1, 1)>>
  <2>1. Pieces(chunks, <<P, 1, 1>>) = <<Piece(chunks, 0, P), Piece(chunks, P, 1), Piece(chunks, P + 1, 1)>>
    <3>1. PICK b \in Nat : b = 1
      OBVIOUS
    <3>2. Pieces(chunks, <<P, b, b>>) = <<Piece(chunks, 0, P), Piece(chunks, P, b), Piece(chunks, P + b, b)>>
      BY PiecesThree
    <3> QED
      BY <3>1, <3>2
  <2> QED
    BY <2>1
<1>5. Piece(chunks, 0, P) = Full(l, "q_proj")
  <2>1. \A i \in 0 .. K - 1 : SubSeq(chunks[i + 1], 0 + 1, 0 + P) = Slice(l, "q_proj", i * P, P)
    <3>1. ASSUME NEW i \in 0 .. K - 1 PROVE SubSeq(chunks[i + 1], 0 + 1, 0 + P) = Slice(l, "q_proj", i * P, P)
      <4>1. i \in Nat
        OBVIOUS
      <4>2. SubSeq(QueryGroup(l, i), 0 + 1, 0 + P) = Slice(l, "q_proj", i * P, P)
        BY <1>1, <4>1, QueryGroupIs, Zenon
      <4> QED
        BY <1>2, <4>2, Zenon
    <3> QED
      BY <3>1
  <2>2. Piece(chunks, 0, P) = Slice(l, "q_proj", 0, K * P)
    <3>1. HasSlices(chunks, 0, l, "q_proj", K, P)
      BY <1>3, <2>1, Zenon DEF HasSlices
    <3> QED
      BY <3>1, PieceMakes
  <2> QED
    BY <1>1, <2>2, UnitsAre DEF Full
<1>6. Piece(chunks, P, 1) = Full(l, "k_proj")
  <2>1. ASSUME NEW i \in 0 .. K - 1 PROVE SubSeq(chunks[i + 1], P + 1, P + 1) = Slice(l, "k_proj", i * 1, 1)
    <3>1. i \in Nat /\ i * 1 = i
      OBVIOUS
    <3>2. SubSeq(QueryGroup(l, i), P + 1, P + 1) = Slice(l, "k_proj", i, 1)
      BY <1>1, <3>1, QueryGroupIs
    <3> QED
      BY <1>2, <3>1, <3>2
  <2>2. Piece(chunks, P, 1) = Slice(l, "k_proj", 0, K * 1)
    <3>1. HasSlices(chunks, P, l, "k_proj", K, 1)
      BY <1>3, <2>1, Zenon DEF HasSlices
    <3> QED
      BY <3>1, PieceMakes
  <2> QED
    BY <1>1, <2>2, UnitsAre DEF Full
<1>7. Piece(chunks, P + 1, 1) = Full(l, "v_proj")
  <2>1. ASSUME NEW i \in 0 .. K - 1 PROVE SubSeq(chunks[i + 1], P + 1 + 1, P + 1 + 1) = Slice(l, "v_proj", i * 1, 1)
    <3>1. i \in Nat /\ i * 1 = i
      OBVIOUS
    <3>2. SubSeq(QueryGroup(l, i), P + 1 + 1, P + 1 + 1) = Slice(l, "v_proj", i, 1)
      BY <1>1, <3>1, QueryGroupIs
    <3> QED
      BY <1>2, <3>1, <3>2
  <2>2. Piece(chunks, P + 1, 1) = Slice(l, "v_proj", 0, K * 1)
    <3>1. HasSlices(chunks, P + 1, l, "v_proj", K, 1)
      BY <1>3, <2>1, Zenon DEF HasSlices
    <3> QED
      BY <3>1, PieceMakes
  <2> QED
    BY <1>1, <2>2, UnitsAre DEF Full
<1>8. Whole("qkv", l) = <<Full(l, "q_proj"), Full(l, "k_proj"), Full(l, "v_proj")>>
  <2>1. InHF("qkv") = <<"q_proj", "k_proj", "v_proj">> /\ Len(<<"q_proj", "k_proj", "v_proj">>) = 3
    BY InHFAre
  <2>2. Whole("qkv", l) = [n \in 1 .. 3 |-> Full(l, <<"q_proj", "k_proj", "v_proj">>[n])]
    BY <2>1 DEF Whole
  <2> QED
    BY <2>2
<1>9. Pieces(chunks, <<job.heads \div job.kv, 1, 1>>) = Whole("qkv", l)
  BY <1>1, <1>4, <1>5, <1>6, <1>7, <1>8, Zenon
<1> QED
  BY <1>9 DEF chunks

\* A shard of the fused attention matrix is its query groups, each of P + 2 units.
LEMMA ShardOfGroups ==
    ASSUME job \in Jobs, NEW l, NEW t \in 0 .. job.tp - 1
    PROVE  LET G == job.kv \div job.tp
               s == ShardOf("qkv", l, t)
           IN  /\ SizedSeq(s, G * (job.heads \div job.kv + 1 + 1))
               /\ Chunked(s, G) = [n \in 1 .. G |-> QueryGroup(l, t * G + n - 1)]
<1> DEFINE G == job.kv \div job.tp
           s == ShardOf("qkv", l, t)
           groups == [n \in 1 .. G |-> QueryGroup(l, t * G + n - 1)]
<1>1. G \in Nat \ {0} /\ job.heads \div job.kv \in Nat \ {0} /\ t \in Nat
  <2>1. G \in Nat \ {0} /\ job.heads \div job.kv \in Nat \ {0}
    BY Sizes
  <2>2. t \in Nat
    BY JobFacts
  <2> QED
    BY <2>1, <2>2
<1>2. PICK P \in Nat \ {0} : P = job.heads \div job.kv
  BY <1>1
<1>3. PICK m \in Nat \ {0} : m = P + 1 + 1
  OBVIOUS
<1>4. s = FlattenSeq(groups)
  BY ShardsAre
<1> HIDE DEF s, G
<1>5. groups = [n \in 1 .. G |-> groups[n]] /\ \A n \in 1 .. G : groups[n] = QueryGroup(l, t * G + n - 1)
  OBVIOUS
<1> HIDE DEF groups
<1>6. Len(groups) = G
  BY <1>1, <1>5, FunctionIsSeq
<1>7. AllOf(groups, G, m)
  <2>1. ASSUME NEW n \in 1 .. G PROVE IsSeq(groups[n]) /\ Len(groups[n]) = m
    <3>1. PICK g \in Nat : g = t * G + n - 1
      <4>1. t * G \in Nat
        BY <1>1
      <4>2. t * G + n - 1 \in Nat
        BY <1>1, <4>1
      <4> QED
        BY <4>2
    <3>2. IsSeq(QueryGroup(l, g)) /\ Len(QueryGroup(l, g)) = P + 1 + 1
      BY <1>2, QueryGroupIs
    <3> QED
      BY <1>3, <1>5, <3>1, <3>2
  <2> QED
    BY <2>1 DEF AllOf
<1>8. IsSeq(s) /\ Len(s) = G * m
  BY <1>1, <1>4, <1>6, <1>7, EqualFlatten
<1>9. Len(s) \div G = m
  <2>1. (G * m) \div G = m
    BY <1>1, Multiple
  <2> QED
    BY <1>8, <2>1
<1>10. ASSUME NEW n \in 1 .. G PROVE SubSeq(s, (n - 1) * (Len(s) \div G) + 1, n * (Len(s) \div G)) = groups[n]
  <2>1. PICK i \in 0 .. G - 1 : i = n - 1 /\ n = i + 1
    BY <1>1
  <2>2. SubSeq(FlattenSeq(groups), i * m + 1, i * m + m) = groups[i + 1]
    BY <1>1, <1>6, <1>7, PieceOfFlat
  <2>3. n * m = i * m + m
    BY <2>1
  <2> QED
    BY <1>4, <1>9, <2>1, <2>2, <2>3, Zenon
<1>11. Chunked(s, G) = groups
  <2>1. Chunked(s, G) = [n \in 1 .. G |-> SubSeq(s, (n - 1) * (Len(s) \div G) + 1, n * (Len(s) \div G))]
    BY DEF Chunked
  <2> QED
    BY <1>5, <1>10, <2>1, Zenon
<1> QED
  BY <1>2, <1>3, <1>8, <1>11 DEF SizedSeq, s, groups, G

\* The query groups of all shards are those of the model, in order.
LEMMA AllGroups ==
    ASSUME job \in Jobs, NEW l, NEW seqs, Len(seqs) = job.tp,
           \A t \in 0 .. job.tp - 1 :
               seqs[t + 1] = [n \in 1 .. job.kv \div job.tp |-> QueryGroup(l, t * (job.kv \div job.tp) + n - 1)]
    PROVE  FlattenSeq(seqs) = [g \in 1 .. job.kv |-> QueryGroup(l, g - 1)]
<1> DEFINE whole == [g \in 1 .. job.kv |-> QueryGroup(l, g - 1)]
<1>1. PICK tp \in Nat \ {0}, G \in Nat \ {0} : tp = job.tp /\ G = job.kv \div job.tp /\ job.kv = tp * G
  <2>1. PICK H \in Nat \ {0} : job.kv = job.tp * H /\ job.kv \div job.tp = H
    BY Sizes
  <2> QED
    BY <2>1, JobFacts
<1>2. PICK K \in Nat : K = job.kv
  BY JobFacts
<1>3. whole = [g \in 1 .. K |-> whole[g]] /\ \A g \in 1 .. K : whole[g] = QueryGroup(l, g - 1)
  BY <1>2
<1> HIDE DEF whole
<1>4. IsSeq(whole) /\ Len(whole) = tp * G
  <2>1. IsSeq(whole) /\ Len(whole) = K
    BY <1>3, FunctionIsSeq
  <2> QED
    BY <1>1, <1>2, <2>1
<1>5. ASSUME NEW t \in 0 .. tp - 1
      PROVE  /\ IsSeq(seqs[t + 1]) /\ Len(seqs[t + 1]) = G
             /\ \A j \in 1 .. G : whole[t * G + j] = seqs[t + 1][j]
  <2>1. PICK u : u = seqs[t + 1]
    OBVIOUS
  <2>2. PICK a \in Nat : a = t * G
    OBVIOUS
  <2>3. u = [n \in 1 .. G |-> QueryGroup(l, a + n - 1)]
    BY <1>1, <2>1, <2>2
  <2>4. u = [n \in 1 .. G |-> u[n]]
    BY <2>3
  <2>5. IsSeq(u) /\ Len(u) = G
    BY <2>4, FunctionIsSeq
  <2>6. ASSUME NEW j \in 1 .. G PROVE whole[a + j] = u[j]
    <3>1. t * G + j \in 1 .. tp * G
      BY Within
    <3>2. a + j \in 1 .. K
      BY <1>1, <1>2, <2>2, <3>1
    <3> QED
      BY <1>3, <2>3, <3>2
  <2> QED
    BY <2>1, <2>2, <2>5, <2>6
<1>6. AllOf(seqs, tp, G)
  <2>1. ASSUME NEW i \in 1 .. tp PROVE IsSeq(seqs[i]) /\ Len(seqs[i]) = G
    <3>1. i - 1 \in 0 .. tp - 1 /\ (i - 1) + 1 = i
      OBVIOUS
    <3> QED
      BY <1>5, <3>1
  <2> QED
    BY <2>1 DEF AllOf
<1>7. Lined(whole, seqs, tp, G)
  BY <1>5 DEF Lined
<1>8. FlattenSeq(seqs) = whole
  BY <1>1, <1>4, <1>6, <1>7, FlattenIs
<1> QED
  BY <1>8 DEF whole

\* The shards of a part, and what follows of them.
Shards(part, l) == [t \in 1 .. job.tp |-> ShardOf(part, l, t - 1)]

LEMMA ShardsFacts ==
    ASSUME job \in Jobs, NEW part, NEW l
    PROVE  /\ Len(Shards(part, l)) = job.tp
           /\ \A t \in 0 .. job.tp - 1 : Shards(part, l)[t + 1] = ShardOf(part, l, t)
<1>1. PICK tp \in Nat \ {0} : tp = job.tp
  BY JobFacts
<1>2. Shards(part, l) = [t \in 1 .. tp |-> ShardOf(part, l, t - 1)]
  BY <1>1 DEF Shards
<1>3. Shards(part, l) = [t \in 1 .. tp |-> Shards(part, l)[t]]
  BY <1>2
<1>4. Len(Shards(part, l)) = tp
  BY <1>3, FunctionIsSeq
<1>5. \A t \in 0 .. tp - 1 : t + 1 \in 1 .. tp /\ (t + 1) - 1 = t
  OBVIOUS
<1> QED
  BY <1>1, <1>2, <1>4, <1>5

\* A part that is not fused.
LEMMA PlainWhole ==
    ASSUME job \in Jobs, NEW part \in Plain, NEW l
    PROVE  <<FlattenSeq(Shards(part, l))>> = Whole(part, l)
<1>1. part \notin Norms /\ part # "qkv" /\ part # "gate_up" /\ InHF(part) = <<InHF(part)[1]>>
  BY PlainFacts
<1>2. PICK name : name = InHF(part)[1]
  OBVIOUS
<1>3. PICK tp \in Nat \ {0} : tp = job.tp
  BY JobFacts
<1>4. PICK m \in Nat \ {0} : Units(name) = tp * m /\ Units(name) \div job.tp = m
  BY <1>2, <1>3, PlainFacts
<1>5. \A t : ShardOf(part, l, t) = Slice(l, name, t * m, m)
  BY <1>1, <1>2, <1>4 DEF ShardOf
<1>6. Sliced(Shards(part, l), l, name, tp, m)
  BY <1>3, <1>5, ShardsFacts DEF Sliced
<1>7. FlattenSeq(Shards(part, l)) = Slice(l, name, 0, tp * m)
  BY <1>6, SlicesMake
<1>8. FlattenSeq(Shards(part, l)) = Full(l, name)
  BY <1>4, <1>7 DEF Full
<1>9. Whole(part, l) = <<Full(l, name)>>
  <2>1. InHF(part) = <<name>>
    BY <1>1, <1>2
  <2>2. Whole(part, l) = [n \in 1 .. 1 |-> Full(l, <<name>>[n])]
    BY <2>1 DEF Whole
  <2> QED
    BY <2>2
<1> QED
  BY <1>8, <1>9

LEMMA NormWhole ==
    ASSUME NEW part \in Norms, NEW l, NEW t
    PROVE  ShardOf(part, l, t) = Full(l, InHF(part)[1]) /\ <<ShardOf(part, l, t)>> = Whole(part, l)
<1>1. part # "qkv" /\ part # "gate_up" /\ Len(InHF(part)) = 1
  BY InHFAre DEF Norms
<1>2. ShardOf(part, l, t) = Full(l, InHF(part)[1])
  BY <1>1 DEF ShardOf
<1>3. Whole(part, l) = <<Full(l, InHF(part)[1])>>
  <2>1. Whole(part, l) = [n \in 1 .. 1 |-> Full(l, InHF(part)[n])]
    BY <1>1 DEF Whole
  <2> QED
    BY <2>1
<1> QED
  BY <1>2, <1>3

LEMMA GateUpIs ==
    ASSUME job \in Jobs, NEW l, NEW t \in Nat, NEW W \in Nat \ {0}, W = job.width \div job.tp
    PROVE  /\ SizedSeq(ShardOf("gate_up", l, t), W + W)
           /\ SubSeq(ShardOf("gate_up", l, t), 0 + 1, 0 + W) = Slice(l, "gate_proj", t * W, W)
           /\ SubSeq(ShardOf("gate_up", l, t), W + 1, W + W) = Slice(l, "up_proj", t * W, W)
<1>1. PICK a \in Nat : a = t * W
  OBVIOUS
<1>2. PICK s, u : s = Slice(l, "gate_proj", a, W) /\ u = Slice(l, "up_proj", a, W)
  OBVIOUS
<1>3. SizedSeq(s, W) /\ SizedSeq(u, W)
  BY <1>2, SliceSized
<1>4. PartedInTwo(s \o u, s, u, W, W)
  BY <1>3, TwoParts
<1>5. ShardOf("gate_up", l, t) = s \o u
  BY <1>1, <1>2, ShardsAre, Zenon DEF GateUp
<1> QED
  BY <1>1, <1>2, <1>4, <1>5, Zenon DEF PartedInTwo, SizedSeq

LEMMA GateUpMake ==
    ASSUME job \in Jobs, NEW l
    PROVE  LET W == job.width \div job.tp IN Pieces(Shards("gate_up", l), <<W, W>>) = Whole("gate_up", l)
<1>1. PICK tp \in Nat \ {0}, W \in Nat \ {0} : tp = job.tp /\ W = job.width \div job.tp /\ job.width = tp * W
  <2>1. PICK V \in Nat \ {0} : job.width = job.tp * V /\ job.width \div job.tp = V
    BY Sizes
  <2> QED
    BY <2>1, JobFacts
<1> DEFINE chunks == Shards("gate_up", l)
<1>2. Len(chunks) = tp /\ \A t \in 0 .. tp - 1 : chunks[t + 1] = ShardOf("gate_up", l, t)
  BY <1>1, ShardsFacts
<1> HIDE DEF chunks
<1>3. ASSUME NEW t \in 0 .. tp - 1
      PROVE  /\ SubSeq(chunks[t + 1], 0 + 1, 0 + W) = Slice(l, "gate_proj", t * W, W)
             /\ SubSeq(chunks[t + 1], W + 1, W + W) = Slice(l, "up_proj", t * W, W)
  <2>1. t \in Nat
    OBVIOUS
  <2>2. /\ SubSeq(ShardOf("gate_up", l, t), 0 + 1, 0 + W) = Slice(l, "gate_proj", t * W, W)
        /\ SubSeq(ShardOf("gate_up", l, t), W + 1, W + W) = Slice(l, "up_proj", t * W, W)
    BY <1>1, <2>1, GateUpIs
  <2> QED
    BY <1>2, <2>2, Zenon
<1>4. Piece(chunks, 0, W) = Full(l, "gate_proj")
  <2>1. HasSlices(chunks, 0, l, "gate_proj", tp, W)
    BY <1>2, <1>3, Zenon DEF HasSlices
  <2>2. Piece(chunks, 0, W) = Slice(l, "gate_proj", 0, tp * W)
    BY <2>1, PieceMakes
  <2> QED
    BY <1>1, <2>2, UnitsAre DEF Full
<1>5. Piece(chunks, W, W) = Full(l, "up_proj")
  <2>1. HasSlices(chunks, W, l, "up_proj", tp, W)
    BY <1>2, <1>3, Zenon DEF HasSlices
  <2>2. Piece(chunks, W, W) = Slice(l, "up_proj", 0, tp * W)
    BY <2>1, PieceMakes
  <2> QED
    BY <1>1, <2>2, UnitsAre DEF Full
<1>6. Pieces(chunks, <<W, W>>) = <<Full(l, "gate_proj"), Full(l, "up_proj")>>
  <2>1. Pieces(chunks, <<W, W>>) = <<Piece(chunks, 0, W), Piece(chunks, W, W)>>
    BY PiecesTwo
  <2> QED
    BY <1>4, <1>5, <2>1
<1>7. Whole("gate_up", l) = <<Full(l, "gate_proj"), Full(l, "up_proj")>>
  <2>1. InHF("gate_up") = <<"gate_proj", "up_proj">> /\ Len(<<"gate_proj", "up_proj">>) = 2
    BY InHFAre
  <2>2. Whole("gate_up", l) = [n \in 1 .. 2 |-> Full(l, <<"gate_proj", "up_proj">>[n])]
    BY <2>1 DEF Whole
  <2> QED
    BY <2>2
<1> QED
  BY <1>1, <1>6, <1>7 DEF chunks

\* What the engines are given for a part.
LEMMA JoinedIs ==
    ASSUME job \in Jobs, NEW part \in AllParts, part \notin Norms, NEW l
    PROVE  Joined(part, Shards(part, l)) = Whole(part, l)
<1> DEFINE shards == Shards(part, l)
<1>1. PICK tp \in Nat \ {0}, G \in Nat \ {0}, P \in Nat \ {0}, W \in Nat \ {0} :
          /\ tp = job.tp /\ G = job.kv \div job.tp /\ P = job.heads \div job.kv /\ W = job.width \div job.tp
          /\ (G * P) \div G = P /\ G \div G = 1
  BY Sizes, JobFacts
<1>2. Len(shards) = tp /\ \A t \in 0 .. tp - 1 : shards[t + 1] = ShardOf(part, l, t)
  BY <1>1, ShardsFacts
<1>3. shards[1] = ShardOf(part, l, 0)
  <2>1. 0 \in 0 .. tp - 1 /\ 0 + 1 = 1
    OBVIOUS
  <2> QED
    BY <1>2, <2>1
<1> HIDE DEF shards
<1>4. CASE part = "qkv"
  <2>1. PICK m \in Nat \ {0} : m = P + 2
    OBVIOUS
  <2>2. Len(shards[1]) \div (P + 2) = G
    <3>1. 0 \in 0 .. job.tp - 1
      BY <1>1
    <3>2. SizedSeq(ShardOf("qkv", l, 0), G * (P + 1 + 1))
      BY <1>1, <3>1, ShardOfGroups
    <3>3. P + 1 + 1 = m
      BY <2>1
    <3>4. Len(shards[1]) = G * m
      BY <1>3, <1>4, <3>2, <3>3 DEF SizedSeq
    <3>5. (m * G) \div m = G /\ m * G = G * m
      BY Multiple
    <3> QED
      BY <2>1, <3>4, <3>5
  <2> DEFINE seqs == [t \in 1 .. job.tp |-> Chunked(shards[t], G)]
  <2>3. Joined(part, shards) = Pieces(FlattenSeq(seqs), <<(G * P) \div G, G \div G, G \div G>>)
    <3>1. PICK h, g, k : h = job.heads \div job.kv /\ g = job.kv \div job.tp /\ k = Len(shards[1]) \div (h + 2)
      OBVIOUS
    <3>2. Joined(part, shards) = Pieces(FlattenSeq([t \in 1 .. job.tp |-> Chunked(shards[t], g)]),
                                        <<(k * h) \div g, k \div g, k \div g>>)
      BY <1>4, <3>1 DEF Joined
    <3>3. h = P /\ g = G /\ k = G
      BY <1>1, <2>2, <3>1
    <3> QED
      BY <3>2, <3>3
  <2>4. seqs = [t \in 1 .. tp |-> seqs[t]]
    BY <1>1
  <2>5. ASSUME NEW t \in 0 .. job.tp - 1
        PROVE  seqs[t + 1] = [n \in 1 .. G |-> QueryGroup(l, t * G + n - 1)]
    <3>1. t + 1 \in 1 .. tp /\ t \in 0 .. tp - 1
      BY <1>1
    <3>2. seqs[t + 1] = Chunked(shards[t + 1], G)
      BY <1>1, <3>1
    <3>3. shards[t + 1] = ShardOf("qkv", l, t)
      BY <1>2, <1>4, <3>1
    <3>4. Chunked(ShardOf("qkv", l, t), job.kv \div job.tp)
            = [n \in 1 .. job.kv \div job.tp |-> QueryGroup(l, t * (job.kv \div job.tp) + n - 1)]
      BY ShardOfGroups
    <3> HIDE DEF seqs
    <3> QED
      BY <1>1, <3>2, <3>3, <3>4
  <2> HIDE DEF seqs
  <2>6. Len(seqs) = job.tp
    BY <1>1, <2>4, FunctionIsSeq
  <2>7. FlattenSeq(seqs) = [g \in 1 .. job.kv |-> QueryGroup(l, g - 1)]
    <3>1. \A t \in 0 .. job.tp - 1 :
            seqs[t + 1] = [n \in 1 .. job.kv \div job.tp |-> QueryGroup(l, t * (job.kv \div job.tp) + n - 1)]
      BY <1>1, <2>5
    <3> QED
      BY <2>6, <3>1, AllGroups
  <2>8. Pieces([g \in 1 .. job.kv |-> QueryGroup(l, g - 1)], <<job.heads \div job.kv, 1, 1>>) = Whole("qkv", l)
    BY GroupsMake
  <2> QED
    BY <1>1, <1>4, <2>3, <2>7, <2>8 DEF shards
<1>5. CASE part = "gate_up"
  <2>1. Len(shards[1]) \div 2 = W
    <3>1. SizedSeq(ShardOf("gate_up", l, 0), W + W)
      BY <1>1, GateUpIs
    <3>2. Len(shards[1]) = W + W
      BY <1>3, <1>5, <3>1 DEF SizedSeq
    <3> QED
      BY <3>2
  <2>2. Joined(part, shards) = Pieces(shards, <<W, W>>)
    <3>1. PICK h : h = Len(shards[1]) \div 2
      OBVIOUS
    <3>2. Joined(part, shards) = Pieces(shards, <<h, h>>)
      BY <1>5, <3>1 DEF Joined
    <3> QED
      BY <2>1, <3>1, <3>2
  <2>3. Pieces(Shards("gate_up", l), <<W, W>>) = Whole("gate_up", l)
    BY <1>1, GateUpMake
  <2> QED
    BY <1>5, <2>2, <2>3 DEF shards
<1>6. CASE part \in Plain
  <2>1. Joined(part, shards) = <<FlattenSeq(shards)>>
    BY <1>6 DEF Joined, Plain
  <2>2. <<FlattenSeq(Shards(part, l))>> = Whole(part, l)
    BY <1>6, PlainWhole
  <2> QED
    BY <2>1, <2>2 DEF shards
<1>7. part \in {"qkv", "gate_up"} \union Plain
  BY PartsAre DEF AllParts, Norms, Plain
<1> QED
  BY <1>4, <1>5, <1>6, <1>7 DEF shards

\* What the saver puts together for a part.
LEMMA CollectedIs ==
    ASSUME job \in Jobs, NEW part \in AllParts, NEW l
    PROVE  Collected([layer |-> l, part |-> part], Shards(part, l)) = Whole(part, l)
<1> DEFINE shards == Shards(part, l)
           item == [layer |-> l, part |-> part]
<1>1. PICK tp \in Nat \ {0}, G \in Nat \ {0}, P \in Nat \ {0}, W \in Nat \ {0} :
          /\ tp = job.tp /\ G = job.kv \div job.tp /\ P = job.heads \div job.kv /\ W = job.width \div job.tp
          /\ job.heads \div job.tp = G * P /\ (G * P) \div G = P
  BY Sizes, JobFacts
<1>2. Len(shards) = tp /\ \A t \in 0 .. tp - 1 : shards[t + 1] = ShardOf(part, l, t)
  BY <1>1, ShardsFacts
<1> HIDE DEF shards
<1>3. item.part = part
  OBVIOUS
<1> HIDE DEF item
<1>4. CASE part = "qkv"
  <2>1. PICK m \in Nat \ {0} : m = G * P + 2 * G
    <3>1. G * P \in Nat /\ 2 * G \in Nat \ {0}
      OBVIOUS
    <3> QED
      BY <3>1
  <2>2. ASSUME NEW t \in 0 .. tp - 1 PROVE SizedSeq(shards[t + 1], m)
    <3>1. SizedSeq(ShardOf("qkv", l, t), G * (P + 1 + 1))
      BY <1>1, ShardOfGroups
    <3>2. G * (P + 1 + 1) = m
      BY <2>1
    <3> QED
      BY <1>2, <1>4, <3>1, <3>2
  <2>3. AllOf(shards, tp, m)
    <3>1. ASSUME NEW i \in 1 .. tp PROVE IsSeq(shards[i]) /\ Len(shards[i]) = m
      <4>1. i - 1 \in 0 .. tp - 1 /\ (i - 1) + 1 = i
        OBVIOUS
      <4> QED
        BY <2>2, <4>1 DEF SizedSeq
    <3> QED
      BY <3>1 DEF AllOf
  <2> DEFINE whole == FlattenSeq(shards)
             seqs == [i \in 1 .. job.tp |-> Chunked(SubSeq(whole, (i - 1) * m + 1, ((i - 1) + 1) * m), G)]
  <2>4. Collected(item, shards) = Pieces(FlattenSeq(seqs), <<(G * P) \div G, 1, 1>>)
    <3>1. PICK g, q, n : g = job.kv \div job.tp /\ q = job.heads \div job.tp /\ n = q + 2 * g
      OBVIOUS
    <3>2. SplitQKV(shards)
            = Pieces(FlattenSeq([i \in 1 .. job.tp |->
                                    Chunked(SubSeq(whole, (i - 1) * n + 1, ((i - 1) + 1) * n), g)]),
                     <<q \div g, 1, 1>>)
      BY <3>1 DEF SplitQKV
    <3>3. g = G /\ q = G * P /\ n = m
      BY <1>1, <2>1, <3>1
    <3>4. Collected(item, shards) = SplitQKV(shards)
      BY <1>3, <1>4 DEF Collected, Norms
    <3> QED
      BY <3>2, <3>3, <3>4
  <2>5. seqs = [t \in 1 .. tp |-> seqs[t]]
    BY <1>1
  <2>6. ASSUME NEW t \in 0 .. job.tp - 1
        PROVE  seqs[t + 1] = [n \in 1 .. G |-> QueryGroup(l, t * G + n - 1)]
    <3>1. t + 1 \in 1 .. tp /\ t \in 0 .. tp - 1 /\ (t + 1) - 1 = t
      BY <1>1
    <3>2. seqs[t + 1] = Chunked(SubSeq(whole, t * m + 1, (t + 1) * m), G)
      BY <1>1, <3>1
    <3>3. (t + 1) * m = t * m + m
      BY <3>1
    <3>4. SubSeq(whole, t * m + 1, t * m + m) = shards[t + 1]
      BY <1>2, <2>3, <3>1, PieceOfFlat
    <3>5. shards[t + 1] = ShardOf("qkv", l, t)
      BY <1>2, <1>4, <3>1
    <3>6. Chunked(ShardOf("qkv", l, t), job.kv \div job.tp)
            = [n \in 1 .. job.kv \div job.tp |-> QueryGroup(l, t * (job.kv \div job.tp) + n - 1)]
      BY ShardOfGroups
    <3> HIDE DEF seqs, whole
    <3>7. seqs[t + 1] = Chunked(ShardOf("qkv", l, t), G)
      BY <3>2, <3>3, <3>4, <3>5, Zenon
    <3> QED
      BY <1>1, <3>6, <3>7
  <2> HIDE DEF seqs
  <2>7. Len(seqs) = job.tp
    BY <1>1, <2>5, FunctionIsSeq
  <2>8. FlattenSeq(seqs) = [g \in 1 .. job.kv |-> QueryGroup(l, g - 1)]
    <3>1. \A t \in 0 .. job.tp - 1 :
            seqs[t + 1] = [n \in 1 .. job.kv \div job.tp |-> QueryGroup(l, t * (job.kv \div job.tp) + n - 1)]
      BY <1>1, <2>6
    <3> QED
      BY <2>7, <3>1, AllGroups
  <2>9. Pieces([g \in 1 .. job.kv |-> QueryGroup(l, g - 1)], <<job.heads \div job.kv, 1, 1>>) = Whole("qkv", l)
    BY GroupsMake
  <2> QED
    BY <1>1, <1>4, <2>4, <2>8, <2>9 DEF shards, item
<1>5. CASE part = "gate_up"
  <2>1. PICK m \in Nat \ {0} : m = W + W
    OBVIOUS
  <2>2. ASSUME NEW t \in 0 .. tp - 1 PROVE SizedSeq(shards[t + 1], m)
    <3>1. t \in Nat
      OBVIOUS
    <3>2. SizedSeq(ShardOf("gate_up", l, t), W + W)
      BY <1>1, <3>1, GateUpIs
    <3> QED
      BY <1>2, <1>5, <2>1, <3>2
  <2>3. AllOf(shards, tp, m)
    <3>1. ASSUME NEW i \in 1 .. tp PROVE IsSeq(shards[i]) /\ Len(shards[i]) = m
      <4>1. i - 1 \in 0 .. tp - 1 /\ (i - 1) + 1 = i
        OBVIOUS
      <4> QED
        BY <2>2, <4>1 DEF SizedSeq
    <3> QED
      BY <3>1 DEF AllOf
  <2> DEFINE whole == FlattenSeq(shards)
  <2>4. Len(whole) = tp * m
    BY <1>2, <2>3, EqualFlatten
  <2>5. Len(whole) \div tp = m
    <3>1. (tp * m) \div tp = m
      BY Multiple
    <3> QED
      BY <2>4, <3>1
  <2>6. Chunked(whole, tp) = [i \in 1 .. tp |-> SubSeq(whole, (i - 1) * m + 1, i * m)]
    <3> HIDE DEF whole
    <3>1. PICK k : k = Len(whole) \div tp
      OBVIOUS
    <3>2. Chunked(whole, tp) = [i \in 1 .. tp |-> SubSeq(whole, (i - 1) * k + 1, i * k)]
      BY <3>1 DEF Chunked
    <3> QED
      BY <2>5, <3>1, <3>2
  <2>7. ASSUME NEW i \in 1 .. tp PROVE SubSeq(whole, (i - 1) * m + 1, i * m) = shards[i]
    <3>1. PICK j \in 0 .. tp - 1 : j = i - 1 /\ i = j + 1
      OBVIOUS
    <3>2. SubSeq(whole, j * m + 1, j * m + m) = shards[j + 1]
      BY <1>2, <2>3, PieceOfFlat
    <3>3. i * m = j * m + m
      BY <3>1
    <3> QED
      BY <3>1, <3>2, <3>3, Zenon
  <2>8. shards = [i \in 1 .. tp |-> shards[i]]
    BY <1>1 DEF shards, Shards
  <2>9. Chunked(whole, tp) = shards
    <3> HIDE DEF whole
    <3> QED
      BY <2>6, <2>7, <2>8, Zenon
  <2>10. Collected(item, shards) = Pieces(Chunked(whole, job.tp), <<W, W>>)
    <3>1. PICK k : k = job.width \div job.tp
      OBVIOUS
    <3>2. Collected(item, shards) = Pieces(Chunked(whole, job.tp), <<k, k>>)
      BY <1>3, <1>5, <3>1 DEF Collected, Norms
    <3> QED
      BY <1>1, <3>1, <3>2
  <2>11. Pieces(Shards("gate_up", l), <<W, W>>) = Whole("gate_up", l)
    BY <1>1, GateUpMake
  <2> HIDE DEF whole
  <2>12. Collected(item, shards) = Pieces(shards, <<W, W>>)
    BY <1>1, <2>9, <2>10, Zenon
  <2> QED
    BY <1>5, <2>11, <2>12 DEF shards, item
<1>6. CASE part \in Norms
  <2>1. Collected(item, shards) = <<shards[1]>>
    BY <1>3, <1>6 DEF Collected, Norms
  <2>2. shards[1] = ShardOf(part, l, 0)
    <3>1. 0 \in 0 .. tp - 1 /\ 0 + 1 = 1
      OBVIOUS
    <3> QED
      BY <1>2, <3>1
  <2>3. <<ShardOf(part, l, 0)>> = Whole(part, l)
    BY <1>6, NormWhole
  <2> QED
    BY <2>1, <2>2, <2>3 DEF shards, item
<1>7. CASE part \in Plain
  <2>1. Collected(item, shards) = <<FlattenSeq(shards)>>
    BY <1>3, <1>7 DEF Collected, Plain, Norms
  <2>2. <<FlattenSeq(Shards(part, l))>> = Whole(part, l)
    BY <1>7, PlainWhole
  <2> QED
    BY <2>1, <2>2 DEF shards, item
<1>8. part \in {"qkv", "gate_up"} \union Norms \union Plain
  BY PartsAre DEF AllParts, Norms, Plain
<1> QED
  BY <1>4, <1>5, <1>6, <1>7, <1>8 DEF shards, item


--------------------------------------------------------------------------------
(* The layers of the chunks *)

\* The number of layers of the chunk that is built after n - 1 others.
NthChunk(n) == LayersIn((n - 1) % job.pp, (n - 1) \div job.pp)
Counts(f, n) == f = [m \in 0 .. n |-> IF m = 0 THEN 0 ELSE f[m - 1] + NthChunk(m)]
Chunk(p, v)  == v * job.pp + p
InModel(p, v) == p \in 0 .. job.pp - 1 /\ v \in 0 .. Chunks - 1

\* Layers are counted chunk by chunk.
LEMMA BeforeIs ==
    ASSUME NEW p, NEW v, NEW i, Chunk(p, v) \in Nat, NEW f, Counts(f, Chunk(p, v))
    PROVE  LayerOf(p, v, i) = f[Chunk(p, v)] + i
<1> DEFINE n == Chunk(p, v)
           before == CHOOSE g : Counts(g, n)
<1>1. Counts(before, n)
  OBVIOUS
<1>2. LayerOf(p, v, i) = before[n] + i
  BY DEF LayerOf, Counts, Chunk, NthChunk
<1>3. PICK N \in Nat : N = n
  OBVIOUS
<1>30. PICK g : g = before
  OBVIOUS
<1>4. /\ f = [m \in 0 .. N |-> IF m = 0 THEN 0 ELSE f[m - 1] + NthChunk(m)]
      /\ g = [m \in 0 .. N |-> IF m = 0 THEN 0 ELSE g[m - 1] + NthChunk(m)]
  BY <1>1, <1>3, <1>30 DEF Counts
<1> DEFINE Wrong == {m \in 0 .. N : f[m] # g[m]}
<1>5. Wrong = {}
  <2> SUFFICES ASSUME Wrong # {} PROVE FALSE
    OBVIOUS
  <2>1. PICK m \in Wrong : \A l \in Wrong : m <= l
    <3>1. Wrong \subseteq Nat
      OBVIOUS
    <3> HIDE DEF Wrong
    <3> QED
      BY <3>1, Least
  <2>2. m \in 0 .. N /\ f[m] # g[m]
    OBVIOUS
  <2>3. m # 0
    BY <1>4, <2>2
  <2>4. m - 1 \in 0 .. N /\ ~(m <= m - 1)
    BY <2>2, <2>3
  <2>5. f[m - 1] = g[m - 1]
    <3>1. m - 1 \notin Wrong
      <4> HIDE DEF Wrong
      <4> QED
        BY <2>1, <2>4
    <3> QED
      BY <2>4, <3>1
  <2> QED
    BY <1>4, <2>2, <2>3, <2>5
<1>6. f[N] = g[N]
  BY <1>5
<1> QED
  BY <1>2, <1>3, <1>30, <1>6

\* A chunk by its number.
LEMMA ChunkIs ==
    ASSUME job \in Jobs, NEW p, NEW v, InModel(p, v)
    PROVE  /\ Chunk(p, v) \in 0 .. job.pp * Chunks - 1 /\ job.pp * Chunks \in Nat
           /\ Chunk(p, v) % job.pp = p /\ Chunk(p, v) \div job.pp = v
<1>1. PICK s \in Nat \ {0}, c \in Nat \ {0} : s = job.pp /\ c = Chunks
  BY JobFacts
<1>2. p \in 0 .. s - 1 /\ v \in 0 .. c - 1 /\ Chunk(p, v) = v * s + p
  BY <1>1 DEF InModel, Chunk
<1>20. v \in Int
  BY <1>2
<1>3. (v * s + p) \div s = v /\ (v * s + p) % s = p
  BY <1>2, <1>20, Quotient
<1>4. /\ v * s + (p + 1) \in 1 .. c * s /\ v * s \in Nat /\ c * s \in Nat
  BY <1>2, Within
<1>5. v * s + p \in 0 .. s * c - 1 /\ s * c \in Nat
  <2>1. PICK a \in Nat, b \in Nat : a = v * s /\ b = c * s
    BY <1>4
  <2>2. s * c = b
    BY <2>1
  <2> QED
    BY <1>2, <1>4, <2>1, <2>2
<1> QED
  BY <1>1, <1>2, <1>3, <1>5

LEMMA ByNumber ==
    ASSUME job \in Jobs, NEW n \in 0 .. job.pp * Chunks - 1
    PROVE  InModel(n % job.pp, n \div job.pp) /\ n = Chunk(n % job.pp, n \div job.pp)
<1>1. PICK s \in Nat \ {0}, c \in Nat \ {0} : s = job.pp /\ c = Chunks
  BY JobFacts
<1>2. s * c = c * s /\ c * s \in Nat
  OBVIOUS
<1>3. n \in Nat /\ n + 1 \in 1 .. c * s
  BY <1>1, <1>2
<1>4. PICK v \in 0 .. c - 1, j \in 1 .. s : n + 1 = v * s + j
  BY <1>3, PositionOf
<1>5. PICK a \in Nat : a = v * s
  OBVIOUS
<1>6. n = a + (j - 1) /\ j - 1 \in 0 .. s - 1
  BY <1>3, <1>4, <1>5
<1>7. n = v * s + (j - 1) /\ v \in Int
  BY <1>5, <1>6
<1>8. (v * s + (j - 1)) \div s = v /\ (v * s + (j - 1)) % s = j - 1
  BY <1>6, <1>7, Quotient
<1> QED
  BY <1>1, <1>4, <1>6, <1>7, <1>8 DEF InModel, Chunk

--------------------------------------------------------------------------------
(* Where loader and saver find a layer *)

\* What chunks of one size make of the number of layers.
LEMMA EvenChunks ==
    ASSUME job \in Jobs, SameLayers
    PROVE  /\ PerModel \in Nat \ {0} /\ job.layers \div Chunks = job.pp * PerModel
           /\ job.layers = Chunks * (job.pp * PerModel)
<1>1. PICK s \in Nat \ {0}, c \in Nat \ {0}, l \in Nat \ {0} : s = job.pp /\ c = Chunks /\ l = job.layers
  BY JobFacts
<1>2. PICK a \in Nat : a = l \div s
  OBVIOUS
<1>3. PICK m \in Nat : m = a \div c
  OBVIOUS
<1>4. PerModel = m /\ l = (m * s) * c
  BY <1>1, <1>2, <1>3 DEF PerModel, SameLayers
<1>5. m # 0
  <2> SUFFICES ASSUME m = 0 PROVE FALSE
    OBVIOUS
  <2>1. m * s = 0
    OBVIOUS
  <2> QED
    BY <1>4, <2>1
<1>6. PICK b \in Nat : b = m * s
  OBVIOUS
<1>7. s * m = b
  BY <1>6
<1>8. b * c = c * b
  OBVIOUS
<1>9. (c * b) \div c = b
  BY Multiple
<1> QED
  BY <1>1, <1>4, <1>5, <1>6, <1>7, <1>8, <1>9

LEMMA EvenLayers ==
    ASSUME job \in Jobs, SameLayers, NEW p, NEW v, InModel(p, v), NEW i
    PROVE  LayerOf(p, v, i) = Chunk(p, v) * PerModel + i
<1>1. PICK n \in Nat, m \in Nat : n = Chunk(p, v) /\ m = PerModel
  BY ChunkIs, EvenChunks
<1> DEFINE f == [k \in 0 .. n |-> k * m]
<1>2. ASSUME NEW k \in 0 .. n PROVE f[k] = IF k = 0 THEN 0 ELSE f[k - 1] + NthChunk(k)
  <2>1. CASE k = 0
    <3>1. 0 * m = 0
      OBVIOUS
    <3> QED
      BY <2>1, <3>1
  <2>2. CASE k # 0
    <3>1. k - 1 \in 0 .. n /\ k - 1 \in 0 .. job.pp * Chunks - 1
      <4>1. n \in 0 .. job.pp * Chunks - 1 /\ job.pp * Chunks \in Nat
        BY <1>1, ChunkIs
      <4>2. PICK N \in Nat : N = job.pp * Chunks
        BY <4>1
      <4> QED
        BY <2>2, <4>1, <4>2
    <3>2. NthChunk(k) = m
      <4>1. PICK j : j = k - 1
        OBVIOUS
      <4>2. InModel(j % job.pp, j \div job.pp)
        BY <3>1, <4>1, ByNumber
      <4>3. LayersIn(j % job.pp, j \div job.pp) = PerModel
        BY <4>2 DEF SameLayers, InModel
      <4> QED
        BY <1>1, <4>1, <4>3 DEF NthChunk
    <3>3. k * m = (k - 1) * m + m
      OBVIOUS
    <3>4. f[k] = k * m /\ f[k - 1] = (k - 1) * m
      BY <3>1
    <3> HIDE DEF f
    <3> QED
      BY <2>2, <3>2, <3>3, <3>4
  <2> QED
    BY <2>1, <2>2
<1>3. Counts(f, n)
  BY <1>2 DEF Counts
<1>4. f[n] = n * m
  OBVIOUS
<1> HIDE DEF f
<1>5. LayerOf(p, v, i) = f[n] + i
  BY <1>1, <1>3, BeforeIs
<1> QED
  BY <1>1, <1>4, <1>5

\* Stage, chunk and index are the digits of a layer's number.
Digits(x, c, s, m) == x[2] * (s * m) + x[1] * m + x[3]
HasDigits(l, c, s, m) ==
    \E x \in (0 .. s - 1) \X (0 .. c - 1) \X (0 .. m - 1) : Digits(x, c, s, m) = l

LEMMA DigitsExist ==
    ASSUME NEW c \in Nat \ {0}, NEW s \in Nat \ {0}, NEW m \in Nat \ {0}, NEW l \in Nat, l < c * (s * m)
    PROVE  HasDigits(l, c, s, m)
<1>1. PICK w \in Nat \ {0} : w = s * m
  OBVIOUS
<1>2. l + 1 \in 1 .. c * w /\ c * w \in Nat
  BY <1>1
<1>3. PICK v \in 0 .. c - 1, j \in 1 .. w : l + 1 = v * w + j
  BY <1>2, PositionOf
<1>4. j \in 1 .. s * m
  BY <1>1, <1>3
<1>5. PICK p \in 0 .. s - 1, k \in 1 .. m : j = p * m + k
  BY <1>4, PositionOf
<1>6. PICK a \in Nat, b \in Nat : a = v * w /\ b = p * m
  OBVIOUS
<1>7. l = a + b + (k - 1)
  BY <1>3, <1>5, <1>6
<1> DEFINE x == <<p, v, k - 1>>
<1>8. x \in (0 .. s - 1) \X (0 .. c - 1) \X (0 .. m - 1)
  OBVIOUS
<1>9. Digits(x, c, s, m) = l
  BY <1>1, <1>6, <1>7 DEF Digits
<1> QED
  BY <1>8, <1>9 DEF HasDigits

LEMMA DigitsUnique ==
    ASSUME NEW c \in Nat \ {0}, NEW s \in Nat \ {0}, NEW m \in Nat \ {0},
           NEW x \in (0 .. s - 1) \X (0 .. c - 1) \X (0 .. m - 1)
    PROVE  /\ x[2] = Digits(x, c, s, m) \div (s * m)
           /\ x[1] = (Digits(x, c, s, m) % (s * m)) \div m
           /\ x[3] = (Digits(x, c, s, m) % (s * m)) % m
<1>1. PICK p \in 0 .. s - 1, v \in 0 .. c - 1, i \in 0 .. m - 1 : p = x[1] /\ v = x[2] /\ i = x[3]
  OBVIOUS
<1>2. PICK w \in Nat \ {0} : w = s * m
  OBVIOUS
<1>3. p * m + (i + 1) \in 1 .. s * m /\ p * m \in Nat
  BY Within
<1>4. PICK b \in 0 .. w - 1 : b = p * m + i
  <2>1. PICK a \in Nat : a = p * m
    BY <1>3
  <2> QED
    BY <1>2, <1>3, <2>1
<1>5. v \in Int /\ p \in Int
  OBVIOUS
<1>6. (v * w + b) \div w = v /\ (v * w + b) % w = b
  BY <1>5, Quotient
<1>7. (p * m + i) \div m = p /\ (p * m + i) % m = i
  BY <1>5, Quotient
<1>8. Digits(x, c, s, m) = v * w + b
  <2>1. PICK a \in Nat, d \in Nat : a = v * w /\ d = p * m
    OBVIOUS
  <2> QED
    BY <1>1, <1>2, <1>4, <2>1 DEF Digits
<1> QED
  BY <1>1, <1>2, <1>4, <1>6, <1>7, <1>8

LEMMA LayerMapIs ==
    ASSUME job \in Jobs, SameLayers
    PROVE  /\ \A l \in 0 .. job.layers - 1 :
                  LET x == LayerMap(l) IN
                  /\ x[1] \in 0 .. job.pp - 1 /\ x[2] \in 0 .. Chunks - 1 /\ x[3] \in 0 .. PerModel - 1
                  /\ LayerOf(x[1], x[2], x[3]) = l
           /\ \A p, v, i : InModel(p, v) /\ i \in 0 .. PerModel - 1 =>
                  /\ LayerOf(p, v, i) \in 0 .. job.layers - 1
                  /\ LayerMap(LayerOf(p, v, i)) = <<p, v, i>>
<1>1. PICK s \in Nat \ {0}, c \in Nat \ {0}, m \in Nat \ {0} :
          s = job.pp /\ c = Chunks /\ m = PerModel /\ job.layers \div Chunks = s * m /\ job.layers = c * (s * m)
  BY JobFacts, EvenChunks
<1> DEFINE S == (0 .. s - 1) \X (0 .. c - 1) \X (0 .. m - 1)
<1>2. ASSUME NEW l PROVE LayerMap(l) = CHOOSE x \in S : Digits(x, c, s, m) = l
  BY <1>1 DEF LayerMap, Digits
<1>3. ASSUME NEW x \in S
      PROVE  LayerOf(x[1], x[2], x[3]) = Digits(x, c, s, m)
  <2>1. PICK p \in 0 .. s - 1, v \in 0 .. c - 1, i \in 0 .. m - 1 : p = x[1] /\ v = x[2] /\ i = x[3]
    OBVIOUS
  <2>2. InModel(p, v)
    BY <1>1, <2>1 DEF InModel
  <2>3. LayerOf(p, v, i) = (v * s + p) * m + i
    BY <1>1, <2>2, EvenLayers DEF Chunk
  <2>4. (v * s + p) * m = v * (s * m) + p * m
    OBVIOUS
  <2> QED
    BY <2>1, <2>3, <2>4 DEF Digits
<1>4. ASSUME NEW l \in 0 .. job.layers - 1
      PROVE  LayerMap(l) \in S /\ Digits(LayerMap(l), c, s, m) = l
  <2>1. PICK L \in Nat : L = c * (s * m)
    OBVIOUS
  <2>2. l \in Nat /\ l < c * (s * m)
    BY <1>1, <2>1
  <2>3. \E x \in S : Digits(x, c, s, m) = l
    <3>1. HasDigits(l, c, s, m)
      BY <2>2, DigitsExist
    <3> QED
      BY <3>1 DEF HasDigits
  <2> HIDE DEF S
  <2> QED
    BY <1>2, <2>3
<1>5. ASSUME NEW x \in S, NEW y \in S, Digits(x, c, s, m) = Digits(y, c, s, m) PROVE x = y
  <2>1. x[1] = y[1] /\ x[2] = y[2] /\ x[3] = y[3]
    BY <1>5, DigitsUnique
  <2> QED
    BY <2>1
<1>6. ASSUME NEW x \in S
      PROVE  Digits(x, c, s, m) \in 0 .. job.layers - 1
  <2>1. PICK p \in 0 .. s - 1, v \in 0 .. c - 1, i \in 0 .. m - 1 : p = x[1] /\ v = x[2] /\ i = x[3]
    OBVIOUS
  <2>2. PICK w \in Nat \ {0} : w = s * m
    OBVIOUS
  <2>3. p * m + (i + 1) \in 1 .. s * m /\ p * m \in Nat
    BY Within
  <2>4. PICK b \in 0 .. w - 1 : b = p * m + i
    <3>1. PICK a \in Nat : a = p * m
      BY <2>3
    <3> QED
      BY <2>2, <2>3, <3>1
  <2>5. v * w + (b + 1) \in 1 .. c * w /\ v * w \in Nat /\ c * w \in Nat
    BY <2>4, Within
  <2>6. PICK d \in Nat, e \in Nat, a \in Nat : d = v * w /\ e = c * w /\ a = p * m
    BY <2>3, <2>5
  <2>7. Digits(x, c, s, m) = d + b
    BY <2>1, <2>2, <2>4, <2>6 DEF Digits
  <2>8. job.layers = e
    BY <1>1, <2>2, <2>6
  <2> QED
    BY <2>5, <2>6, <2>7, <2>8
<1>7. ASSUME NEW p, NEW v, NEW i, InModel(p, v), i \in 0 .. PerModel - 1
      PROVE  /\ LayerOf(p, v, i) \in 0 .. job.layers - 1
             /\ LayerMap(LayerOf(p, v, i)) = <<p, v, i>>
  <2>1. PICK x \in S : x = <<p, v, i>>
    BY <1>1, <1>7 DEF InModel
  <2>2. PICK l : l = LayerOf(p, v, i)
    OBVIOUS
  <2>3. l = Digits(x, c, s, m)
    BY <1>3, <2>1, <2>2
  <2> HIDE DEF S
  <2>4. l \in 0 .. job.layers - 1
    BY <1>6, <2>3
  <2>5. LayerMap(l) \in S /\ Digits(LayerMap(l), c, s, m) = l
    BY <1>4, <2>4
  <2>6. LayerMap(l) = x
    BY <1>5, <2>3, <2>5
  <2> QED
    BY <2>1, <2>2, <2>4, <2>6
<1>8. ASSUME NEW l \in 0 .. job.layers - 1
      PROVE  LET x == LayerMap(l) IN
             /\ x[1] \in 0 .. job.pp - 1 /\ x[2] \in 0 .. Chunks - 1 /\ x[3] \in 0 .. PerModel - 1
             /\ LayerOf(x[1], x[2], x[3]) = l
  <2>1. PICK x \in S : x = LayerMap(l) /\ Digits(x, c, s, m) = l
    BY <1>4
  <2>2. LayerOf(x[1], x[2], x[3]) = l
    <3> HIDE DEF S
    <3> QED
      BY <1>3, <2>1
  <2>3. x[1] \in 0 .. s - 1 /\ x[2] \in 0 .. c - 1 /\ x[3] \in 0 .. m - 1
    OBVIOUS
  <2> QED
    BY <1>1, <2>1, <2>2, <2>3
<1> HIDE DEF S
<1> QED
  BY <1>7, <1>8

--------------------------------------------------------------------------------
(* The sizes of the chunks *)

Rest      == job.layers - job.first - job.last
AllLayers == job.layers + (IF job.embed THEN 1 ELSE 0) + (IF job.loss THEN 1 ELSE 0)
FirstSize == job.first \div Chunks
LastSize  == job.last \div Chunks
MiddleSize ==
    IF job.first + job.last = 0 THEN (AllLayers \div job.pp) \div Chunks
    ELSE IF MiddleStages = 0 THEN 0 ELSE (Rest \div MiddleStages) \div Chunks

\* The size of a chunk of stage p, embedding and loss counted, and that of the chunks of
\* the stages before it; CycleSize is that of the chunks of all stages.
ChunkSize(p) ==
    IF job.first > 0 /\ p = 0 THEN FirstSize
    ELSE IF job.last > 0 /\ p = job.pp - 1 THEN LastSize
    ELSE MiddleSize
SizeBefore(p) == IF p = 0 THEN 0 ELSE IF job.first > 0 THEN FirstSize + (p - 1) * MiddleSize ELSE p * MiddleSize
CycleSize == SizeBefore(job.pp - 1) + ChunkSize(job.pp - 1)

LEMMA LayoutIs ==
    ASSUME job \in Jobs
    PROVE  /\ job.vpp > 0 => job.pp > 1
           /\ job.first + job.last = 0 => AllLayers % (job.pp * Chunks) = 0
           /\ job.first + job.last # 0 =>
                  /\ ~job.embed /\ ~job.loss
                  /\ job.first % Chunks = 0 /\ job.last % Chunks = 0
                  /\ MiddleStages \in Nat /\ Rest \in Nat
                  /\ MiddleStages = 0 => Rest = 0 /\ job.vpp = 0
                  /\ MiddleStages # 0 => Rest % (MiddleStages * Chunks) = 0
BY LayoutsAssumption DEF AllLayers, Rest, MiddleStages, Chunks

\* Without sizes of its own for a stage, the stages share alike.
LEMMA EqualStages ==
    ASSUME job \in Jobs, job.first + job.last = 0
    PROVE  /\ job.first = 0 /\ job.last = 0 /\ FirstSize = 0 /\ LastSize = 0
           /\ MiddleSize \in Nat \ {0} /\ AllLayers \in Nat
           /\ AllLayers = Chunks * (job.pp * MiddleSize) /\ AllLayers \div job.pp = Chunks * MiddleSize
           /\ (Chunks * MiddleSize) \div Chunks = MiddleSize
           /\ \A p : StageLayers(p) = Chunks * MiddleSize /\ ChunkSize(p) = MiddleSize
           /\ CycleSize = job.pp * MiddleSize
           /\ job.pp = 1 /\ Chunks = 1 => MiddleSize = AllLayers
<1>1. PICK s \in Nat \ {0}, c \in Nat \ {0}, a \in Nat \ {0} : s = job.pp /\ c = Chunks /\ a = AllLayers
  BY JobFacts DEF AllLayers
<1>2. job.first = 0 /\ job.last = 0
  BY JobFacts
<1>3. a % (s * c) = 0
  BY <1>1, LayoutIs
<1>4. PICK w \in Nat \ {0} : w = s * c
  OBVIOUS
<1>5. PICK m \in Nat : a = w * m
  BY <1>3, <1>4, Exact
<1>6. m # 0
  <2> SUFFICES ASSUME m = 0 PROVE FALSE
    OBVIOUS
  <2>1. w * m = 0
    OBVIOUS
  <2> QED
    BY <1>5, <2>1
<1>7. PICK b \in Nat : b = c * m
  OBVIOUS
<1>8. a = s * b
  BY <1>4, <1>5, <1>7
<1>9. a \div s = b /\ b \div c = m
  BY <1>7, <1>8, Multiple
<1>10. MiddleSize = m
  BY <1>1, <1>9 DEF MiddleSize
<1>11. 0 \div c = 0
  OBVIOUS
<1>12. FirstSize = 0 /\ LastSize = 0
  BY <1>1, <1>2, <1>11 DEF FirstSize, LastSize
<1>13. ASSUME NEW p PROVE StageLayers(p) = c * m /\ ChunkSize(p) = m
  <2>1. StageLayers(p) = b
    BY <1>1, <1>9 DEF StageLayers, AllLayers
  <2>2. ChunkSize(p) = m
    BY <1>2, <1>10 DEF ChunkSize
  <2> QED
    BY <1>7, <2>1, <2>2
<1>14. CycleSize = s * m
  <2>1. CycleSize = SizeBefore(s - 1) + m
    BY <1>1, <1>13 DEF CycleSize
  <2>2. SizeBefore(s - 1) = (s - 1) * m
    <3>1. 0 * m = 0
      OBVIOUS
    <3>2. CASE s = 1
      <4>1. SizeBefore(s - 1) = 0 /\ s - 1 = 0
        BY <3>2 DEF SizeBefore
      <4> QED
        BY <3>1, <4>1
    <3>3. CASE s # 1
      <4>1. s - 1 # 0 /\ ~(job.first > 0)
        BY <1>2, <3>3
      <4> QED
        BY <1>10, <4>1 DEF SizeBefore
    <3> QED
      BY <3>2, <3>3
  <2>3. (s - 1) * m + m = s * m
    OBVIOUS
  <2> QED
    BY <2>1, <2>2, <2>3
<1>15. c * (s * m) = a
  <2>1. c * (s * m) = (s * c) * m
    OBVIOUS
  <2> QED
    BY <1>4, <1>5, <2>1
<1>16. s = 1 /\ c = 1 => m = a
  <2>1. 1 * (1 * m) = m
    OBVIOUS
  <2> QED
    BY <1>15, <2>1
<1>17. m \in Nat \ {0}
  BY <1>6
<1> QED
  BY <1>1, <1>2, <1>7, <1>9, <1>10, <1>12, <1>13, <1>14, <1>15, <1>16, <1>17

\* With a first or last stage of its own size, the stages between share alike.
LEMMA OwnStages ==
    ASSUME job \in Jobs, job.first + job.last # 0
    PROVE  /\ ~job.embed /\ ~job.loss /\ AllLayers = job.layers
           /\ FirstSize \in Nat /\ LastSize \in Nat /\ MiddleSize \in Nat /\ MiddleStages \in Nat /\ Rest \in Nat
           /\ job.first = Chunks * FirstSize /\ job.last = Chunks * LastSize
           /\ Rest = MiddleStages * (Chunks * MiddleSize)
           /\ MiddleStages # 0 => Rest \div MiddleStages = Chunks * MiddleSize
           /\ MiddleStages = 0 => Rest = 0 /\ job.vpp = 0 /\ MiddleSize = 0
           /\ \A p \in 0 .. job.pp - 1 : StageLayers(p) = Chunks * ChunkSize(p) /\ ChunkSize(p) \in Nat
           /\ CycleSize = FirstSize + MiddleStages * MiddleSize + LastSize
           /\ Chunks * CycleSize = job.layers
<1>1. PICK s \in Nat \ {0}, c \in Nat \ {0}, l \in Nat \ {0}, f \in Nat, z \in Nat :
          s = job.pp /\ c = Chunks /\ l = job.layers /\ f = job.first /\ z = job.last
  BY JobFacts
<1>2. PICK F \in Nat, Z \in Nat : F = FirstSize /\ Z = LastSize /\ f = c * F /\ z = c * Z
  <2>1. f % c = 0 /\ z % c = 0
    BY <1>1, LayoutIs
  <2>2. f = c * (f \div c) /\ f \div c \in Nat /\ z = c * (z \div c) /\ z \div c \in Nat
    BY <2>1, Exact
  <2>3. PICK F \in Nat, Z \in Nat : F = f \div c /\ Z = z \div c
    BY <2>2
  <2>4. FirstSize = F /\ LastSize = Z
    BY <1>1, <2>3 DEF FirstSize, LastSize
  <2>5. f = c * F /\ z = c * Z
    BY <2>2, <2>3, Zenon
  <2> QED
    BY <2>4, <2>5
<1>20. F = FirstSize /\ Z = LastSize
  BY <1>2
<1>3. PICK n \in Nat, r \in Nat : n = MiddleStages /\ r = Rest /\ r = l - f - z
  BY <1>1, LayoutIs DEF Rest
<1>4. /\ f + z # 0 /\ ~job.embed /\ ~job.loss
      /\ n = 0 => r = 0 /\ job.vpp = 0
      /\ n # 0 => r % (n * c) = 0
  BY <1>1, <1>3, LayoutIs
<1>5. AllLayers = l
  BY <1>1, <1>4 DEF AllLayers
<1>6. PICK m \in Nat : /\ m = MiddleSize /\ r = n * (c * m)
                       /\ n # 0 => r \div n = c * m
                       /\ n = 0 => m = 0
  <2>1. CASE n = 0
    <3>1. MiddleSize = 0
      BY <1>1, <1>3, <1>4, <2>1 DEF MiddleSize
    <3>2. 0 * (c * 0) = 0
      OBVIOUS
    <3> QED
      BY <1>4, <2>1, <3>1, <3>2
  <2>2. CASE n # 0
    <3>1. PICK w \in Nat \ {0} : w = n * c
      BY <2>2
    <3>2. PICK m \in Nat : r = w * m
      BY <1>4, <2>2, <3>1, Exact
    <3>3. PICK b \in Nat : b = c * m
      OBVIOUS
    <3>4. r = n * b
      BY <3>1, <3>2, <3>3
    <3>5. n \in Nat \ {0}
      BY <2>2
    <3>6. r \div n = b /\ b \div c = m
      BY <3>3, <3>4, <3>5, Multiple
    <3>7. MiddleSize = m
      BY <1>1, <1>3, <1>4, <2>2, <3>6 DEF MiddleSize
    <3> QED
      BY <2>2, <3>3, <3>4, <3>6, <3>7
  <2> QED
    BY <2>1, <2>2
<1>60. m = MiddleSize /\ (n = 0 => m = 0)
  BY <1>6
<1>7. n = s - (IF f > 0 THEN 1 ELSE 0) - (IF z > 0 THEN 1 ELSE 0)
  BY <1>1, <1>3 DEF MiddleStages
<1>8. /\ f = 0 => F = 0
      /\ z = 0 => Z = 0
  <2>1. 0 \div c = 0
    OBVIOUS
  <2> QED
    BY <1>1, <1>2, <2>1 DEF FirstSize, LastSize
<1>9. ASSUME NEW p \in 0 .. s - 1 PROVE StageLayers(p) = c * ChunkSize(p) /\ ChunkSize(p) \in Nat
  <2>1. CASE f > 0 /\ p = 0
    BY <1>1, <1>2, <2>1 DEF StageLayers, ChunkSize
  <2>2. CASE ~(f > 0 /\ p = 0) /\ z > 0 /\ p = s - 1
    BY <1>1, <1>2, <2>2 DEF StageLayers, ChunkSize
  <2>3. CASE ~(f > 0 /\ p = 0) /\ ~(z > 0 /\ p = s - 1)
    <3>1. n # 0
      BY <1>4, <1>7, <2>3
    <3>2. StageLayers(p) = Rest \div MiddleStages
      BY <1>1, <1>4, <2>3 DEF StageLayers, Rest
    <3>3. ChunkSize(p) = m
      BY <1>1, <1>60, <2>3 DEF ChunkSize
    <3> QED
      BY <1>3, <1>6, <3>1, <3>2, <3>3
  <2> QED
    BY <2>1, <2>2, <2>3
<1>10. CycleSize = F + n * m + Z
  <2>1. CycleSize = SizeBefore(s - 1) + ChunkSize(s - 1)
    BY <1>1 DEF CycleSize
  <2>2. 0 * m = 0 /\ 1 * m = m
    OBVIOUS
  <2>3. CASE s = 1
    <3>1. SizeBefore(s - 1) = 0 /\ s - 1 = 0
      BY <2>3 DEF SizeBefore
    <3>2. f > 0 => z = 0 /\ ChunkSize(s - 1) = F
      BY <1>1, <1>2, <1>7, <2>3, <3>1 DEF ChunkSize
    <3>3. f = 0 => z > 0 /\ ChunkSize(s - 1) = Z
      BY <1>1, <1>2, <1>4, <1>7, <2>3, <3>1 DEF ChunkSize
    <3>4. n = 0
      BY <1>4, <1>7, <2>3, <3>2, <3>3
    <3> QED
      BY <1>8, <2>1, <2>2, <3>1, <3>2, <3>3, <3>4
  <2>4. CASE s # 1
    <3>1. s - 1 # 0 /\ s - 1 \in Nat
      BY <2>4
    <3>2. SizeBefore(s - 1) = IF f > 0 THEN F + (s - 2) * m ELSE (s - 1) * m
      <4>1. s - 1 - 1 = s - 2
        OBVIOUS
      <4> QED
        BY <1>1, <1>20, <1>60, <3>1, <4>1 DEF SizeBefore
    <3>3. ChunkSize(s - 1) = IF z > 0 THEN Z ELSE m
      BY <1>1, <1>20, <1>60, <3>1 DEF ChunkSize
    <3>4. CASE f > 0 /\ z > 0
      <4>1. n = s - 2
        BY <1>7, <3>4
      <4> QED
        BY <2>1, <3>2, <3>3, <3>4, <4>1
    <3>5. CASE f > 0 /\ ~(z > 0)
      <4>1. n = s - 1 /\ Z = 0
        BY <1>7, <1>8, <3>5
      <4>2. (s - 2) * m + m = (s - 1) * m
        OBVIOUS
      <4> QED
        BY <2>1, <3>2, <3>3, <3>5, <4>1, <4>2
    <3>6. CASE ~(f > 0) /\ z > 0
      <4>1. n = s - 1 /\ F = 0
        BY <1>7, <1>8, <3>6
      <4> QED
        BY <2>1, <3>2, <3>3, <3>6, <4>1
    <3> QED
      BY <1>4, <3>4, <3>5, <3>6
  <2> QED
    BY <2>3, <2>4
<1>11. c * (F + n * m + Z) = l
  <2>1. PICK b \in Nat, d \in Nat, e \in Nat : b = n * (c * m) /\ d = c * F /\ e = c * Z
    OBVIOUS
  <2>2. c * (F + n * m + Z) = d + b + e
    BY <2>1
  <2>3. r = b /\ f = d /\ z = e
    BY <1>2, <1>6, <2>1, Zenon
  <2> QED
    BY <1>3, <2>2, <2>3
<1> QED
    <2>1. /\ ~job.embed /\ ~job.loss /\ AllLayers = job.layers
        /\ FirstSize \in Nat /\ LastSize \in Nat /\ MiddleSize \in Nat /\ MiddleStages \in Nat /\ Rest \in Nat
    BY <1>1, <1>20, <1>3, <1>4, <1>5, <1>60
  <2>2. job.first = Chunks * FirstSize /\ job.last = Chunks * LastSize
    BY <1>1, <1>2, Zenon
  <2>3. Rest = MiddleStages * (Chunks * MiddleSize)
    BY <1>1, <1>3, <1>6, Zenon
  <2>4. MiddleStages # 0 => Rest \div MiddleStages = Chunks * MiddleSize
    BY <1>1, <1>3, <1>6, Zenon
  <2>5. MiddleStages = 0 => Rest = 0 /\ job.vpp = 0 /\ MiddleSize = 0
    BY <1>3, <1>4, <1>60
  <2>6. \A p \in 0 .. job.pp - 1 : StageLayers(p) = Chunks * ChunkSize(p) /\ ChunkSize(p) \in Nat
    BY <1>1, <1>9, Zenon
  <2>7. CycleSize = FirstSize + MiddleStages * MiddleSize + LastSize
    BY <1>20, <1>3, <1>60, <1>10, Zenon
  <2>8. Chunks * CycleSize = job.layers
    BY <1>1, <1>10, <1>11, Zenon
  <2> QED
    BY <2>1, <2>2, <2>3, <2>4, <2>5, <2>6, <2>7, <2>8, Zenon

LEMMA LayersInIs ==
    ASSUME job \in Jobs, NEW p, NEW v, InModel(p, v)
    PROVE  /\ ChunkSize(p) \in Nat /\ LayersIn(p, v) \in Nat
           /\ LayersIn(p, v) = ChunkSize(p) - (IF job.embed /\ p = 0 /\ v = 0 THEN 1 ELSE 0)
                                  - (IF job.loss /\ p = job.pp - 1 /\ v = Chunks - 1 THEN 1 ELSE 0)
           /\ job.embed \/ job.loss => ChunkSize(p) = MiddleSize /\ MiddleSize > 0
<1>1. PICK c \in Nat \ {0} : c = Chunks
  BY JobFacts
<1>2. p \in 0 .. job.pp - 1 /\ v \in 0 .. c - 1
  BY <1>1 DEF InModel
<1>3. /\ ChunkSize(p) \in Nat /\ StageLayers(p) = c * ChunkSize(p)
      /\ job.embed \/ job.loss => ChunkSize(p) = MiddleSize /\ MiddleSize > 0
  <2>1. CASE job.first + job.last = 0
    BY <1>1, <2>1, EqualStages
  <2>2. CASE job.first + job.last # 0
    BY <1>1, <1>2, <2>2, OwnStages
  <2> QED
    BY <2>1, <2>2
<1>4. StageLayers(p) \div Chunks = ChunkSize(p)
  <2>1. PICK z \in Nat : z = ChunkSize(p)
    BY <1>3
  <2>2. (c * z) \div c = z
    BY Multiple
  <2> QED
    BY <1>1, <1>3, <2>1, <2>2, Zenon
<1>5. LayersIn(p, v) = ChunkSize(p) - (IF job.embed /\ p = 0 /\ v = 0 THEN 1 ELSE 0)
                          - (IF job.loss /\ p = job.pp - 1 /\ v = Chunks - 1 THEN 1 ELSE 0)
  BY <1>4 DEF LayersIn
<1>6. job.pp = 1 => Chunks = 1
  BY JobFacts, LayoutIs DEF Chunks
<1>7. CASE job.embed /\ job.loss /\ job.pp = 1
  <2>1. job.first + job.last = 0
    BY <1>7, LayoutIs
  <2>2. MiddleSize = AllLayers /\ ChunkSize(p) = MiddleSize
    BY <1>6, <1>7, <2>1, EqualStages
  <2>3. AllLayers = job.layers + 1 + 1
    BY <1>7 DEF AllLayers
  <2> QED
    BY <1>3, <1>5, <2>2, <2>3, JobFacts
<1>8. CASE ~(job.embed /\ job.loss /\ job.pp = 1)
  BY <1>1, <1>2, <1>3, <1>5, <1>8, JobFacts
<1> QED
  BY <1>3, <1>5, <1>7, <1>8

--------------------------------------------------------------------------------
(* The parameters of a stage *)

Layered(v, i, part) == <<v, i, part>>

\* x is a parameter of chunk v on stage p.
InChunk(p, v, x) ==
    \/ p = 0 /\ v = 0 /\ x = Layered(v, 0, "embedding")
    \/ \E i \in 0 .. LayersIn(p, v) - 1, part \in Range(Parts) : x = Layered(v, i, part)
    \/ p = job.pp - 1 /\ v = Chunks - 1 /\ x = Layered(v, 0, "final_layernorm")
    \/ /\ p = job.pp - 1 /\ v = Chunks - 1 /\ ~(job.tied /\ job.pp = 1)
       /\ x = Layered(v, 0, "output_layer")

IsParam(p, x) == \E v \in 0 .. Chunks - 1 : InChunk(p, v, x)

LEMMA Single ==
    ASSUME NEW a
    PROVE  IsSeq(<<a>>) /\ Range(<<a>>) = {a}
<1>1. DOMAIN <<a>> = {1}
  OBVIOUS
<1>2. Range(<<a>>) = {a}
  BY <1>1 DEF Range
<1> QED
  BY <1>2 DEF IsSeq

LEMMA Empty == IsSeq(<<>>) /\ Range(<<>>) = {}
BY DEF IsSeq, Range

LEMMA ChunkParamsAre ==
    ASSUME job \in Jobs, NEW p, NEW v, InModel(p, v)
    PROVE  /\ IsSeq(ChunkParams(p, v))
           /\ \A x : x \in Range(ChunkParams(p, v)) <=> InChunk(p, v, x)
<1>1. PICK n \in Nat : n = LayersIn(p, v)
  BY LayersInIs
<1> DEFINE Opening  == IF p = 0 /\ v = 0 THEN <<<<v, 0, "embedding">>>> ELSE <<>>
           Layer(i) == [k \in 1 .. 6 |-> <<v, i - 1, Parts[k]>>]
           layers == [i \in 1 .. n |-> Layer(i)]
           Out   == IF job.tied /\ job.pp = 1 THEN <<>> ELSE <<<<v, 0, "output_layer">>>>
           Ending  == IF p = job.pp - 1 /\ v = Chunks - 1 THEN <<<<v, 0, "final_layernorm">>>> \o Out ELSE <<>>
<1>2. ChunkParams(p, v) = Opening \o FlattenSeq(layers) \o Ending
  BY <1>1 DEF ChunkParams
<1>3. /\ IsSeq(Opening)
      /\ \A x : x \in Range(Opening) <=> p = 0 /\ v = 0 /\ x = Layered(v, 0, "embedding")
  BY Single, Empty DEF Layered
<1>4. /\ IsSeq(Out)
      /\ \A x : x \in Range(Out) <=> ~(job.tied /\ job.pp = 1) /\ x = Layered(v, 0, "output_layer")
  BY Single, Empty DEF Layered
<1>5. /\ IsSeq(Ending)
      /\ \A x : x \in Range(Ending) <=> /\ p = job.pp - 1 /\ v = Chunks - 1
                                      /\ \/ x = Layered(v, 0, "final_layernorm")
                                         \/ ~(job.tied /\ job.pp = 1) /\ x = Layered(v, 0, "output_layer")
  <2>1. PICK s, o : s = <<<<v, 0, "final_layernorm">>>> /\ o = Out
    OBVIOUS
  <2>2. IsSeq(s) /\ \A x : x \in Range(s) <=> x = Layered(v, 0, "final_layernorm")
    BY <2>1, Single DEF Layered
  <2>3. IsSeq(o)
    BY <1>4, <2>1
  <2>4. IsSeq(s \o o) /\ Range(s \o o) = Range(s) \union Range(o)
    BY <2>2, <2>3, ConcatFacts
  <2>5. CASE p = job.pp - 1 /\ v = Chunks - 1
    <3>1. Ending = s \o o
      BY <2>1, <2>5
    <3> HIDE DEF Ending, Out
    <3> QED
      BY <1>4, <2>1, <2>2, <2>4, <2>5, <3>1
  <2>6. CASE ~(p = job.pp - 1 /\ v = Chunks - 1)
    <3>1. Ending = <<>>
      BY <2>6
    <3> HIDE DEF Ending
    <3> QED
      BY <2>6, <3>1, Empty
  <2> QED
    BY <2>5, <2>6
<1>6. ASSUME NEW i \in 1 .. n
      PROVE  IsSeq(layers[i]) /\ Range(layers[i]) = {Layered(v, i - 1, part) : part \in Range(Parts)}
  <2>1. PICK s : s = Layer(i)
    OBVIOUS
  <2>2. s = [k \in 1 .. 6 |-> s[k]] /\ \A k \in 1 .. 6 : s[k] = Layered(v, i - 1, Parts[k])
    BY <2>1 DEF Layered
  <2>3. IsSeq(s) /\ DOMAIN s = 1 .. 6
    <3>1. PICK six \in Nat : six = 6
      OBVIOUS
    <3>2. s = [k \in 1 .. six |-> s[k]]
      BY <2>2, <3>1
    <3> QED
      BY <3>1, <3>2, FunctionIsSeq
  <2>4. DOMAIN Parts = 1 .. 6
    BY DEF Parts
  <2>5. Range(s) = {Layered(v, i - 1, part) : part \in Range(Parts)}
    BY <2>2, <2>3, <2>4 DEF Range
  <2>6. layers[i] = s
    BY <2>1
  <2> QED
    BY <2>3, <2>5, <2>6
<1>7. layers = [i \in 1 .. n |-> layers[i]]
  OBVIOUS
<1> HIDE DEF layers, Layer, Opening, Ending, Out
<1>8. IsSeq(FlattenSeq(layers)) /\ Range(FlattenSeq(layers)) = RangesUpTo(layers, n)
  <2>1. AllSeqs(layers, n)
    BY <1>6 DEF AllSeqs
  <2> QED
    BY <1>7, <2>1, FlattenRange
<1>9. \A x : x \in RangesUpTo(layers, n) <=>
                 \E i \in 0 .. n - 1, part \in Range(Parts) : x = Layered(v, i, part)
  <2>1. ASSUME NEW x, x \in RangesUpTo(layers, n)
        PROVE  \E i \in 0 .. n - 1, part \in Range(Parts) : x = Layered(v, i, part)
    <3>1. PICK i \in 1 .. n : x \in Range(layers[i])
      BY <2>1 DEF RangesUpTo
    <3>2. i - 1 \in 0 .. n - 1
      OBVIOUS
    <3> QED
      BY <1>6, <3>1, <3>2
  <2>2. ASSUME NEW x, NEW i \in 0 .. n - 1, NEW part \in Range(Parts), x = Layered(v, i, part)
        PROVE  x \in RangesUpTo(layers, n)
    <3>1. i + 1 \in 1 .. n /\ (i + 1) - 1 = i
      OBVIOUS
    <3>2. x \in Range(layers[i + 1])
      BY <1>6, <2>2, <3>1
    <3> QED
      BY <3>1, <3>2 DEF RangesUpTo
  <2> QED
    BY <2>1, <2>2
<1>10. PICK h, f, t : h = Opening /\ f = FlattenSeq(layers) /\ t = Ending
  OBVIOUS
<1>11. IsSeq(h) /\ IsSeq(f) /\ IsSeq(t)
  BY <1>3, <1>5, <1>8, <1>10
<1>12. IsSeq(h \o f) /\ Range(h \o f) = Range(h) \union Range(f)
  BY <1>11, ConcatFacts
<1>13. PICK g : g = h \o f
  OBVIOUS
<1>14. IsSeq(g \o t) /\ Range(g \o t) = Range(g) \union Range(t)
  BY <1>11, <1>12, <1>13, ConcatFacts
<1>15. ChunkParams(p, v) = g \o t
  BY <1>2, <1>10, <1>13
<1>16. \A x : x \in Range(ChunkParams(p, v)) <=> x \in Range(h) \/ x \in Range(f) \/ x \in Range(t)
  BY <1>12, <1>13, <1>14, <1>15
<1>17. \A x : x \in Range(h) <=> p = 0 /\ v = 0 /\ x = Layered(v, 0, "embedding")
  BY <1>3, <1>10
<1>18. \A x : x \in Range(f) <=> \E i \in 0 .. LayersIn(p, v) - 1, part \in Range(Parts) : x = Layered(v, i, part)
  BY <1>1, <1>8, <1>9, <1>10
<1>19. \A x : x \in Range(t) <=> /\ p = job.pp - 1 /\ v = Chunks - 1
                                 /\ \/ x = Layered(v, 0, "final_layernorm")
                                    \/ ~(job.tied /\ job.pp = 1) /\ x = Layered(v, 0, "output_layer")
  BY <1>5, <1>10
<1>20. ASSUME NEW x PROVE x \in Range(ChunkParams(p, v)) <=> InChunk(p, v, x)
  BY <1>16, <1>17, <1>18, <1>19, Zenon DEF InChunk
<1> QED
  BY <1>14, <1>15, <1>20

LEMMA StageParamsAre ==
    ASSUME job \in Jobs, NEW p \in 0 .. job.pp - 1
    PROVE  IsSeq(StageParams(p)) /\ \A x : x \in Range(StageParams(p)) <=> IsParam(p, x)
<1>1. PICK c \in Nat \ {0} : c = Chunks
  BY JobFacts
<1> DEFINE seqs == [v \in 1 .. c |-> ChunkParams(p, v - 1)]
<1>2. StageParams(p) = FlattenSeq(seqs)
  BY <1>1 DEF StageParams
<1>3. ASSUME NEW v \in 1 .. c
      PROVE  IsSeq(seqs[v]) /\ \A x : x \in Range(seqs[v]) <=> InChunk(p, v - 1, x)
  <2>1. InModel(p, v - 1)
    BY <1>1 DEF InModel
  <2>2. PICK w : w = v - 1
    OBVIOUS
  <2>3. IsSeq(ChunkParams(p, w)) /\ \A x : x \in Range(ChunkParams(p, w)) <=> InChunk(p, w, x)
    BY <2>1, <2>2, ChunkParamsAre
  <2> QED
    BY <2>2, <2>3
<1>4. seqs = [v \in 1 .. c |-> seqs[v]]
  OBVIOUS
<1> HIDE DEF seqs
<1>5. IsSeq(FlattenSeq(seqs)) /\ Range(FlattenSeq(seqs)) = RangesUpTo(seqs, c)
  <2>1. AllSeqs(seqs, c)
    BY <1>3 DEF AllSeqs
  <2> QED
    BY <1>4, <2>1, FlattenRange
<1>6. ASSUME NEW x PROVE x \in RangesUpTo(seqs, c) <=> IsParam(p, x)
  <2>1. ASSUME x \in RangesUpTo(seqs, c) PROVE IsParam(p, x)
    <3>1. PICK v \in 1 .. c : x \in Range(seqs[v])
      BY <2>1 DEF RangesUpTo
    <3>2. v - 1 \in 0 .. c - 1 /\ InChunk(p, v - 1, x)
      BY <1>3, <3>1
    <3> QED
      BY <1>1, <3>2 DEF IsParam
  <2>2. ASSUME IsParam(p, x) PROVE x \in RangesUpTo(seqs, c)
    <3>1. PICK v \in 0 .. c - 1 : InChunk(p, v, x)
      BY <1>1, <2>2 DEF IsParam
    <3>2. v + 1 \in 1 .. c /\ (v + 1) - 1 = v
      OBVIOUS
    <3>3. x \in Range(seqs[v + 1])
      BY <1>3, <3>1, <3>2
    <3> QED
      BY <3>2, <3>3 DEF RangesUpTo
  <2> QED
    BY <2>1, <2>2
<1> QED
  BY <1>2, <1>5, <1>6

--------------------------------------------------------------------------------
(* The items of a state_dict and their parameters *)

Place(p, x) == [pp |-> p, param |-> x]
Entry(l, part) == [layer |-> l, part |-> part]
LayerItem(k, l, n) == k = 6 * l + n + 1 /\ Item(k) = Entry(l, Parts[n])

LEMMA ItemIs ==
    ASSUME job \in Jobs
    PROVE  /\ ItemCount \in Nat /\ ItemCount > 3
           /\ Item(1) = Entry(0, "embedding")
           /\ Item(ItemCount - 1) = Entry(0, "final_layernorm") /\ Item(ItemCount) = Entry(0, "output_layer")
           /\ \A k \in 1 .. ItemCount : k # 1 /\ k # ItemCount - 1 /\ k # ItemCount =>
                  \E l \in 0 .. job.layers - 1, n \in 1 .. 6 : LayerItem(k, l, n)
           /\ \A l \in 0 .. job.layers - 1, n \in 1 .. 6 :
                  6 * l + n + 1 \in 1 .. ItemCount /\ LayerItem(6 * l + n + 1, l, n)
<1>1. PICK L \in Nat \ {0} : L = job.layers
  BY JobFacts
<1>2. PICK N \in Nat : N = ItemCount /\ N = 6 * L + 3 /\ N > 3
  BY <1>1 DEF ItemCount
<1>3. ASSUME NEW k, k # 1, k # N - 1, k # N
      PROVE  Item(k) = Entry((k - 2) \div 6, Parts[((k - 2) % 6) + 1])
  BY <1>2, <1>3 DEF Item, Entry
<1>4. Item(1) = Entry(0, "embedding") /\ Item(N - 1) = Entry(0, "final_layernorm") /\ Item(N) = Entry(0, "output_layer")
  BY <1>2 DEF Item, Entry
<1>5. ASSUME NEW k \in 1 .. N, k # 1, k # N - 1, k # N
      PROVE  \E l \in 0 .. L - 1, n \in 1 .. 6 : LayerItem(k, l, n)
  <2>1. k - 2 \in Nat /\ k - 2 < 6 * L
    BY <1>2, <1>5
  <2>2. PICK l \in Nat, t \in 0 .. 5 : l = (k - 2) \div 6 /\ t = (k - 2) % 6 /\ k - 2 = 6 * l + t
    BY <2>1
  <2>3. l \in 0 .. L - 1 /\ t + 1 \in 1 .. 6 /\ k = 6 * l + (t + 1) + 1
    BY <2>1, <2>2, <1>5
  <2>4. Item(k) = Entry(l, Parts[t + 1])
    BY <1>3, <1>5, <2>2
  <2> QED
    BY <2>3, <2>4 DEF LayerItem
<1>6. ASSUME NEW l \in 0 .. L - 1, NEW n \in 1 .. 6
      PROVE  6 * l + n + 1 \in 1 .. N /\ LayerItem(6 * l + n + 1, l, n)
  <2>1. PICK k \in Nat : k = 6 * l + n + 1
    OBVIOUS
  <2>2. k \in 1 .. N /\ k # 1 /\ k # N - 1 /\ k # N
    BY <1>2, <2>1
  <2>3. (k - 2) \div 6 = l /\ (k - 2) % 6 = n - 1
    BY <2>1
  <2>4. ((k - 2) % 6) + 1 = n
    BY <2>3
  <2>5. Item(k) = Entry(l, Parts[n])
    BY <1>3, <2>2, <2>3, <2>4, Zenon
  <2> QED
    BY <2>1, <2>2, <2>5 DEF LayerItem
<1> QED
  BY <1>1, <1>2, <1>4, <1>5, <1>6

LEMMA PartOf ==
    ASSUME NEW n \in 1 .. 6
    PROVE  /\ Parts[n] \in Range(Parts)
           /\ Parts[n] \notin {"embedding", "final_layernorm", "output_layer"}
<1>1. DOMAIN Parts = 1 .. 6
  BY DEF Parts
<1>2. Parts[n] \in Range(Parts)
  BY <1>1 DEF Range
<1> QED
  BY <1>2, PartsAre

LEMMA HomeOfLayer ==
    ASSUME NEW l, NEW n \in 1 .. 6
    PROVE  Home(Entry(l, Parts[n])) = Place(LayerMap(l)[1], Layered(LayerMap(l)[2], LayerMap(l)[3], Parts[n]))
BY PartOf DEF Home, Entry, Place, Layered

LEMMA HomeOfOthers ==
    /\ Home(Entry(0, "embedding")) = Place(0, Layered(0, 0, "embedding"))
    /\ Home(Entry(0, "final_layernorm")) = Place(job.pp - 1, Layered(Chunks - 1, 0, "final_layernorm"))
    /\ Home(Entry(0, "output_layer")) = Place(job.pp - 1, Layered(Chunks - 1, 0, "output_layer"))
BY DEF Home, Entry, Place, Layered

\* The home of an item is a parameter of its part and layer.
HomeRight(k) ==
    /\ Item(k) = Entry(Item(k).layer, Item(k).part) /\ Item(k).part \in AllParts
    /\ Home(Item(k)).pp \in 0 .. job.pp - 1
    /\ Home(Item(k)).param[3] = Item(k).part
    /\ OwnLayer(Home(Item(k)).pp, Home(Item(k)).param) = Item(k).layer
    /\ IsParam(Home(Item(k)).pp, Home(Item(k)).param) \/ (Item(k).part = "output_layer" /\ job.tied /\ job.pp = 1)

LEMMA EveryHome ==
    ASSUME job \in Jobs, SameLayers, NEW k \in 1 .. ItemCount
    PROVE  HomeRight(k)
<1>1. job.pp \in Nat \ {0} /\ Chunks \in Nat \ {0}
  BY JobFacts
<1>2. 0 \in 0 .. job.pp - 1 /\ job.pp - 1 \in 0 .. job.pp - 1 /\ 0 \in 0 .. Chunks - 1 /\ Chunks - 1 \in 0 .. Chunks - 1
  BY <1>1
<1>3. ASSUME NEW p \in 0 .. job.pp - 1, NEW x, NEW part \in AllParts, NEW l, Item(k) = Entry(l, part),
             Home(Entry(l, part)) = Place(p, x), x[3] = part, OwnLayer(p, x) = l,
             IsParam(p, x) \/ (part = "output_layer" /\ job.tied /\ job.pp = 1)
      PROVE  HomeRight(k)
  <2>1. Item(k).layer = l /\ Item(k).part = part
    BY <1>3 DEF Entry
  <2>2. Home(Item(k)).pp = p /\ Home(Item(k)).param = x
    BY <1>3 DEF Place
  <2> QED
    BY <1>3, <2>1, <2>2 DEF HomeRight
<1>4. CASE k = 1
  <2>1. InChunk(0, 0, Layered(0, 0, "embedding"))
    BY DEF InChunk
  <2>2. OwnLayer(0, Layered(0, 0, "embedding")) = 0 /\ Layered(0, 0, "embedding")[3] = "embedding"
    BY PartsAre DEF OwnLayer, Layered
  <2> QED
    BY <1>2, <1>3, <1>4, <2>1, <2>2, ItemIs, HomeOfOthers DEF IsParam, AllParts
<1>5. CASE k = ItemCount - 1
  <2> DEFINE x == Layered(Chunks - 1, 0, "final_layernorm")
  <2>1. InChunk(job.pp - 1, Chunks - 1, x)
    BY DEF InChunk
  <2>2. OwnLayer(job.pp - 1, x) = 0 /\ x[3] = "final_layernorm"
    BY PartsAre DEF OwnLayer, Layered
  <2> HIDE DEF x
  <2>3. IsParam(job.pp - 1, x)
    BY <1>2, <2>1 DEF IsParam
  <2>4. Item(k) = Entry(0, "final_layernorm") /\ Home(Entry(0, "final_layernorm")) = Place(job.pp - 1, x)
    BY <1>5, ItemIs, HomeOfOthers DEF x
  <2> QED
    BY <1>2, <1>3, <2>2, <2>3, <2>4 DEF AllParts
<1>6. CASE k = ItemCount
  <2> DEFINE x == Layered(Chunks - 1, 0, "output_layer")
  <2>1. ~(job.tied /\ job.pp = 1) => InChunk(job.pp - 1, Chunks - 1, x)
    BY DEF InChunk
  <2>2. OwnLayer(job.pp - 1, x) = 0 /\ x[3] = "output_layer"
    BY PartsAre DEF OwnLayer, Layered
  <2> HIDE DEF x
  <2>3. IsParam(job.pp - 1, x) \/ (job.tied /\ job.pp = 1)
    BY <1>2, <2>1 DEF IsParam
  <2>4. Item(k) = Entry(0, "output_layer") /\ Home(Entry(0, "output_layer")) = Place(job.pp - 1, x)
    BY <1>6, ItemIs, HomeOfOthers DEF x
  <2> QED
    BY <1>2, <1>3, <2>2, <2>3, <2>4 DEF AllParts
<1>7. CASE k # 1 /\ k # ItemCount - 1 /\ k # ItemCount
  <2>1. PICK l \in 0 .. job.layers - 1, n \in 1 .. 6 : Item(k) = Entry(l, Parts[n])
    <3>1. \E l \in 0 .. job.layers - 1, n \in 1 .. 6 : LayerItem(k, l, n)
      BY <1>7, ItemIs
    <3> QED
      BY <3>1 DEF LayerItem
  <2>2. PICK y : y = LayerMap(l)
    OBVIOUS
  <2>3. /\ y[1] \in 0 .. job.pp - 1 /\ y[2] \in 0 .. Chunks - 1 /\ y[3] \in 0 .. PerModel - 1
        /\ LayerOf(y[1], y[2], y[3]) = l
    BY <2>2, LayerMapIs
  <2>4. PICK p, v, i : p = y[1] /\ v = y[2] /\ i = y[3]
    OBVIOUS
  <2> DEFINE x == Layered(v, i, Parts[n])
  <2>5. x[3] = Parts[n] /\ x[1] = v /\ x[2] = i
    BY DEF Layered
  <2> HIDE DEF x
  <2>6. OwnLayer(p, x) = l
    BY <2>3, <2>4, <2>5, PartOf DEF OwnLayer
  <2>7. InChunk(p, v, x)
    <3>1. LayersIn(p, v) = PerModel
      BY <2>3, <2>4 DEF SameLayers
    <3>2. i \in 0 .. LayersIn(p, v) - 1 /\ Parts[n] \in Range(Parts) /\ x = Layered(v, i, Parts[n])
      BY <2>3, <2>4, <3>1, PartOf DEF x
    <3> QED
      BY <3>2 DEF InChunk
  <2>8. IsParam(p, x)
    BY <2>3, <2>4, <2>7 DEF IsParam
  <2>9. Home(Entry(l, Parts[n])) = Place(p, x)
    BY <2>2, <2>4, HomeOfLayer DEF x
  <2>10. Parts[n] \in AllParts
    BY PartOf DEF AllParts
  <2>11. p \in 0 .. job.pp - 1
    BY <2>3, <2>4
  <2> QED
    BY <1>3, <2>1, <2>5, <2>6, <2>8, <2>9, <2>10, <2>11
<1> QED
  BY <1>4, <1>5, <1>6, <1>7

\* Every parameter is the home of an item.
IsHome(p, x) == \E k \in 1 .. ItemCount : Home(Item(k)) = Place(p, x)

LEMMA EveryParam ==
    ASSUME job \in Jobs, SameLayers, NEW p \in 0 .. job.pp - 1, NEW x, IsParam(p, x)
    PROVE  IsHome(p, x)
<1>1. 1 \in 1 .. ItemCount /\ ItemCount - 1 \in 1 .. ItemCount /\ ItemCount \in 1 .. ItemCount
  BY ItemIs
<1>2. PICK v \in 0 .. Chunks - 1 : InChunk(p, v, x)
  BY DEF IsParam
<1>3. CASE p = 0 /\ v = 0 /\ x = Layered(v, 0, "embedding")
  BY <1>1, <1>3, ItemIs, HomeOfOthers DEF IsHome
<1>4. CASE p = job.pp - 1 /\ v = Chunks - 1 /\ x = Layered(v, 0, "final_layernorm")
  BY <1>1, <1>4, ItemIs, HomeOfOthers DEF IsHome
<1>5. CASE p = job.pp - 1 /\ v = Chunks - 1 /\ x = Layered(v, 0, "output_layer")
  BY <1>1, <1>5, ItemIs, HomeOfOthers DEF IsHome
<1>6. ASSUME NEW i \in 0 .. LayersIn(p, v) - 1, NEW part \in Range(Parts), x = Layered(v, i, part)
      PROVE  IsHome(p, x)
  <2>1. InModel(p, v) /\ i \in 0 .. PerModel - 1
    BY DEF InModel, SameLayers
  <2>2. PICK l \in 0 .. job.layers - 1 : LayerMap(l) = <<p, v, i>>
    BY <2>1, LayerMapIs
  <2>3. PICK n \in 1 .. 6 : part = Parts[n]
    <3>1. DOMAIN Parts = 1 .. 6
      BY DEF Parts
    <3> QED
      BY <3>1 DEF Range
  <2>4. Home(Entry(l, Parts[n])) = Place(p, x)
    BY <1>6, <2>2, <2>3, HomeOfLayer
  <2>5. PICK k : k = 6 * l + n + 1
    OBVIOUS
  <2>6. k \in 1 .. ItemCount /\ Item(k) = Entry(l, Parts[n])
    BY <2>5, ItemIs DEF LayerItem
  <2> QED
    BY <2>4, <2>6 DEF IsHome
<1> QED
  BY <1>2, <1>3, <1>4, <1>5, <1>6 DEF InChunk

--------------------------------------------------------------------------------
(* A step leaves the configuration alone *)

LEMMA SameRanks ==
    ASSUME job' = job
    PROVE  /\ Ranks' = Ranks /\ Chunks' = Chunks /\ ItemCount' = ItemCount /\ PerModel' = PerModel
           /\ \A r : Tp(r)' = Tp(r) /\ Cp(r)' = Cp(r) /\ Dp(r)' = Dp(r) /\ Pp(r)' = Pp(r)
           /\ \A p, v : LayersIn(p, v)' = LayersIn(p, v)
           /\ SameLayers' = SameLayers
<1>1. Ranks' = Ranks /\ Chunks' = Chunks /\ ItemCount' = ItemCount
  BY DEF Ranks, StageSize, Chunks, ItemCount
<1>2. PerModel' = PerModel
  BY <1>1 DEF PerModel
<1>3. \A r : Tp(r)' = Tp(r) /\ Cp(r)' = Cp(r) /\ Dp(r)' = Dp(r) /\ Pp(r)' = Pp(r)
  BY DEF Tp, Cp, Dp, Pp, StageSize
<1>4. \A p : StageLayers(p)' = StageLayers(p)
  BY DEF StageLayers, MiddleStages
<1>5. \A p, v : LayersIn(p, v)' = LayersIn(p, v)
  BY <1>1, <1>4 DEF LayersIn
<1>6. SameLayers' = SameLayers
  BY <1>1, <1>2, <1>5 DEF SameLayers
<1> QED
  BY <1>1, <1>2, <1>3, <1>5, <1>6

\* The parameters of rank r.
ParamsOf(r) == Range(StageParams(Pp(r)))

LEMMA SameParams ==
    ASSUME job' = job
    PROVE  /\ \A p, v, i : LayerOf(p, v, i)' = LayerOf(p, v, i)
           /\ \A r, x : RightTensor(r, x)' = RightTensor(r, x)
           /\ \A p : StageParams(p)' = StageParams(p)
           /\ \A r : ParamsOf(r)' = ParamsOf(r)
           /\ \A k : Home(Item(k))' = Home(Item(k))
<1>1. ASSUME NEW p, NEW v, NEW i PROVE LayerOf(p, v, i)' = LayerOf(p, v, i)
  BY DEF LayerOf, LayersIn, StageLayers, MiddleStages, Chunks
<1>2. ASSUME NEW r, NEW x PROVE RightTensor(r, x)' = RightTensor(r, x)
  BY DEF RightTensor, Full, Share, Slice, Units, Tp, Pp, StageSize, LayerOf, LayersIn, StageLayers,
         MiddleStages, Chunks
<1>3. ASSUME NEW p PROVE StageParams(p)' = StageParams(p)
  BY SameRanks DEF StageParams, ChunkParams
<1>4. ASSUME NEW k PROVE Home(Item(k))' = Home(Item(k))
  BY SameRanks DEF Home, Item, LayerMap
<1>5. ASSUME NEW r PROVE ParamsOf(r)' = ParamsOf(r)
  BY <1>3, SameRanks DEF ParamsOf
<1> QED
  BY <1>1, <1>2, <1>3, <1>4, <1>5

--------------------------------------------------------------------------------
(* Loading *)

Calls == {"load", "sync", "merge", "done"}

Shapes ==
    /\ job \in Jobs /\ call \in Calls /\ at \in [Ranks -> Nat]
    /\ DOMAIN param = Ranks /\ param = [r \in Ranks |-> param[r]]
    /\ \A r \in Ranks : DOMAIN param[r] = ParamsOf(r) /\ param[r] = [x \in ParamsOf(r) |-> param[r][x]]

LEMMA ParamFacts ==
    ASSUME job \in Jobs, NEW r \in Ranks, NEW x \in ParamsOf(r)
    PROVE  IsParam(Pp(r), x) /\ x[1] \in 0 .. Chunks - 1 /\ x[3] \in AllParts
<1>1. Pp(r) \in 0 .. job.pp - 1
  BY RankFacts
<1>2. IsParam(Pp(r), x)
  BY <1>1, StageParamsAre DEF ParamsOf
<1> QED
  BY <1>2 DEF IsParam, InChunk, Layered, AllParts

LEMMA PassAt ==
    ASSUME Shapes, job' = job, NEW G, NEW by \in Nat, Pass(G, by)
    PROVE  /\ at' \in [Ranks -> Nat]
           /\ \A r \in Ranks : at'[r] = IF r \in G THEN at[r] + by ELSE at[r]
BY SameRanks DEF Shapes, Pass

LEMMA ShapesInit == Init => Shapes
<1> SUFFICES ASSUME Init PROVE Shapes
  OBVIOUS
<1>1. job \in Jobs
  BY DEF Init
<1>2. at \in [Ranks -> Nat]
  <2>1. ItemCount \in Nat /\ Chunks \in Nat
    BY <1>1, ItemIs, JobFacts
  <2>2. \A r : EntersAt("load", r) \in Nat
    BY <2>1 DEF EntersAt
  <2> QED
    BY <2>2 DEF Init
<1> QED
  BY <1>1, <1>2 DEF Init, Shapes, ParamsOf, Calls

LEMMA ShapesStep == Shapes /\ [Next]_vars => Shapes'
<1> SUFFICES ASSUME Shapes, [Next]_vars PROVE Shapes'
  OBVIOUS
<1>1. job' = job
  BY DEF Next, vars, LoadItem, Barrier, CopyChunk, BroadcastEntry, GatherEntry, MergeItem, NextCall, AssertFails
<1>2. Ranks' = Ranks /\ \A r : ParamsOf(r)' = ParamsOf(r)
  BY <1>1, SameRanks, SameParams
<1>3. ASSUME call' \in Calls, at' \in [Ranks -> Nat], param' = param
      PROVE  Shapes'
  BY <1>1, <1>2, <1>3 DEF Shapes
<1>4. 0 \in Nat /\ 1 \in Nat /\ 2 \in Nat
  OBVIOUS
<1>5. CASE LoadItem
  <2>1. PICK r \in Ranks :
            /\ param' = [q \in Ranks |->
                   IF q \in ModelGroup(r) /\ Pp(q) = Home(Item(at[r] + 1)).pp /\ Home(Item(at[r] + 1)).param \in DOMAIN param[q]
                   THEN [param[q] EXCEPT ![Home(Item(at[r] + 1)).param] = LoadedShard(Item(at[r] + 1), Tp(q))]
                   ELSE param[q]]
            /\ Pass(ModelGroup(r), 1)
    BY <1>5 DEF LoadItem
  <2>2. at' \in [Ranks -> Nat]
    BY <1>1, <1>4, <2>1, PassAt
  <2>3. call' = call
    BY <1>5 DEF LoadItem
  <2>4. DOMAIN param' = Ranks /\ param' = [q \in Ranks |-> param'[q]]
    BY <2>1
  <2>5. ASSUME NEW q \in Ranks
        PROVE  DOMAIN param'[q] = ParamsOf(q) /\ param'[q] = [x \in ParamsOf(q) |-> param'[q][x]]
    BY <2>1 DEF Shapes
  <2> QED
    BY <1>1, <1>2, <2>2, <2>3, <2>4, <2>5 DEF Shapes
<1>6. CASE CopyChunk
  <2>1. PICK first \in Ranks :
            /\ param' = [r \in Ranks |->
                   IF r \in DataGroup(first)
                   THEN [x \in DOMAIN param[r] |->
                            IF x[1] = at[first] - ItemCount - 1 THEN param[first][x] ELSE param[r][x]]
                   ELSE param[r]]
            /\ Pass(DataGroup(first), 1)
    BY <1>6 DEF CopyChunk
  <2>2. at' \in [Ranks -> Nat]
    BY <1>1, <1>4, <2>1, PassAt
  <2>3. call' = call
    BY <1>6 DEF CopyChunk
  <2>4. DOMAIN param' = Ranks /\ param' = [r \in Ranks |-> param'[r]]
    BY <2>1
  <2>5. ASSUME NEW r \in Ranks
        PROVE  DOMAIN param'[r] = ParamsOf(r) /\ param'[r] = [x \in ParamsOf(r) |-> param'[r][x]]
    BY <2>1 DEF Shapes
  <2> QED
    BY <1>1, <1>2, <2>2, <2>3, <2>4, <2>5 DEF Shapes
<1>7. CASE Barrier \/ BroadcastEntry \/ GatherEntry \/ MergeItem
  <2>1. PICK by \in Nat : \E G : Pass(G, by)
    <3>1. CASE Barrier
      BY <1>4, <3>1 DEF Barrier
    <3>2. CASE BroadcastEntry
      BY <1>4, <3>2, Zenon DEF BroadcastEntry
    <3>3. CASE GatherEntry
      BY <1>4, <3>3, Zenon DEF GatherEntry
    <3>4. CASE MergeItem
      BY <1>4, <3>4, Zenon DEF MergeItem
    <3> QED
      BY <1>7, <3>1, <3>2, <3>3, <3>4
  <2>2. call' = call /\ param' = param
    BY <1>7 DEF Barrier, BroadcastEntry, GatherEntry, MergeItem
  <2>3. at' \in [Ranks -> Nat]
    BY <1>1, <2>1, PassAt
  <2> QED
    BY <1>3, <2>2, <2>3 DEF Shapes
<1>8. CASE NextCall
  <2>1. call' \in Calls /\ param' = param
    BY <1>8 DEF NextCall, Calls
  <2>2. \A r : EntersAt(call', r) \in Nat
    <3>1. ItemCount \in Nat /\ Chunks \in Nat
      BY ItemIs, JobFacts DEF Shapes
    <3> QED
      BY <3>1 DEF EntersAt
  <2>3. at' \in [Ranks -> Nat]
    BY <1>8, <2>2 DEF NextCall
  <2> QED
    BY <1>3, <2>1, <2>3
<1>9. CASE AssertFails \/ UNCHANGED vars
  BY <1>3, <1>9 DEF AssertFails, vars, Shapes
<1> QED
  BY <1>5, <1>6, <1>7, <1>8, <1>9 DEF Next

Right(r, x) == param[r][x] = RightTensor(r, x)
AllRight == \A r \in Ranks : \A x \in ParamsOf(r) : Right(r, x)

\* A rank of the first replica has been through the collective of the parameter's item; a
\* chunk has been copied.
Loaded(r, x) == Dp(r) = 0 /\ \E k \in 1 .. ItemCount : k <= at[r] /\ Home(Item(k)) = Place(Pp(r), x)
Copied(r, x) == x[1] < at[r] - ItemCount - 1

LoadInv ==
    /\ call = "load" /\ job.hf /\ ~SameLayers => \A r \in Ranks : at[r] <= ItemCount
    /\ call = "load" /\ job.hf /\ SameLayers =>
           \A r \in Ranks : \A x \in ParamsOf(r) : Loaded(r, x) \/ Copied(r, x) => Right(r, x)
    /\ call = "load" /\ ~job.hf => AllRight /\ \A r \in Ranks : at[r] = ItemCount + 1 + Chunks
    /\ call # "load" => AllRight

LEMMA HomeLoads ==
    ASSUME job \in Jobs, SameLayers, NEW k \in 1 .. ItemCount, NEW q \in Ranks, Pp(q) = Home(Item(k)).pp
    PROVE  LoadedShard(Item(k), Tp(q)) = RightTensor(q, Home(Item(k)).param)
<1>1. HomeRight(k)
  BY EveryHome
<1>2. PICK l, part, x : l = Item(k).layer /\ part = Item(k).part /\ x = Home(Item(k)).param
  OBVIOUS
<1>3. Item(k) = Entry(l, part) /\ part \in AllParts /\ x[3] = part /\ OwnLayer(Pp(q), x) = l
  BY <1>1, <1>2 DEF HomeRight
<1>4. Tp(q) \in 0 .. job.tp - 1
  BY RankFacts
<1>5. LoadedShard(Entry(l, part), Tp(q)) = ShardOf(part, l, Tp(q))
  BY <1>3, <1>4, LoadedIs DEF Entry
<1> QED
  BY <1>2, <1>3, <1>5, RightIs

LEMMA SomeRank ==
    ASSUME job \in Jobs
    PROVE  0 \in Ranks /\ Tp(0) = 0 /\ Cp(0) = 0 /\ Dp(0) = 0 /\ Pp(0) = 0
<1>1. PICK t \in Nat \ {0}, c \in Nat \ {0}, d \in Nat \ {0}, p \in Nat \ {0}, s \in Nat \ {0} :
          t = job.tp /\ c = job.cp /\ d = job.dp /\ p = job.pp /\ s = StageSize
  BY JobFacts, RankFacts
<1>2. PICK u \in Nat \ {0}, w \in Nat \ {0} : u = t * c /\ w = s * p
  OBVIOUS
<1>3. 0 % t = 0 /\ 0 \div t = 0 /\ 0 % c = 0 /\ 0 \div u = 0 /\ 0 % d = 0 /\ 0 \div s = 0
  OBVIOUS
<1> QED
  BY <1>1, <1>2, <1>3 DEF Ranks, Tp, Cp, Dp, Pp

LEMMA LoadInvInit == Init => LoadInv
<1> SUFFICES ASSUME Init PROVE LoadInv
  OBVIOUS
<1>1. Shapes /\ job \in Jobs
  BY ShapesInit DEF Shapes
<1>2. call = "load" /\ (\A r \in Ranks : at[r] = EntersAt("load", r))
  BY DEF Init
<1>3. ItemCount \in Nat /\ Chunks \in Nat
  BY <1>1, ItemIs, JobFacts
<1>4. CASE job.hf
  <2>1. \A r \in Ranks : at[r] = IF Dp(r) # 0 THEN ItemCount ELSE 0
    BY <1>2, <1>4 DEF EntersAt
  <2>2. ASSUME NEW r \in Ranks, NEW x \in ParamsOf(r) PROVE ~Loaded(r, x) /\ ~Copied(r, x)
    <3>1. x[1] \in Nat
      <4>1. x[1] \in 0 .. Chunks - 1
        BY <1>1, ParamFacts
      <4> QED
        BY <4>1, <1>3
    <3> QED
      BY <1>3, <2>1, <3>1 DEF Loaded, Copied
  <2> QED
    BY <1>2, <1>3, <1>4, <2>1, <2>2 DEF LoadInv
<1>5. CASE ~job.hf
  <2>1. \A r \in Ranks : at[r] = ItemCount + 1 + Chunks
    BY <1>2, <1>5 DEF EntersAt
  <2>2. AllRight
    BY <1>5 DEF Init, AllRight, Right, ParamsOf
  <2> QED
    BY <1>2, <1>5, <2>1, <2>2 DEF LoadInv
<1> QED
  BY <1>4, <1>5

\* Where nothing but the counters of other calls changes.
LEMMA LoadInvKept ==
    Shapes /\ LoadInv /\ call # "load" /\ call' # "load" /\ job' = job /\ param' = param => LoadInv'
<1> SUFFICES ASSUME Shapes, LoadInv, call # "load", call' # "load", job' = job, param' = param PROVE LoadInv'
  OBVIOUS
<1>1. AllRight
  BY DEF LoadInv
<1>2. AllRight'
  BY <1>1, SameRanks, SameParams DEF AllRight, Right
<1> QED
  BY <1>2 DEF LoadInv

LEMMA LoadItemLoads == Shapes /\ LoadInv /\ LoadItem => LoadInv'
<1> SUFFICES ASSUME Shapes, LoadInv, LoadItem PROVE LoadInv'
  OBVIOUS
<1>1. job' = job /\ job \in Jobs /\ call = "load" /\ call' = "load" /\ job.hf /\ SameLayers
  BY DEF LoadItem, Shapes
<1>2. /\ SameLayers' /\ Ranks' = Ranks /\ ItemCount' = ItemCount /\ Chunks' = Chunks
      /\ \A r : Dp(r)' = Dp(r) /\ Pp(r)' = Pp(r) /\ ParamsOf(r)' = ParamsOf(r)
      /\ \A r, x : RightTensor(r, x)' = RightTensor(r, x)
      /\ \A k : Home(Item(k))' = Home(Item(k))
  BY <1>1, SameRanks, SameParams
<1>3. PICK r \in Ranks :
          /\ Dp(r) = 0 /\ at[r] < ItemCount /\ Together(ModelGroup(r), at[r])
          /\ param' = [q \in Ranks |->
                 IF q \in ModelGroup(r) /\ Pp(q) = Home(Item(at[r] + 1)).pp /\ Home(Item(at[r] + 1)).param \in DOMAIN param[q]
                 THEN [param[q] EXCEPT ![Home(Item(at[r] + 1)).param] = LoadedShard(Item(at[r] + 1), Tp(q))]
                 ELSE param[q]]
          /\ Pass(ModelGroup(r), 1)
  BY DEF LoadItem
<1>4. PICK k, h, G : k = at[r] + 1 /\ h = Home(Item(k)) /\ G = ModelGroup(r)
  OBVIOUS
<1>5. ItemCount \in Nat /\ at \in [Ranks -> Nat] /\ k \in 1 .. ItemCount /\ at[r] \in Nat /\ at[r] = k - 1
  BY <1>1, <1>3, <1>4, ItemIs DEF Shapes
<1>6. \A q \in Ranks : at'[q] = IF q \in G THEN at[q] + 1 ELSE at[q]
  BY <1>1, <1>3, <1>4, PassAt
<1>7. \A q \in Ranks : q \in G => Dp(q) = 0 /\ at[q] = k - 1
  BY <1>3, <1>4, <1>5 DEF ModelGroup, Together
<1>8. ASSUME NEW q \in Ranks, NEW x \in ParamsOf(q), Loaded(q, x)' \/ Copied(q, x)'
      PROVE  Right(q, x)'
  <2>1. x[1] \in Nat
    <3>1. x[1] \in 0 .. Chunks - 1
      BY <1>1, ParamFacts
    <3>2. Chunks \in Nat
      BY <1>1, JobFacts
    <3> QED
      BY <3>1, <3>2
  <2>2. CASE q \notin G
    <3>1. param'[q] = param[q] /\ at'[q] = at[q]
      BY <1>3, <1>4, <1>6, <2>2
    <3>2. Loaded(q, x) \/ Copied(q, x)
      BY <1>2, <1>8, <3>1 DEF Loaded, Copied
    <3>3. Right(q, x)
      BY <1>1, <3>2 DEF LoadInv
    <3> QED
      BY <1>2, <3>1, <3>3 DEF Right
  <2>3. CASE q \in G
    <3>1. at'[q] = k /\ at[q] = k - 1 /\ Dp(q) = 0
      BY <1>5, <1>6, <1>7, <2>3
    <3>2. ~Copied(q, x)'
      BY <1>2, <1>5, <2>1, <3>1 DEF Copied
    <3>3. PICK i \in 1 .. ItemCount : i <= k /\ Home(Item(i)) = Place(Pp(q), x)
      BY <1>2, <1>8, <3>1, <3>2 DEF Loaded
    <3>4. DOMAIN param[q] = ParamsOf(q)
      BY DEF Shapes
    <3>5. param'[q] = IF Pp(q) = h.pp /\ h.param \in ParamsOf(q)
                      THEN [param[q] EXCEPT ![h.param] = LoadedShard(Item(k), Tp(q))]
                      ELSE param[q]
      BY <1>3, <1>4, <2>3, <3>4
    <3>6. CASE Pp(q) = h.pp /\ h.param = x
      <4>1. param'[q][x] = LoadedShard(Item(k), Tp(q))
        BY <3>4, <3>5, <3>6
      <4>2. LoadedShard(Item(k), Tp(q)) = RightTensor(q, x)
        BY <1>1, <1>4, <1>5, <3>6, HomeLoads
      <4> QED
        BY <1>2, <4>1, <4>2 DEF Right
    <3>7. CASE ~(Pp(q) = h.pp /\ h.param = x)
      <4>1. param'[q][x] = param[q][x]
        BY <3>4, <3>5, <3>7
      <4>2. i # k
        <5>1. Home(Item(i)).pp = Pp(q) /\ Home(Item(i)).param = x
          BY <3>3 DEF Place
        <5> QED
          BY <1>4, <3>7, <5>1
      <4>3. i <= at[q]
        BY <1>5, <3>1, <3>3, <4>2
      <4>4. Loaded(q, x)
        BY <3>1, <3>3, <4>3 DEF Loaded
      <4>5. Right(q, x)
        BY <1>1, <4>4 DEF LoadInv
      <4> QED
        BY <1>2, <4>1, <4>5 DEF Right
    <3> QED
      BY <3>6, <3>7
  <2> QED
    BY <2>2, <2>3
<1> QED
  BY <1>1, <1>2, <1>8 DEF LoadInv

LEMMA BarrierLoads == Shapes /\ LoadInv /\ Barrier => LoadInv'
<1> SUFFICES ASSUME Shapes, LoadInv, Barrier PROVE LoadInv'
  OBVIOUS
<1>1. job' = job /\ job \in Jobs /\ call' = call /\ param' = param /\ SameLayers
  BY DEF Barrier, Shapes
<1>2. CASE call # "load"
  BY <1>1, <1>2, LoadInvKept
<1>3. CASE call = "load"
  <2>1. /\ SameLayers' /\ Ranks' = Ranks /\ ItemCount' = ItemCount /\ Chunks' = Chunks
        /\ \A r : Dp(r)' = Dp(r) /\ Pp(r)' = Pp(r) /\ ParamsOf(r)' = ParamsOf(r)
        /\ \A r, x : RightTensor(r, x)' = RightTensor(r, x)
        /\ \A k : Home(Item(k))' = Home(Item(k))
    BY <1>1, SameRanks, SameParams
  <2>2. ItemCount \in Nat /\ Chunks \in Nat \ {0} /\ 0 \in Ranks
    BY <1>1, ItemIs, JobFacts, SomeRank
  <2>3. \A q \in Ranks : at[q] = ItemCount /\ at'[q] = ItemCount + 1
    <3>1. Together(Ranks, ItemCount) /\ Pass(Ranks, 1) /\ 1 \in Nat
      BY DEF Barrier
    <3> QED
      BY <1>1, <3>1, PassAt DEF Together
  <2>4. job.hf
    <3>1. ~(at[0] = ItemCount + 1 + Chunks)
      BY <2>2, <2>3
    <3> QED
      BY <1>1, <1>3, <2>2, <3>1, JobFacts DEF LoadInv
  <2>5. ASSUME NEW q \in Ranks, NEW x \in ParamsOf(q), Loaded(q, x)' \/ Copied(q, x)'
        PROVE  Right(q, x)'
    <3>1. x[1] \in Nat
      <4>1. x[1] \in 0 .. Chunks - 1
        BY <1>1, ParamFacts
      <4> QED
        BY <2>2, <4>1
    <3>2. ~Copied(q, x)'
      BY <2>1, <2>2, <2>3, <3>1 DEF Copied
    <3>3. Loaded(q, x)
      BY <2>1, <2>2, <2>3, <2>5, <3>2 DEF Loaded
    <3>4. Right(q, x)
      BY <1>1, <1>3, <2>4, <3>3 DEF LoadInv
    <3> QED
      BY <1>1, <2>1, <3>4 DEF Right
  <2> QED
    BY <1>1, <1>3, <2>1, <2>4, <2>5 DEF LoadInv
<1> QED
  BY <1>2, <1>3

\* What the first rank of a data-parallel group has is right once its items are loaded.
LEMMA CopyLoads == Shapes /\ LoadInv /\ CopyChunk => LoadInv'
<1> SUFFICES ASSUME Shapes, LoadInv, CopyChunk PROVE LoadInv'
  OBVIOUS
<1>1. job' = job /\ job \in Jobs /\ call = "load" /\ call' = "load"
  BY DEF CopyChunk, Shapes
<1>2. /\ SameLayers' = SameLayers /\ Ranks' = Ranks /\ ItemCount' = ItemCount /\ Chunks' = Chunks
      /\ \A r : Dp(r)' = Dp(r) /\ Pp(r)' = Pp(r) /\ ParamsOf(r)' = ParamsOf(r)
      /\ \A r, x : RightTensor(r, x)' = RightTensor(r, x)
      /\ \A k : Home(Item(k))' = Home(Item(k))
  BY <1>1, SameRanks, SameParams
<1>3. PICK first \in Ranks :
          /\ Dp(first) = 0 /\ at[first] - ItemCount - 1 \in 0 .. Chunks - 1
          /\ Together(DataGroup(first), at[first])
          /\ param' = [r \in Ranks |->
                 IF r \in DataGroup(first)
                 THEN [x \in DOMAIN param[r] |->
                          IF x[1] = at[first] - ItemCount - 1 THEN param[first][x] ELSE param[r][x]]
                 ELSE param[r]]
          /\ Pass(DataGroup(first), 1)
  BY DEF CopyChunk
<1>4. PICK v, G : v = at[first] - ItemCount - 1 /\ G = DataGroup(first)
  OBVIOUS
<1>5. ItemCount \in Nat /\ Chunks \in Nat \ {0} /\ at \in [Ranks -> Nat] /\ at[first] \in Nat
  BY <1>1, ItemIs, JobFacts DEF Shapes
<1>6. v \in 0 .. Chunks - 1 /\ at[first] = v + ItemCount + 1
  BY <1>3, <1>4, <1>5
<1>7. job.hf /\ SameLayers
  <2>1. ~(at[first] = ItemCount + 1 + Chunks) /\ ~(at[first] <= ItemCount)
    BY <1>5, <1>6
  <2> QED
    BY <1>1, <2>1, JobFacts DEF LoadInv
<1>8. \A q \in Ranks : at'[q] = IF q \in G THEN at[q] + 1 ELSE at[q]
  <2>1. 1 \in Nat
    OBVIOUS
  <2> QED
    BY <1>1, <1>3, <1>4, <2>1, PassAt
<1>9. ASSUME NEW q \in Ranks, NEW x \in ParamsOf(q), Loaded(q, x)' \/ Copied(q, x)'
      PROVE  Right(q, x)'
  <2>1. x[1] \in 0 .. Chunks - 1 /\ IsParam(Pp(q), x)
    BY <1>1, ParamFacts
  <2>2. CASE q \notin G
    <3>1. param'[q] = param[q] /\ at'[q] = at[q]
      BY <1>3, <1>4, <1>8, <2>2
    <3>2. Loaded(q, x) \/ Copied(q, x)
      BY <1>2, <1>9, <3>1 DEF Loaded, Copied
    <3>3. Right(q, x)
      BY <1>1, <1>7, <3>2 DEF LoadInv
    <3> QED
      BY <1>2, <3>1, <3>3 DEF Right
  <2>3. CASE q \in G
    <3>1. at[q] = v + ItemCount + 1 /\ at'[q] = v + ItemCount + 1 + 1
      BY <1>3, <1>4, <1>5, <1>6, <1>8, <2>3 DEF Together
    <3>2. Pp(q) = Pp(first) /\ Tp(q) = Tp(first)
      BY <1>4, <2>3 DEF DataGroup
    <3>3. ParamsOf(q) = ParamsOf(first)
      BY <3>2 DEF ParamsOf
    <3>4. DOMAIN param[q] = ParamsOf(q)
      BY DEF Shapes
    <3>5. param'[q] = [y \in ParamsOf(q) |-> IF y[1] = v THEN param[first][y] ELSE param[q][y]]
      BY <1>3, <1>4, <2>3, <3>4
    <3>6. CASE x[1] = v
      <4>1. param'[q][x] = param[first][x]
        BY <3>5, <3>6
      <4>2. IsHome(Pp(first), x)
        <5>1. Pp(first) \in 0 .. job.pp - 1
          BY <1>1, RankFacts
        <5> QED
          BY <1>1, <1>7, <2>1, <3>2, <5>1, EveryParam
      <4>3. PICK k \in 1 .. ItemCount : Home(Item(k)) = Place(Pp(first), x)
        BY <4>2 DEF IsHome
      <4>4. k <= at[first]
        BY <1>5, <1>6
      <4>5. Loaded(first, x)
        BY <1>3, <4>3, <4>4 DEF Loaded
      <4>6. Right(first, x)
        BY <1>1, <1>7, <3>3, <4>5 DEF LoadInv
      <4>7. RightTensor(q, x) = RightTensor(first, x)
        BY <3>2, RightIs
      <4> QED
        BY <1>2, <4>1, <4>6, <4>7 DEF Right
    <3>7. CASE x[1] # v
      <4>1. param'[q][x] = param[q][x]
        BY <3>5, <3>7
      <4>2. Loaded(q, x) \/ Copied(q, x)
        <5>1. CASE Copied(q, x)'
          <6>1. PICK N \in Nat, V \in Nat, X \in Nat : N = ItemCount /\ V = v /\ X = x[1]
            BY <1>5, <1>6, <2>1
          <6>2. X < at'[q] - N - 1 /\ at'[q] = V + N + 1 + 1 /\ X # V
            BY <1>2, <3>1, <3>7, <5>1, <6>1 DEF Copied
          <6>3. X < V + N + 1 - N - 1
            BY <6>2
          <6> QED
            BY <3>1, <6>1, <6>3 DEF Copied
        <5>2. CASE Loaded(q, x)'
          <6>1. PICK k \in 1 .. ItemCount : Home(Item(k)) = Place(Pp(q), x) /\ Dp(q) = 0
            BY <1>2, <5>2 DEF Loaded
          <6>2. k <= at[q]
            BY <1>5, <1>6, <3>1
          <6> QED
            BY <6>1, <6>2 DEF Loaded
        <5> QED
          BY <1>9, <5>1, <5>2
      <4>3. Right(q, x)
        BY <1>1, <1>7, <4>2 DEF LoadInv
      <4> QED
        BY <1>2, <4>1, <4>3 DEF Right
    <3> QED
      BY <3>6, <3>7
  <2> QED
    BY <2>2, <2>3
<1>10. job'.hf /\ SameLayers'
  BY <1>1, <1>2, <1>7
<1> QED
  BY <1>1, <1>2, <1>9, <1>10 DEF LoadInv

\* When the call returns, every chunk of every rank has been copied.
LEMMA LoadReturned ==
    Shapes /\ LoadInv /\ call = "load" /\ Returned => AllRight
<1> SUFFICES ASSUME Shapes, LoadInv, call = "load", Returned PROVE AllRight
  OBVIOUS
<1>1. job \in Jobs /\ ItemCount \in Nat /\ Chunks \in Nat \ {0} /\ job.hf \in BOOLEAN
  BY ItemIs, JobFacts DEF Shapes
<1>2. \A r \in Ranks : at[r] = ItemCount + 1 + Chunks
  BY DEF Returned
<1>3. CASE ~job.hf
  BY <1>1, <1>3 DEF LoadInv
<1>4. CASE job.hf
  <2>1. SameLayers
    <3>1. ~(at[0] <= ItemCount) /\ 0 \in Ranks
      BY <1>1, <1>2, SomeRank
    <3> QED
      BY <1>4, <3>1 DEF LoadInv
  <2>2. ASSUME NEW r \in Ranks, NEW x \in ParamsOf(r) PROVE Right(r, x)
    <3>1. x[1] \in 0 .. Chunks - 1
      BY <1>1, ParamFacts
    <3>2. Copied(r, x)
      BY <1>1, <1>2, <3>1 DEF Copied
    <3> QED
      BY <1>4, <2>1, <3>2 DEF LoadInv
  <2> QED
    BY <2>2 DEF AllRight
<1> QED
  BY <1>1, <1>3, <1>4

LEMMA LoadInvStep == Shapes /\ LoadInv /\ [Next]_vars => LoadInv'
<1> SUFFICES ASSUME Shapes, LoadInv, [Next]_vars PROVE LoadInv'
  OBVIOUS
<1>1. CASE LoadItem
  BY <1>1, LoadItemLoads
<1>2. CASE Barrier
  BY <1>2, BarrierLoads
<1>3. CASE CopyChunk
  BY <1>3, CopyLoads
<1>4. CASE BroadcastEntry \/ GatherEntry \/ MergeItem
  <2>1. call # "load" /\ call' # "load" /\ job' = job /\ param' = param
    BY <1>4 DEF BroadcastEntry, GatherEntry, MergeItem
  <2> QED
    BY <2>1, LoadInvKept
<1>5. CASE NextCall
  <2>1. job' = job /\ param' = param /\ call' # "load" /\ Returned
    BY <1>5 DEF NextCall
  <2>2. AllRight
    BY <2>1, LoadReturned DEF LoadInv
  <2>3. AllRight'
    BY <2>1, <2>2, SameRanks, SameParams DEF AllRight, Right
  <2> QED
    BY <2>1, <2>3 DEF LoadInv
<1>6. CASE AssertFails \/ UNCHANGED vars
  <2>1. job' = job /\ call' = call /\ at' = at /\ param' = param
    BY <1>6 DEF AssertFails, vars
  <2>2. /\ SameLayers' = SameLayers /\ Ranks' = Ranks /\ ItemCount' = ItemCount /\ Chunks' = Chunks
        /\ \A r : Dp(r)' = Dp(r) /\ Pp(r)' = Pp(r) /\ ParamsOf(r)' = ParamsOf(r)
        /\ \A r, x : RightTensor(r, x)' = RightTensor(r, x)
        /\ \A k : Home(Item(k))' = Home(Item(k))
    BY <2>1, SameRanks, SameParams
  <2>3. AllRight' = AllRight /\ \A r, x : Right(r, x)' = Right(r, x) /\ Loaded(r, x)' = Loaded(r, x) /\ Copied(r, x)' = Copied(r, x)
    BY <2>1, <2>2 DEF AllRight, Right, Loaded, Copied
  <2> QED
    BY <2>1, <2>2, <2>3 DEF LoadInv
<1> QED
  BY <1>1, <1>2, <1>3, <1>4, <1>5, <1>6 DEF Next

\* Loading puts every weight in its place: see LoadedInPlace (loader.py).
THEOREM LoadingRight == Spec => []LoadedInPlace
<1>1. Init => Shapes /\ LoadInv
  BY ShapesInit, LoadInvInit
<1>2. Shapes /\ LoadInv /\ [Next]_vars => (Shapes /\ LoadInv)'
  BY ShapesStep, LoadInvStep
<1>3. Shapes /\ LoadInv => LoadedInPlace
  <2> SUFFICES ASSUME Shapes, LoadInv, call = "load", Returned PROVE \A r \in Ranks : \A x \in DOMAIN param[r] : Right(r, x)
    BY DEF LoadedInPlace, Right
  <2> QED
    BY LoadReturned DEF AllRight, Shapes
<1> QED
  BY <1>1, <1>2, <1>3, PTL DEF Spec

--------------------------------------------------------------------------------
(* Merging *)

Pair(l, name)  == <<<<l, name>>, Full(l, name)>>
Names(part)    == {InHF(part)[n] : n \in DOMAIN InHF(part)}
Pairs(l, part) == {Pair(l, name) : name \in Names(part)}

\* What rank 0 keeps of an item.
Kept(k) == IF job.tied /\ Item(k).part = "output_layer" THEN {} ELSE Pairs(Item(k).layer, Item(k).part)
KeptUpTo(m) == UNION {Kept(k) : k \in {k \in 1 .. ItemCount : k <= m}}

MergeInv ==
    /\ call = "load" \/ call = "sync" => merged = {}
    /\ call = "merge" /\ ~SameLayers => at[0] <= ItemCount
    /\ call = "merge" /\ SameLayers => merged = KeptUpTo(at[0])

LEMMA NamesAre ==
    /\ Names("input_layernorm") = {"input_layernorm"} /\ Names("qkv") = {"q_proj", "k_proj", "v_proj"}
    /\ Names("o_proj") = {"o_proj"} /\ Names("post_attention_layernorm") = {"post_attention_layernorm"}
    /\ Names("gate_up") = {"gate_proj", "up_proj"} /\ Names("down_proj") = {"down_proj"}
    /\ Names("embedding") = {"embed_tokens"} /\ Names("final_layernorm") = {"norm"}
    /\ Names("output_layer") = {"lm_head"}
<1>1. ASSUME NEW a PROVE {<<a>>[n] : n \in DOMAIN <<a>>} = {a}
  OBVIOUS
<1>2. ASSUME NEW a, NEW b PROVE {<<a, b>>[n] : n \in DOMAIN <<a, b>>} = {a, b}
  <2>1. DOMAIN <<a, b>> = {1, 2}
    OBVIOUS
  <2>2. {<<a, b>>[n] : n \in {1, 2}} = {<<a, b>>[1], <<a, b>>[2]}
    OBVIOUS
  <2> QED
    BY <2>1, <2>2
<1>3. ASSUME NEW a, NEW b, NEW c PROVE {<<a, b, c>>[n] : n \in DOMAIN <<a, b, c>>} = {a, b, c}
  <2>1. DOMAIN <<a, b, c>> = {1, 2, 3}
    OBVIOUS
  <2>2. {<<a, b, c>>[n] : n \in {1, 2, 3}} = {<<a, b, c>>[1], <<a, b, c>>[2], <<a, b, c>>[3]}
    OBVIOUS
  <2> QED
    BY <2>1, <2>2
<1> QED
  BY <1>1, <1>2, <1>3, InHFAre DEF Names

\* The shard of tensor rank t on stage p, on the first replica.
LEMMA SourceRank ==
    ASSUME job \in Jobs, NEW t \in 0 .. job.tp - 1, NEW p \in 0 .. job.pp - 1
    PROVE  LET r == GlobalRank(t, 0, p, 0) IN r \in Ranks /\ Tp(r) = t /\ Pp(r) = p
<1>1. PICK T \in Nat \ {0}, c \in Nat \ {0}, d \in Nat \ {0}, P \in Nat \ {0} :
          T = job.tp /\ c = job.cp /\ d = job.dp /\ P = job.pp
  BY JobFacts
<1>2. PICK u \in Nat \ {0} : u = T * c
  OBVIOUS
<1>3. PICK s \in Nat \ {0} : s = u * d
  OBVIOUS
<1>4. StageSize = s
  BY <1>1, <1>2, <1>3 DEF StageSize
<1>5. PICK i \in Nat, j \in Nat : i = t /\ j = p /\ i < T /\ j < P
  BY <1>1
<1>6. PICK e \in Nat : e = d * c
  OBVIOUS
<1>7. s = e * T
  BY <1>2, <1>3, <1>6
<1>8. GlobalRank(t, 0, p, 0) = j * s + i
  <2>1. GlobalRank(t, 0, p, 0) = ((j * d + 0) * c + 0) * T + i
    BY <1>1, <1>5 DEF GlobalRank
  <2>2. ((j * d + 0) * c + 0) * T = j * ((d * c) * T)
    OBVIOUS
  <2> QED
    BY <1>6, <1>7, <2>1, <2>2
<1>9. i < s
  <2>1. PICK f \in Nat : f = e - 1
    <3>1. e # 0
      BY <1>6
    <3> QED
      BY <3>1
  <2>2. PICK g \in Nat : g = f * T
    OBVIOUS
  <2>3. e * T = g + T
    BY <2>1, <2>2
  <2> QED
    BY <1>5, <1>7, <2>3
<1>10. j * s + (i + 1) \in 1 .. P * s /\ P * s \in Nat /\ j * s \in Nat
  <2>1. j \in 0 .. P - 1 /\ i + 1 \in 1 .. s
    BY <1>5, <1>9
  <2> QED
    BY <2>1, Within
<1>11. PICK r \in Nat, a \in Nat, w \in Nat : r = j * s + i /\ a = j * s /\ w = P * s
  BY <1>10
<1>12. r \in Ranks
  <2>1. s * P = w
    BY <1>11
  <2>2. r \in 0 .. w - 1
    BY <1>10, <1>11
  <2> QED
    BY <1>1, <1>4, <2>1, <2>2 DEF Ranks
<1>13. Pp(r) = j
  <2>1. (j * s + i) \div s = j
    <3>1. j \in Int /\ i \in 0 .. s - 1
      BY <1>5, <1>9
    <3> QED
      BY <3>1, Quotient
  <2> QED
    BY <1>4, <1>11, <2>1 DEF Pp
<1>14. Tp(r) = i
  <2>1. PICK q \in Nat : q = j * e
    OBVIOUS
  <2>2. r = q * T + i
    BY <1>7, <1>11, <2>1
  <2>3. (q * T + i) % T = i
    BY <1>5, Quotient
  <2> QED
    BY <1>1, <2>2, <2>3 DEF Tp
<1> QED
  BY <1>5, <1>8, <1>11, <1>12, <1>13, <1>14

\* What a stage has of a part, once loaded, are its shards.
LEMMA StageHas ==
    ASSUME job \in Jobs, NEW q \in Ranks, NEW x, IsParam(Pp(q), x), AllRight
    PROVE  param[q][x] = ShardOf(x[3], OwnLayer(Pp(q), x), Tp(q))
<1>1. Pp(q) \in 0 .. job.pp - 1
  BY RankFacts
<1>2. x \in ParamsOf(q)
  BY <1>1, StageParamsAre DEF ParamsOf
<1> QED
  BY <1>2, RightIs DEF AllRight, Right

LEMMA SameKept ==
    ASSUME job' = job
    PROVE  \A m : KeptUpTo(m)' = KeptUpTo(m)
<1>1. \A k : Item(k)' = Item(k)
  BY DEF Item, ItemCount
<1>2. \A l, part : Pairs(l, part)' = Pairs(l, part)
  BY DEF Pairs, Names, Pair, Full, Slice, Units
<1>3. \A k : Kept(k)' = Kept(k)
  BY <1>1, <1>2 DEF Kept
<1> QED
  BY <1>3, SameRanks DEF KeptUpTo

LEMMA MergeInvInit == Init => MergeInv
BY DEF Init, MergeInv

LEMMA MergeItemMerges == Shapes /\ LoadInv /\ MergeInv /\ MergeItem => MergeInv'
<1> SUFFICES ASSUME Shapes, LoadInv, MergeInv, MergeItem PROVE MergeInv'
  OBVIOUS
<1>1. job' = job /\ job \in Jobs /\ call = "merge" /\ call' = "merge" /\ SameLayers /\ AllRight
  BY DEF MergeItem, Shapes, LoadInv
<1>2. 0 \in Ranks /\ ItemCount \in Nat /\ at[0] \in Nat /\ at[0] < ItemCount /\ job.tp \in Nat \ {0}
  BY <1>1, SomeRank, ItemIs, JobFacts DEF MergeItem, Shapes
<1>3. PICK k \in 1 .. ItemCount : k = at[0] + 1
  BY <1>2
<1>4. at'[0] = k
  <2>1. Pass(ModelGroup(0), 1) /\ 0 \in ModelGroup(0) /\ 1 \in Nat
    BY <1>2 DEF MergeItem, ModelGroup
  <2> QED
    BY <1>1, <1>2, <1>3, <2>1, PassAt
<1>5. HomeRight(k)
  BY <1>1, EveryHome
<1>6. PICK l, part, p, x : l = Item(k).layer /\ part = Item(k).part /\ p = Home(Item(k)).pp /\ x = Home(Item(k)).param
  OBVIOUS
<1>7. /\ Item(k) = Entry(l, part) /\ part \in AllParts /\ p \in 0 .. job.pp - 1
      /\ x[3] = part /\ OwnLayer(p, x) = l
      /\ IsParam(p, x) \/ (part = "output_layer" /\ job.tied /\ job.pp = 1)
  BY <1>5, <1>6 DEF HomeRight
<1>8. merged' = merged \union Kept(k)
  <2>1. CASE job.tied /\ part = "output_layer"
    <3>1. merged' = merged
      BY <1>3, <1>6, <2>1 DEF MergeItem
    <3>2. Kept(k) = {}
      BY <1>6, <2>1 DEF Kept
    <3> QED
      BY <3>1, <3>2
  <2>2. CASE ~(job.tied /\ part = "output_layer")
    <3> DEFINE shards == [t \in 1 .. job.tp |-> param[GlobalRank(t - 1, 0, p, 0)][x]]
    <3>1. merged' = merged \union
              {<<<<l, InHF(part)[n]>>, Collected(Item(k), shards)[n]>> : n \in DOMAIN InHF(part)}
      BY <1>3, <1>6, <2>2 DEF MergeItem
    <3>2. ASSUME NEW t \in 1 .. job.tp
          PROVE  param[GlobalRank(t - 1, 0, p, 0)][x] = ShardOf(part, l, t - 1)
      <4>1. PICK u \in 0 .. job.tp - 1 : u = t - 1
        BY <1>2
      <4>2. PICK q \in Ranks : q = GlobalRank(u, 0, p, 0) /\ Tp(q) = u /\ Pp(q) = p
        BY <1>1, <1>7, <4>1, SourceRank
      <4>3. param[q][x] = ShardOf(x[3], OwnLayer(Pp(q), x), Tp(q))
        BY <1>1, <1>7, <2>2, <4>2, StageHas
      <4>4. param[GlobalRank(u, 0, p, 0)][x] = ShardOf(part, l, u)
        BY <1>7, <4>2, <4>3
      <4> QED
        BY <4>1, <4>4
    <3>3. shards = Shards(part, l)
      BY <3>2 DEF Shards
    <3>4. Collected(Item(k), shards) = Whole(part, l)
      BY <1>1, <1>7, <3>3, CollectedIs DEF Entry
    <3>5. DOMAIN InHF(part) = 1 .. Len(InHF(part))
      BY <1>7, InHFAre, PartsAre DEF AllParts
    <3>6. \A n \in DOMAIN InHF(part) : Whole(part, l)[n] = Full(l, InHF(part)[n])
      BY <3>5 DEF Whole
    <3>7. Kept(k) = {<<<<l, InHF(part)[n]>>, Full(l, InHF(part)[n])>> : n \in DOMAIN InHF(part)}
      BY <1>6, <2>2 DEF Kept, Pairs, Names, Pair
    <3> HIDE DEF shards
    <3> QED
      BY <3>1, <3>4, <3>6, <3>7
  <2> QED
    BY <2>1, <2>2
<1>9. KeptUpTo(k) = KeptUpTo(at[0]) \union Kept(k)
  BY <1>2, <1>3 DEF KeptUpTo
<1>10. merged' = KeptUpTo(k)
  BY <1>1, <1>8, <1>9 DEF MergeInv
<1>11. SameLayers' /\ \A m : KeptUpTo(m)' = KeptUpTo(m)
  BY <1>1, SameRanks, SameKept
<1> QED
  BY <1>1, <1>4, <1>10, <1>11 DEF MergeInv

LEMMA MergeInvStep == Shapes /\ LoadInv /\ MergeInv /\ [Next]_vars => MergeInv'
<1> SUFFICES ASSUME Shapes, LoadInv, MergeInv, [Next]_vars PROVE MergeInv'
  OBVIOUS
<1>1. job \in Jobs /\ 0 \in Ranks /\ ItemCount \in Nat /\ at[0] \in Nat
  BY SomeRank, ItemIs DEF Shapes
<1>2. CASE MergeItem
  BY <1>2, MergeItemMerges
<1>3. CASE LoadItem \/ CopyChunk \/ BroadcastEntry \/ GatherEntry
  <2>1. (call = "load" \/ call = "sync") /\ call' = call /\ merged' = merged
    BY <1>3 DEF LoadItem, CopyChunk, BroadcastEntry, GatherEntry
  <2> QED
    BY <2>1 DEF MergeInv
<1>4. CASE Barrier
  <2>1. job' = job /\ call' = call /\ merged' = merged /\ SameLayers
    BY <1>4 DEF Barrier
  <2>2. at[0] = ItemCount /\ at'[0] = ItemCount + 1
    <3>1. Together(Ranks, ItemCount) /\ Pass(Ranks, 1) /\ 1 \in Nat
      BY <1>4 DEF Barrier
    <3> QED
      BY <1>1, <2>1, <3>1, PassAt DEF Together
  <2>3. KeptUpTo(ItemCount + 1) = KeptUpTo(ItemCount)
    <3>1. {k \in 1 .. ItemCount : k <= ItemCount + 1} = {k \in 1 .. ItemCount : k <= ItemCount}
      BY <1>1
    <3> QED
      BY <3>1 DEF KeptUpTo
  <2>4. SameLayers' /\ \A m : KeptUpTo(m)' = KeptUpTo(m)
    BY <2>1, SameRanks, SameKept
  <2> QED
    BY <2>1, <2>2, <2>3, <2>4 DEF MergeInv
<1>5. CASE NextCall
  <2>1. job' = job /\ merged' = merged /\ call' # "load" /\ (call' = "sync" => call = "load")
        /\ (call' = "merge" => call = "sync" /\ at'[0] = EntersAt("merge", 0))
    BY <1>1, <1>5 DEF NextCall, Shapes, Calls
  <2>2. CASE call' = "merge"
    <3>1. at'[0] = 0
      BY <1>1, <2>1, <2>2, SomeRank DEF EntersAt
    <3>2. KeptUpTo(0) = {}
      <4>1. {k \in 1 .. ItemCount : k <= 0} = {}
        BY <1>1
      <4> QED
        BY <4>1 DEF KeptUpTo
    <3>3. KeptUpTo(0)' = KeptUpTo(0) /\ ItemCount' = ItemCount
      BY <2>1, SameKept, SameRanks
    <3>4. merged' = {}
      BY <2>1, <2>2 DEF MergeInv
    <3> QED
      BY <1>1, <2>2, <3>1, <3>2, <3>3, <3>4 DEF MergeInv
  <2>3. CASE call' # "merge"
    BY <2>1, <2>3 DEF MergeInv
  <2> QED
    BY <2>2, <2>3
<1>6. CASE AssertFails \/ UNCHANGED vars
  <2>1. job' = job /\ call' = call /\ at' = at /\ merged' = merged
    BY <1>6 DEF AssertFails, vars
  <2>2. SameLayers' = SameLayers /\ ItemCount' = ItemCount /\ \A m : KeptUpTo(m)' = KeptUpTo(m)
    BY <2>1, SameRanks, SameKept
  <2> QED
    BY <2>1, <2>2 DEF MergeInv
<1> QED
  BY <1>2, <1>3, <1>4, <1>5, <1>6 DEF Next


LEMMA BodyIs ==
    \A y : y \in Body <=> \/ \E l \in 0 .. job.layers - 1 : \E part \in Range(Parts) : y \in Pairs(l, part)
                          \/ y \in Pairs(0, "embedding") \/ y \in Pairs(0, "final_layernorm")
<1>1. \A name : name \in LayerNames <=> \E part \in Range(Parts) : name \in Names(part)
  BY NamesAre, PartsAre DEF LayerNames
<1>2. \A y : y \in {<<<<l, n>>, Full(l, n)>> : l \in 0 .. job.layers - 1, n \in LayerNames} <=>
                 \E l \in 0 .. job.layers - 1 : \E n \in LayerNames : y = Pair(l, n)
  BY DEF Pair
<1>3. ASSUME NEW l PROVE \A y : (\E n \in LayerNames : y = Pair(l, n)) <=> \E part \in Range(Parts) : y \in Pairs(l, part)
  BY <1>1 DEF Pairs
<1>4. \A y : y \in {<<<<0, n>>, Full(0, n)>> : n \in {"embed_tokens", "norm"}} <=>
                 y \in Pairs(0, "embedding") \/ y \in Pairs(0, "final_layernorm")
  BY NamesAre DEF Pairs, Pair
<1> QED
  BY <1>2, <1>3, <1>4 DEF Body

LEMMA OutputLayerIs == OutputLayer = Pairs(0, "output_layer")
BY NamesAre DEF OutputLayer, Pairs, Pair

LEMMA AllKept ==
    ASSUME job \in Jobs, NEW m \in Nat, ItemCount <= m
    PROVE  KeptUpTo(m) = Body \union (IF job.tied THEN {} ELSE OutputLayer)
<1>1. ItemCount \in Nat /\ ItemCount > 3
  BY ItemIs
<1>2. \A y : y \in KeptUpTo(m) <=> \E k \in 1 .. ItemCount : y \in Kept(k)
  BY <1>1 DEF KeptUpTo
<1>3. /\ Kept(1) = Pairs(0, "embedding") /\ Kept(ItemCount - 1) = Pairs(0, "final_layernorm")
      /\ Kept(ItemCount) = IF job.tied THEN {} ELSE OutputLayer
  BY ItemIs, OutputLayerIs DEF Kept, Entry
<1>4. ASSUME NEW k, NEW l, NEW n \in 1 .. 6, LayerItem(k, l, n)
      PROVE  Kept(k) = Pairs(l, Parts[n])
  BY <1>4, PartOf DEF Kept, LayerItem, Entry
<1>5. ASSUME NEW k \in 1 .. ItemCount, NEW y \in Kept(k)
      PROVE  y \in Body \union (IF job.tied THEN {} ELSE OutputLayer)
  <2>1. CASE k = 1 \/ k = ItemCount - 1 \/ k = ItemCount
    <3>1. k = ItemCount => y \in IF job.tied THEN {} ELSE OutputLayer
      BY <1>3, <1>5
    <3>2. k = 1 \/ k = ItemCount - 1 => y \in Body
      BY <1>3, <1>5, BodyIs
    <3> QED
      BY <2>1, <3>1, <3>2
  <2>2. CASE k # 1 /\ k # ItemCount - 1 /\ k # ItemCount
    <3>1. PICK l \in 0 .. job.layers - 1, n \in 1 .. 6 : LayerItem(k, l, n)
      BY <2>2, ItemIs
    <3>2. y \in Pairs(l, Parts[n]) /\ Parts[n] \in Range(Parts)
      BY <1>4, <1>5, <3>1, PartOf
    <3> QED
      BY <3>2, BodyIs
  <2> QED
    BY <2>1, <2>2
<1>6. ASSUME NEW y \in Body PROVE \E k \in 1 .. ItemCount : y \in Kept(k)
  <2>1. CASE y \in Pairs(0, "embedding") \/ y \in Pairs(0, "final_layernorm")
    <3>1. 1 \in 1 .. ItemCount /\ ItemCount - 1 \in 1 .. ItemCount
      BY <1>1
    <3> QED
      BY <1>3, <2>1, <3>1
  <2>2. ASSUME NEW l \in 0 .. job.layers - 1, NEW part \in Range(Parts), y \in Pairs(l, part)
        PROVE  \E k \in 1 .. ItemCount : y \in Kept(k)
    <3>1. PICK n \in 1 .. 6 : part = Parts[n]
      <4>1. DOMAIN Parts = 1 .. 6
        BY DEF Parts
      <4> QED
        BY <4>1 DEF Range
    <3>2. PICK k \in 1 .. ItemCount : LayerItem(k, l, n)
      BY ItemIs
    <3>3. Kept(k) = Pairs(l, part)
      BY <1>4, <3>1, <3>2
    <3> QED
      BY <2>2, <3>3
  <2> QED
    BY <2>1, <2>2, BodyIs
<1>7. ASSUME ~job.tied, NEW y \in OutputLayer PROVE \E k \in 1 .. ItemCount : y \in Kept(k)
  <2>1. ItemCount \in 1 .. ItemCount
    BY <1>1
  <2> QED
    BY <1>3, <1>7, <2>1
<1> QED
  BY <1>2, <1>5, <1>6, <1>7

\* What is saved is the model: see MergedIsModel (saver.py).
THEOREM MergingWhole == Spec => []MergedIsModel
<1>1. Init => Shapes /\ LoadInv /\ MergeInv
  BY ShapesInit, LoadInvInit, MergeInvInit
<1>2. Shapes /\ LoadInv /\ MergeInv /\ [Next]_vars => (Shapes /\ LoadInv /\ MergeInv)'
  BY ShapesStep, LoadInvStep, MergeInvStep
<1>3. Shapes /\ LoadInv /\ MergeInv => MergedIsModel
  <2> SUFFICES ASSUME Shapes, LoadInv, MergeInv, call = "merge", Returned
               PROVE  merged = Body \union (IF job.tied THEN {} ELSE OutputLayer)
    BY DEF MergedIsModel
  <2>1. job \in Jobs /\ 0 \in Ranks /\ ItemCount \in Nat
    BY SomeRank, ItemIs DEF Shapes
  <2>2. at[0] = ItemCount + 1
    BY <2>1 DEF Returned
  <2>3. ~(at[0] <= ItemCount) /\ at[0] \in Nat /\ ItemCount <= at[0]
    BY <2>1, <2>2
  <2>4. merged = KeptUpTo(at[0])
    BY <2>3 DEF MergeInv
  <2> QED
    BY <2>1, <2>3, <2>4, AllKept
<1> QED
  BY <1>1, <1>2, <1>3, PTL DEF Spec

--------------------------------------------------------------------------------
(* Where the chunks start *)

\* The first layer of the chunk that is built after n others.
StartOf(n) ==
    (n \div job.pp) * CycleSize + SizeBefore(n % job.pp) - (IF job.embed /\ n > 0 THEN 1 ELSE 0)

LEMMA SizesAre ==
    ASSUME job \in Jobs
    PROVE  /\ FirstSize \in Nat /\ MiddleSize \in Nat /\ CycleSize \in Nat
           /\ \A p \in 0 .. job.pp - 1 : SizeBefore(p) \in Nat /\ ChunkSize(p) \in Nat
           /\ \A p \in 0 .. job.pp - 1 : p + 1 \in 0 .. job.pp - 1 => SizeBefore(p + 1) = SizeBefore(p) + ChunkSize(p)
           /\ Chunks * CycleSize = AllLayers
<1>1. job.pp \in Nat \ {0} /\ Chunks \in Nat \ {0} /\ job.first \in Nat
  BY JobFacts
<1>2. PICK f \in Nat, m \in Nat : f = FirstSize /\ m = MiddleSize
  BY EqualStages, OwnStages
<1>3. ASSUME NEW p \in 0 .. job.pp - 1 PROVE ChunkSize(p) \in Nat
  <2>1. InModel(p, 0)
    BY <1>1 DEF InModel
  <2> QED
    BY <2>1, LayersInIs
<1>4. ASSUME NEW p \in 0 .. job.pp - 1 PROVE SizeBefore(p) \in Nat
  <2>1. CASE p = 0
    BY <2>1 DEF SizeBefore
  <2>2. CASE p # 0
    <3>1. p - 1 \in Nat /\ p \in Nat
      BY <2>2
    <3>2. (p - 1) * m \in Nat /\ p * m \in Nat
      BY <3>1
    <3> QED
      BY <1>2, <2>2, <3>2 DEF SizeBefore
  <2> QED
    BY <2>1, <2>2
<1>5. ASSUME NEW p \in 0 .. job.pp - 1, p + 1 \in 0 .. job.pp - 1
      PROVE  SizeBefore(p + 1) = SizeBefore(p) + ChunkSize(p)
  <2>1. p + 1 # 0 /\ p + 1 - 1 = p /\ p # job.pp - 1
    BY <1>1, <1>5
  <2>2. 0 * m = 0 /\ (0 + 1) * m = m
    OBVIOUS
  <2>3. SizeBefore(p + 1) = IF job.first > 0 THEN f + p * m ELSE (p + 1) * m
    <3>1. PICK q : q = p + 1
      OBVIOUS
    <3>2. q # 0 /\ q - 1 = p
      BY <2>1, <3>1
    <3>3. SizeBefore(q) = IF job.first > 0 THEN FirstSize + (q - 1) * MiddleSize ELSE q * MiddleSize
      BY <3>2 DEF SizeBefore
    <3> QED
      BY <1>2, <3>1, <3>2, <3>3
  <2>4. ChunkSize(p) = IF job.first > 0 /\ p = 0 THEN f ELSE m
    BY <1>2, <2>1 DEF ChunkSize
  <2>5. CASE p = 0
    <3>1. SizeBefore(p) = 0
      BY <2>5 DEF SizeBefore
    <3> QED
      BY <2>2, <2>3, <2>4, <2>5, <3>1
  <2>6. CASE p # 0
    <3>1. SizeBefore(p) = IF job.first > 0 THEN f + (p - 1) * m ELSE p * m
      BY <1>2, <2>6, Zenon DEF SizeBefore
    <3>2. PICK a \in Nat, b \in Nat : a = (p - 1) * m /\ b = p * m
      <4>1. p - 1 \in Nat /\ p \in Nat
        BY <2>6
      <4> QED
        BY <4>1
    <3>3. (p + 1) * m = b + m /\ b = a + m
      BY <3>2
    <3> QED
      BY <2>3, <2>4, <2>6, <3>1, <3>2, <3>3
  <2> QED
    BY <2>5, <2>6
<1>6. CycleSize \in Nat
  <2>1. job.pp - 1 \in 0 .. job.pp - 1
    BY <1>1
  <2> QED
    BY <1>3, <1>4, <2>1 DEF CycleSize
<1>7. Chunks * CycleSize = AllLayers
  <2>1. CASE job.first + job.last = 0
    BY <2>1, EqualStages, Zenon
  <2>2. CASE job.first + job.last # 0
    BY <2>2, OwnStages, Zenon
  <2> QED
    BY <2>1, <2>2
<1> QED
  BY <1>2, <1>3, <1>4, <1>5, <1>6, <1>7

\* The next chunk starts where this one ends; the last one ends with the model.
LEMMA NextStart ==
    ASSUME job \in Jobs, NEW p, NEW v, InModel(p, v)
    PROVE  LET n == Chunk(p, v) IN
           /\ StartOf(n) \in Int
           /\ StartOf(n) + LayersIn(p, v) = IF n = job.pp * Chunks - 1 THEN job.layers ELSE StartOf(n + 1)
<1>1. PICK s \in Nat \ {0}, c \in Nat \ {0}, y \in Nat : s = job.pp /\ c = Chunks /\ y = CycleSize
  BY JobFacts, SizesAre
<1>2. p \in 0 .. s - 1 /\ v \in 0 .. c - 1
  BY <1>1 DEF InModel
<1>3. PICK n \in Nat : n = Chunk(p, v) /\ n % s = p /\ n \div s = v /\ n \in 0 .. s * c - 1
  BY <1>1, ChunkIs
<1>4. PICK b \in Nat, z \in Nat : b = SizeBefore(p) /\ z = ChunkSize(p)
  BY <1>1, <1>2, SizesAre
<1>5. PICK e \in 0 .. 1, l \in 0 .. 1 : e = (IF job.embed THEN 1 ELSE 0) /\ l = (IF job.loss THEN 1 ELSE 0)
  OBVIOUS
<1>6. PICK a \in Nat : a = v * y
  BY <1>2
<1>7. StartOf(n) = a + b - (IF n > 0 THEN e ELSE 0)
  BY <1>1, <1>3, <1>4, <1>5, <1>6 DEF StartOf
<1>8. n = 0 <=> p = 0 /\ v = 0
  <2>1. n = 0 => p = 0 /\ v = 0
    <3>1. 0 % s = 0 /\ 0 \div s = 0
      OBVIOUS
    <3> QED
      BY <1>3, <3>1
  <2>2. p = 0 /\ v = 0 => n = 0
    <3>1. 0 * s = 0
      OBVIOUS
    <3> QED
      BY <1>1, <1>3, <3>1 DEF Chunk
  <2> QED
    BY <2>1, <2>2
<1>9. n = s * c - 1 <=> p = s - 1 /\ v = c - 1
  <2>1. (c - 1) * s + (s - 1) = s * c - 1
    OBVIOUS
  <2>2. p = s - 1 /\ v = c - 1 => n = s * c - 1
    BY <1>1, <1>3, <2>1 DEF Chunk
  <2>3. c - 1 \in Int /\ s - 1 \in 0 .. s - 1
    OBVIOUS
  <2>4. ((c - 1) * s + (s - 1)) \div s = c - 1 /\ ((c - 1) * s + (s - 1)) % s = s - 1
    BY <2>3, Quotient
  <2>5. n = s * c - 1 => p = s - 1 /\ v = c - 1
    BY <1>3, <2>1, <2>4
  <2> QED
    BY <2>2, <2>5
<1>10. LayersIn(p, v) = z - (IF p = 0 /\ v = 0 THEN e ELSE 0) - (IF p = s - 1 /\ v = c - 1 THEN l ELSE 0)
  BY <1>1, <1>4, <1>5, LayersInIs
<1>11. CASE n = s * c - 1
  <2>1. p = s - 1 /\ v = c - 1
    BY <1>9, <1>11
  <2>2. y = b + z
    BY <1>1, <1>4, <2>1 DEF CycleSize
  <2>3. a + y = c * y
    BY <1>6, <2>1
  <2>4. c * y = job.layers + e + l
    BY <1>1, <1>5, SizesAre DEF AllLayers
  <2>5. StartOf(n) + LayersIn(p, v) = job.layers
    BY <1>7, <1>8, <1>10, <2>1, <2>2, <2>3, <2>4, JobFacts
  <2> QED
    BY <1>1, <1>3, <1>7, <1>11, <2>5
<1>12. CASE n # s * c - 1
  <2>1. LayersIn(p, v) = z - (IF n = 0 THEN e ELSE 0)
    BY <1>8, <1>9, <1>10, <1>12
  <2>2. StartOf(n + 1) = a + b + z - e
    <3>1. CASE p # s - 1
      <4>1. p + 1 \in 0 .. s - 1 /\ v \in Int
        BY <1>2, <3>1
      <4>2. n + 1 = v * s + (p + 1)
        <5>1. PICK w \in Nat : w = v * s
          BY <1>2
        <5> QED
          BY <1>1, <1>3, <5>1 DEF Chunk
      <4>3. (n + 1) \div s = v /\ (n + 1) % s = p + 1
        BY <4>1, <4>2, Quotient
      <4>4. SizeBefore(p + 1) = b + z
        BY <1>1, <1>2, <1>4, <4>1, SizesAre
      <4>5. n + 1 > 0
        OBVIOUS
      <4> QED
        BY <1>1, <1>5, <1>6, <4>3, <4>4, <4>5 DEF StartOf
    <3>2. CASE p = s - 1
      <4>1. v + 1 \in Int /\ 0 \in 0 .. s - 1
        BY <1>2
      <4>2. n + 1 = (v + 1) * s + 0
        <5>1. PICK w \in Nat : w = v * s /\ (v + 1) * s = w + s
          BY <1>2
        <5>2. n = w + p
          BY <1>1, <1>3, <5>1 DEF Chunk
        <5> QED
          BY <3>2, <5>1, <5>2
      <4>3. (n + 1) \div s = v + 1 /\ (n + 1) % s = 0
        <5>1. PICK u \in Int, o \in 0 .. s - 1 : u = v + 1 /\ o = 0
          BY <4>1
        <5>2. (u * s + o) \div s = u /\ (u * s + o) % s = o
          BY Quotient
        <5> QED
          BY <4>2, <5>1, <5>2
      <4>4. SizeBefore(0) = 0
        BY DEF SizeBefore
      <4>5. (v + 1) * y = a + y
        BY <1>2, <1>6
      <4>6. y = b + z
        BY <1>1, <1>4, <3>2 DEF CycleSize
      <4>7. StartOf(n + 1) = (v + 1) * y + 0 - e
        BY <1>1, <1>5, <4>3, <4>4 DEF StartOf
      <4> QED
        BY <4>5, <4>6, <4>7
    <3> QED
      BY <3>1, <3>2
  <2> QED
    BY <1>1, <1>3, <1>7, <1>12, <2>1, <2>2
<1> QED
  BY <1>11, <1>12

LEMMA LayerStarts ==
    ASSUME job \in Jobs, NEW p, NEW v, InModel(p, v), NEW i
    PROVE  LayerOf(p, v, i) = StartOf(Chunk(p, v)) + i
<1>1. PICK N \in Nat : N = job.pp * Chunks
  BY ChunkIs
<1>2. PICK n \in Nat : n = Chunk(p, v) /\ n \in 0 .. N - 1
  BY <1>1, ChunkIs
<1> DEFINE f == [k \in 0 .. n |-> StartOf(k)]
<1>3. ASSUME NEW k \in 0 .. n PROVE f[k] = IF k = 0 THEN 0 ELSE f[k - 1] + NthChunk(k)
  <2>1. CASE k = 0
    <3>1. PICK s \in Nat \ {0}, y \in Nat : s = job.pp /\ y = CycleSize
      BY JobFacts, SizesAre
    <3>2. 0 \div s = 0 /\ 0 % s = 0 /\ 0 * y = 0
      OBVIOUS
    <3>3. SizeBefore(0) = 0
      BY DEF SizeBefore
    <3>4. StartOf(0) = 0
      BY <3>1, <3>2, <3>3 DEF StartOf
    <3> QED
      BY <2>1, <3>4
  <2>2. CASE k # 0
    <3>1. PICK j \in Nat : j = k - 1 /\ j + 1 = k /\ j \in 0 .. N - 1 /\ j # N - 1 /\ j \in 0 .. n
      BY <1>2, <2>2
    <3>2. PICK q, u : q = j % job.pp /\ u = j \div job.pp
      OBVIOUS
    <3>3. InModel(q, u) /\ j = Chunk(q, u)
      BY <1>1, <3>1, <3>2, ByNumber
    <3>4. StartOf(j) + LayersIn(q, u) = StartOf(j + 1)
      BY <1>1, <3>1, <3>3, NextStart
    <3>5. NthChunk(k) = LayersIn(q, u)
      BY <3>1, <3>2 DEF NthChunk
    <3>6. f[k] = StartOf(k) /\ f[k - 1] = StartOf(j)
      BY <3>1
    <3> HIDE DEF f
    <3> QED
      BY <2>2, <3>1, <3>4, <3>5, <3>6
  <2> QED
    BY <2>1, <2>2
<1>4. Counts(f, n)
  BY <1>3 DEF Counts
<1>5. f[n] = StartOf(n)
  OBVIOUS
<1> HIDE DEF f
<1>6. LayerOf(p, v, i) = f[n] + i
  BY <1>2, <1>4, BeforeIs
<1> QED
  BY <1>2, <1>5, <1>6

\* The layers before the n-th chunk, the chunk after the last one included.
Until(n) == IF n = job.pp * Chunks THEN job.layers ELSE StartOf(n)
ChunkAt(n) == LayersIn(n % job.pp, n \div job.pp)

LEMMA UntilIs ==
    ASSUME job \in Jobs
    PROVE  /\ Until(0) = 0 /\ Until(job.pp * Chunks) = job.layers
           /\ \A n \in 0 .. job.pp * Chunks - 1 :
                  /\ Until(n) \in Int /\ ChunkAt(n) \in Nat
                  /\ Until(n + 1) = Until(n) + ChunkAt(n)
           /\ \A p, v, i : InModel(p, v) =>
                  /\ LayerOf(p, v, i) = Until(Chunk(p, v)) + i
                  /\ LayersIn(p, v) = ChunkAt(Chunk(p, v))
<1>1. PICK s \in Nat \ {0}, c \in Nat \ {0}, y \in Nat : s = job.pp /\ c = Chunks /\ y = CycleSize
  BY JobFacts, SizesAre
<1>2. PICK N \in Nat \ {0} : N = s * c
  OBVIOUS
<1>3. Until(0) = 0
  <2>1. 0 \div s = 0 /\ 0 % s = 0 /\ 0 * y = 0
    OBVIOUS
  <2>2. SizeBefore(0) = 0
    BY DEF SizeBefore
  <2>3. StartOf(0) = 0
    BY <1>1, <2>1, <2>2 DEF StartOf
  <2> QED
    BY <1>1, <1>2, <2>3 DEF Until
<1>4. ASSUME NEW n \in 0 .. N - 1
      PROVE  Until(n) \in Int /\ ChunkAt(n) \in Nat /\ Until(n + 1) = Until(n) + ChunkAt(n)
  <2>1. PICK p, v : p = n % job.pp /\ v = n \div job.pp
    OBVIOUS
  <2>2. InModel(p, v) /\ n = Chunk(p, v)
    BY <1>1, <1>2, <2>1, ByNumber
  <2>3. /\ StartOf(n) \in Int
        /\ StartOf(n) + LayersIn(p, v) = IF n = job.pp * Chunks - 1 THEN job.layers ELSE StartOf(n + 1)
    BY <2>2, NextStart
  <2>4. LayersIn(p, v) \in Nat /\ ChunkAt(n) = LayersIn(p, v)
    BY <2>1, <2>2, LayersInIs DEF ChunkAt
  <2>5. Until(n) = StartOf(n) /\ Until(n + 1) = IF n = N - 1 THEN job.layers ELSE StartOf(n + 1)
    BY <1>1, <1>2 DEF Until
  <2> QED
    BY <1>1, <1>2, <2>3, <2>4, <2>5
<1>5. ASSUME NEW p, NEW v, NEW i, InModel(p, v)
      PROVE  LayerOf(p, v, i) = Until(Chunk(p, v)) + i /\ LayersIn(p, v) = ChunkAt(Chunk(p, v))
  <2>1. Chunk(p, v) \in 0 .. N - 1 /\ Chunk(p, v) % job.pp = p /\ Chunk(p, v) \div job.pp = v
    BY <1>1, <1>2, <1>5, ChunkIs
  <2>2. Until(Chunk(p, v)) = StartOf(Chunk(p, v))
    BY <1>1, <1>2, <2>1 DEF Until
  <2> QED
    BY <1>5, <2>1, <2>2, LayerStarts DEF ChunkAt
<1> QED
  BY <1>1, <1>2, <1>3, <1>4, <1>5 DEF Until

\* Every layer of the model is one of a chunk, and no chunk has others.
LEMMA LayersCovered ==
    ASSUME job \in Jobs
    PROVE  /\ \A l \in 0 .. job.layers - 1 : \E p, v : \E i :
                  InModel(p, v) /\ i \in 0 .. LayersIn(p, v) - 1 /\ LayerOf(p, v, i) = l
           /\ \A p, v, i : InModel(p, v) /\ i \in 0 .. LayersIn(p, v) - 1 => LayerOf(p, v, i) \in 0 .. job.layers - 1
<1>1. PICK s \in Nat \ {0}, c \in Nat \ {0}, L \in Nat \ {0} : s = job.pp /\ c = Chunks /\ L = job.layers
  BY JobFacts
<1>2. PICK N \in Nat \ {0} : N = s * c
  OBVIOUS
<1>3. /\ Until(0) = 0 /\ Until(N) = L
      /\ \A n \in 0 .. N - 1 : /\ Until(n) \in Int /\ ChunkAt(n) \in Nat
                               /\ Until(n + 1) = Until(n) + ChunkAt(n)
  BY <1>1, <1>2, UntilIs
<1>4. \A n \in 0 .. N : Until(n) \in Int
  BY <1>3
<1>5. ASSUME NEW l \in 0 .. L - 1
      PROVE  \E p, v : \E i : InModel(p, v) /\ i \in 0 .. LayersIn(p, v) - 1 /\ LayerOf(p, v, i) = l
  <2> DEFINE Later == {n \in 0 .. N : Until(n) > l}
  <2>1. PICK m \in Later : \A n \in Later : m <= n
    <3>1. N \in Later
      BY <1>3
    <3>2. Later \subseteq Nat
      OBVIOUS
    <3> HIDE DEF Later
    <3> QED
      BY <3>1, <3>2, Least
  <2>2. m \in 0 .. N /\ Until(m) > l /\ m # 0
    BY <1>3
  <2>3. PICK n \in 0 .. N - 1 : m = n + 1
    <3>1. m - 1 \in 0 .. N - 1 /\ m = (m - 1) + 1
      BY <2>2
    <3> QED
      BY <3>1
  <2>4. Until(n) <= l
    <3>1. n \in 0 .. N /\ ~(m <= n)
      BY <2>3
    <3>2. n \notin Later
      <4> HIDE DEF Later
      <4> QED
        BY <2>1, <3>1
    <3> QED
      BY <1>4, <3>1, <3>2
  <2>5. PICK p, v : p = n % job.pp /\ v = n \div job.pp
    OBVIOUS
  <2>6. InModel(p, v) /\ n = Chunk(p, v)
    BY <1>1, <1>2, <2>5, ByNumber
  <2>7. PICK i : i = l - Until(n)
    OBVIOUS
  <2>8. i \in 0 .. ChunkAt(n) - 1 /\ Until(n) + i = l
    BY <1>3, <2>2, <2>3, <2>4, <2>7
  <2> QED
    BY <2>6, <2>8, UntilIs
<1>6. ASSUME NEW n \in 0 .. N PROVE Until(n) >= 0
  <2> DEFINE Wrong == {k \in 0 .. N : Until(k) < 0}
  <2> SUFFICES ASSUME Wrong # {} PROVE FALSE
    BY <1>4
  <2>1. PICK m \in Wrong : \A k \in Wrong : m <= k
    <3>1. Wrong \subseteq Nat
      OBVIOUS
    <3> HIDE DEF Wrong
    <3> QED
      BY <3>1, Least
  <2>2. m \in 0 .. N /\ Until(m) < 0 /\ m # 0
    BY <1>3
  <2>3. PICK k \in 0 .. N - 1 : m = k + 1
    <3>1. m - 1 \in 0 .. N - 1 /\ m = (m - 1) + 1
      BY <2>2
    <3> QED
      BY <3>1
  <2>4. k \notin Wrong /\ k \in 0 .. N
    <3>1. ~(m <= k)
      BY <2>3
    <3> HIDE DEF Wrong
    <3> QED
      BY <2>1, <3>1
  <2> QED
    BY <1>3, <1>4, <2>2, <2>3, <2>4
<1>7. ASSUME NEW n \in 0 .. N PROVE Until(n) <= L
  <2> DEFINE Wrong == {d \in 0 .. N : Until(N - d) > L}
  <2>1. ASSUME Wrong # {} PROVE FALSE
    <3>1. PICK d \in Wrong : \A e \in Wrong : d <= e
      <4>1. Wrong \subseteq Nat
        OBVIOUS
      <4> HIDE DEF Wrong
      <4> QED
        BY <2>1, <4>1, Least
    <3>2. d \in 0 .. N /\ Until(N - d) > L
      OBVIOUS
    <3>3. d # 0
      <4>1. N - 0 = N
        OBVIOUS
      <4> QED
        BY <1>3, <3>2, <4>1
    <3>4. PICK k \in 0 .. N - 1 : k = N - d /\ k + 1 = N - (d - 1)
      <4>1. N - d \in 0 .. N - 1 /\ (N - d) + 1 = N - (d - 1)
        BY <3>2, <3>3
      <4> QED
        BY <4>1
    <3>5. d - 1 \in 0 .. N /\ ~(d <= d - 1)
      BY <3>2, <3>3
    <3>6. d - 1 \notin Wrong
      <4> HIDE DEF Wrong
      <4> QED
        BY <3>1, <3>5
    <3>7. ~(Until(k + 1) > L)
      BY <3>4, <3>5, <3>6
    <3> QED
      BY <1>3, <3>2, <3>4, <3>7
  <2>2. N - n \in 0 .. N /\ N - (N - n) = n
    OBVIOUS
  <2>3. ~(Until(n) > L)
    BY <2>1, <2>2
  <2> QED
    BY <1>4, <2>3
<1>8. ASSUME NEW p, NEW v, NEW i, InModel(p, v), i \in 0 .. LayersIn(p, v) - 1
      PROVE  LayerOf(p, v, i) \in 0 .. L - 1
  <2>1. PICK n \in 0 .. N - 1 : n = Chunk(p, v)
    BY <1>1, <1>2, <1>8, ChunkIs
  <2>2. LayerOf(p, v, i) = Until(n) + i /\ LayersIn(p, v) = ChunkAt(n)
    BY <1>8, <2>1, UntilIs
  <2>3. n \in 0 .. N /\ n + 1 \in 0 .. N
    OBVIOUS
  <2>4. Until(n) >= 0 /\ Until(n + 1) <= L /\ Until(n) \in Int /\ ChunkAt(n) \in Nat /\ Until(n + 1) = Until(n) + ChunkAt(n)
    BY <1>3, <1>6, <1>7, <2>3
  <2> QED
    BY <1>8, <2>2, <2>4
<1> QED
  BY <1>1, <1>5, <1>8

--------------------------------------------------------------------------------
(* The layers that parameters are sent as *)

LEMMA OwnStart ==
    ASSUME job \in Jobs, NEW p, NEW v, InModel(p, v)
    PROVE  LayerOf(p, v, 0) = v * CycleSize + SizeBefore(p) - (IF job.embed /\ ~(p = 0 /\ v = 0) THEN 1 ELSE 0)
<1>1. PICK s \in Nat \ {0}, a \in Nat, b \in Nat : s = job.pp /\ a = v * CycleSize /\ b = SizeBefore(p)
  BY JobFacts, SizesAre DEF InModel
<1>2. PICK n \in Nat : n = Chunk(p, v) /\ n % s = p /\ n \div s = v
  BY <1>1, ChunkIs
<1>3. n = 0 <=> p = 0 /\ v = 0
  <2>1. 0 % s = 0 /\ 0 \div s = 0 /\ 0 * s + 0 = 0
    OBVIOUS
  <2> QED
    BY <1>1, <1>2, <2>1 DEF Chunk
<1>4. LayerOf(p, v, 0) = StartOf(n) + 0
  BY <1>2, LayerStarts
<1>5. StartOf(n) = a + b - (IF job.embed /\ n > 0 THEN 1 ELSE 0)
  BY <1>1, <1>2 DEF StartOf
<1> QED
  BY <1>1, <1>3, <1>4, <1>5

LEMMA OffsetEqual ==
    ASSUME job \in Jobs, NEW p, NEW v, InModel(p, v), job.first + job.last = 0, job.pp > 1
    PROVE  LayerOffset(p, v) = v * CycleSize + p * MiddleSize - (IF job.embed /\ ~FirstStage(p) THEN 1 ELSE 0)
<1>1. PICK s \in Nat \ {0}, c \in Nat \ {0}, m \in Nat \ {0} : s = job.pp /\ c = Chunks /\ m = MiddleSize
  BY JobFacts, EqualStages
<1>2. p \in 0 .. s - 1 /\ v \in 0 .. c - 1
  BY <1>1 DEF InModel
<1>3. PICK y \in Nat, a \in Nat : y = s * m /\ a = c * m
  OBVIOUS
<1>4. AllLayers = c * y /\ AllLayers \div s = a /\ a \div c = m /\ CycleSize = y
  BY <1>1, <1>3, EqualStages, Zenon
<1>5. (c * y) \div c = y
  BY Multiple
<1>6. PICK e : e = IF job.embed /\ ~FirstStage(p) THEN 1 ELSE 0
  OBVIOUS
<1>7. LayerOffset(p, v) =
          (IF job.vpp > 0 THEN v * (AllLayers \div job.vpp) + p * ((AllLayers \div job.pp) \div job.vpp)
           ELSE p * (AllLayers \div job.pp)) - e
  BY <1>6 DEF LayerOffset, AllLayers
<1>8. CASE job.vpp > 0
  <2>1. c = job.vpp
    BY <1>1, <1>8 DEF Chunks
  <2>2. AllLayers \div job.vpp = y /\ (AllLayers \div job.pp) \div job.vpp = m
    BY <1>1, <1>4, <1>5, <2>1, Zenon
  <2>3. PICK b1, b2 : /\ b1 = v * (AllLayers \div job.vpp) + p * ((AllLayers \div job.pp) \div job.vpp)
                      /\ b2 = p * (AllLayers \div job.pp)
    OBVIOUS
  <2>4. LayerOffset(p, v) = (IF job.vpp > 0 THEN b1 ELSE b2) - e
    BY <1>7, <2>3, Zenon
  <2>5. (IF job.vpp > 0 THEN b1 ELSE b2) = b1
    BY <1>8
  <2>6. LayerOffset(p, v) = b1 - e
    BY <2>4, <2>5, Zenon
  <2>7. b1 = v * CycleSize + p * MiddleSize
    <3>1. b1 = v * y + p * m
      BY <2>2, <2>3, Zenon
    <3>2. y = CycleSize /\ m = MiddleSize
      BY <1>1, <1>4
    <3> QED
      BY <3>1, <3>2, Zenon
  <2>8. PICK g \in Nat, h \in Nat : g = v * CycleSize /\ h = p * MiddleSize
    <3>1. CycleSize \in Nat /\ MiddleSize \in Nat /\ v \in Nat /\ p \in Nat
      BY <1>1, <1>2, <1>3, <1>4
    <3>2. v * CycleSize \in Nat /\ p * MiddleSize \in Nat
      BY <3>1
    <3> QED
      BY <3>2
  <2>9. b1 = g + h
    BY <2>7, <2>8, Zenon
  <2> QED
    BY <1>6, <2>6, <2>8, <2>9
<1>9. CASE ~(job.vpp > 0)
  <2>1. c = 1 /\ v = 0
    BY <1>1, <1>2, <1>9, JobFacts DEF Chunks
  <2>2. a = m /\ v * y = 0
    <3>1. 1 * m = m /\ 0 * y = 0
      OBVIOUS
    <3> QED
      BY <1>3, <2>1, <3>1
  <2>3. AllLayers \div job.pp = m
    BY <1>1, <1>4, <2>2
  <2>4. LayerOffset(p, v) = p * m - (IF job.embed /\ ~FirstStage(p) THEN 1 ELSE 0)
    BY <1>6, <1>7, <1>9, <2>3
  <2>5. PICK b \in Nat : b = p * m
    BY <1>2
  <2> QED
    BY <1>1, <1>4, <2>2, <2>4, <2>5
<1> QED
  BY <1>8, <1>9

LEMMA OffsetOwn ==
    ASSUME job \in Jobs, NEW p, NEW v, InModel(p, v), job.first + job.last # 0, job.pp > 1
    PROVE  LayerOffset(p, v) =
               v * CycleSize + (IF p = 0 THEN 0
                                ELSE FirstSize + (IF job.first = 0 /\ job.vpp = 0 THEN p ELSE p - 1) * MiddleSize)
<1>1. PICK s \in Nat \ {0}, c \in Nat \ {0}, m \in Nat, f \in Nat, z \in Nat, n \in Nat, y \in Nat :
          s = job.pp /\ c = Chunks /\ m = MiddleSize /\ f = FirstSize /\ z = LastSize /\ n = MiddleStages /\ y = CycleSize
  BY JobFacts, OwnStages, SizesAre
<1>2. p \in 0 .. s - 1 /\ v \in 0 .. c - 1 /\ job.first \in Nat /\ job.last \in Nat /\ job.vpp \in Nat
  BY <1>1, JobFacts DEF InModel
<1>3. PICK a \in Nat, b \in Nat : a = c * m /\ b = n * m
  OBVIOUS
<1>4. /\ Rest = n * a
      /\ n # 0 => Rest \div n = a
      /\ n = 0 => Rest = 0 /\ job.vpp = 0 /\ m = 0
      /\ y = f + b + z /\ job.first = c * f /\ job.last = c * z
  BY <1>1, <1>3, OwnStages, Zenon
<1>5. CASE job.vpp > 0
  <2>1. c = job.vpp /\ n # 0
    BY <1>1, <1>4, <1>5 DEF Chunks
  <2>2. Rest \div job.vpp = b
    <3>1. n * a = c * b
      BY <1>3
    <3>2. (c * b) \div c = b
      BY Multiple
    <3> QED
      BY <1>4, <2>1, <3>1, <3>2, Zenon
  <2>3. b \div n = m
    <3>1. n \in Nat \ {0}
      BY <2>1
    <3> QED
      BY <1>3, <3>1, Multiple
  <2>4. job.first \div job.vpp = f /\ job.last \div job.vpp = z
    BY <1>1, <2>1 DEF FirstSize, LastSize
  <2>5. LayerOffset(p, v) =
            v * (job.first \div job.vpp + Rest \div job.vpp + job.last \div job.vpp)
              + (IF p = 0 THEN 0 ELSE job.first \div job.vpp + (p - 1) * ((Rest \div job.vpp) \div MiddleStages))
    BY <1>2, <1>5 DEF LayerOffset, Rest
  <2>6. LayerOffset(p, v) = v * (f + b + z) + (IF p = 0 THEN 0 ELSE f + (p - 1) * m)
    BY <1>1, <2>2, <2>3, <2>4, <2>5, Zenon
  <2>7. LayerOffset(p, v) = v * y + (IF p = 0 THEN 0 ELSE f + (p - 1) * m)
    BY <1>4, <2>6, Zenon
  <2>8. ~(job.vpp = 0)
    BY <1>5
  <2> QED
    BY <1>1, <2>7, <2>8, Zenon
<1>6. CASE ~(job.vpp > 0)
  <2>1. c = 1 /\ v = 0 /\ job.vpp = 0
    BY <1>1, <1>2, <1>6 DEF Chunks
  <2>2. a = m /\ job.first = f /\ v * y = 0
    <3>1. 1 * m = m /\ 0 * y = 0 /\ 1 * f = f
      OBVIOUS
    <3> QED
      BY <1>3, <1>4, <2>1, <3>1
  <2>3. (IF MiddleStages > 0 THEN Rest \div MiddleStages ELSE 0) = m
    BY <1>1, <1>4, <2>2
  <2>4. LayerOffset(p, v) =
            IF p = 0 THEN 0
            ELSE job.first + (IF job.first = 0 THEN p ELSE p - 1)
                                 * (IF MiddleStages > 0 THEN Rest \div MiddleStages ELSE 0)
    BY <1>2, <1>6, <2>1 DEF LayerOffset, Rest
  <2>5. LayerOffset(p, v) = IF p = 0 THEN 0 ELSE f + (IF job.first = 0 THEN p ELSE p - 1) * m
    BY <2>2, <2>3, <2>4, Zenon
  <2>6. PICK d \in Int : d = (IF job.first = 0 THEN p ELSE p - 1) * m
    BY <1>2
  <2> QED
    BY <1>1, <2>1, <2>2, <2>5, <2>6
<1> QED
  BY <1>5, <1>6

\* Where layers are not misnamed, a chunk that has layers is sent as what it is.
LEMMA OffsetRight ==
    ASSUME job \in Jobs, NEW p, NEW v, InModel(p, v), LayersIn(p, v) > 0, ~Misnamed
    PROVE  LayerOffset(p, v) = LayerOf(p, v, 0)
<1>1. PICK s \in Nat \ {0}, c \in Nat \ {0}, m \in Nat, f \in Nat, y \in Nat :
          s = job.pp /\ c = Chunks /\ m = MiddleSize /\ f = FirstSize /\ y = CycleSize
  BY JobFacts, SizesAre
<1>2. /\ p \in 0 .. s - 1 /\ v \in 0 .. c - 1 /\ job.first \in Nat /\ job.last \in Nat /\ job.vpp \in Nat
      /\ job.embed \in BOOLEAN /\ job.layers \in Nat
  BY <1>1, JobFacts DEF InModel
<1>3. PICK a \in Nat, b \in Nat, d \in Int : a = v * y /\ b = p * m /\ d = (p - 1) * m
  BY <1>2
<1>4. LayerOf(p, v, 0) = a + SizeBefore(p) - (IF job.embed /\ ~(p = 0 /\ v = 0) THEN 1 ELSE 0)
  BY <1>1, <1>3, OwnStart
<1>5. SizeBefore(p) = IF p = 0 THEN 0 ELSE IF job.first > 0 THEN f + d ELSE b
  BY <1>1, <1>3 DEF SizeBefore
<1>6. 0 * m = 0 /\ 0 * y = 0
  OBVIOUS
<1>7. CASE job.pp = 1
  <2>1. LayerOffset(p, v) = 0
    BY <1>7 DEF LayerOffset
  <2>2. p = 0 /\ v = 0
    <3>1. c = 1
      BY <1>1, <1>2, <1>7, LayoutIs DEF Chunks
    <3> QED
      BY <1>1, <1>2, <1>7, <3>1
  <2>3. a = 0
    BY <1>3, <1>6, <2>2
  <2> QED
    BY <1>4, <1>5, <2>1, <2>2, <2>3
<1>8. CASE job.pp > 1 /\ job.first + job.last # 0
  <2>1. LayerOffset(p, v) = a + (IF p = 0 THEN 0 ELSE f + (IF job.first = 0 /\ job.vpp = 0 THEN b ELSE d))
    <3>1. LayerOffset(p, v) =
              v * y + (IF p = 0 THEN 0 ELSE f + (IF job.first = 0 /\ job.vpp = 0 THEN p ELSE p - 1) * m)
      BY <1>1, <1>8, OffsetOwn
    <3>2. (IF job.first = 0 /\ job.vpp = 0 THEN p ELSE p - 1) * m = IF job.first = 0 /\ job.vpp = 0 THEN b ELSE d
      BY <1>3
    <3> QED
      BY <1>3, <3>1, <3>2, Zenon
  <2>2. ~job.embed
    BY <1>8, LayoutIs
  <2>3. job.first = 0 => f = 0
    <3>1. 0 \div c = 0
      OBVIOUS
    <3> QED
      BY <1>1, <3>1 DEF FirstSize
  <2>4. job.first = 0 /\ job.vpp > 0 => b = 0 /\ d = 0
    <3> SUFFICES ASSUME job.first = 0, job.vpp > 0 PROVE b = 0 /\ d = 0
      OBVIOUS
    <3>1. ~(job.last \in 1 .. job.layers - 1) /\ job.last # 0
      BY <1>2, <1>8 DEF Misnamed
    <3>2. Rest = 0
      <4>1. Rest \in Nat
        BY <1>8, OwnStages
      <4> QED
        BY <1>2, <3>1, <4>1 DEF Rest
    <3>3. MiddleStages \in Nat \ {0} /\ Rest = MiddleStages * (Chunks * MiddleSize)
      <4>1. MiddleStages \in Nat /\ (MiddleStages = 0 => job.vpp = 0)
        BY <1>8, OwnStages
      <4>2. Rest = MiddleStages * (Chunks * MiddleSize)
        BY <1>8, OwnStages, Zenon
      <4> QED
        BY <4>1, <4>2
    <3>4. PICK n \in Nat \ {0} : n = MiddleStages
      BY <3>3
    <3>5. n * (c * m) = 0
      BY <1>1, <3>2, <3>3, <3>4
    <3>6. m = 0
      BY <3>5
    <3>7. p * 0 = 0 /\ (p - 1) * 0 = 0
      BY <1>2
    <3> QED
      BY <1>3, <3>6, <3>7
  <2> QED
    BY <1>1, <1>2, <1>4, <1>5, <2>1, <2>2, <2>3, <2>4
<1>9. CASE job.pp > 1 /\ job.first + job.last = 0
  <2>1. LayerOffset(p, v) = a + b - (IF job.embed /\ ~FirstStage(p) THEN 1 ELSE 0)
    BY <1>1, <1>3, <1>9, OffsetEqual
  <2>2. job.first = 0
    BY <1>2, <1>9
  <2>3. SizeBefore(p) = b
    BY <1>2, <1>3, <1>5, <1>6, <2>2
  <2>4. CASE ~job.embed
    BY <1>4, <2>1, <2>3, <2>4
  <2>5. CASE job.embed /\ job.vpp = 0
    <3>1. v = 0 /\ (FirstStage(p) <=> p = 0)
      BY <1>1, <1>2, <2>5 DEF FirstStage, Chunks
    <3> QED
      BY <1>4, <2>1, <2>3, <2>5, <3>1
  <2>6. CASE job.embed /\ job.vpp > 0
    <3>1. c = job.vpp
      BY <1>1, <2>6 DEF Chunks
    <3>2. CASE job.vrank = 0
      <4>1. c = 1 /\ v = 0
        BY <1>2, <2>6, <3>1, <3>2 DEF Misnamed
      <4>2. FirstStage(p) <=> p = 0
        BY <3>2 DEF FirstStage
      <4> QED
        BY <1>4, <2>1, <2>3, <2>6, <4>1, <4>2
    <3>3. CASE job.vrank # 0
      <4>1. ~FirstStage(p)
        BY <2>6, <3>3 DEF FirstStage
      <4>2. ~(StageLayers(0) > c)
        BY <2>6, <3>1, <3>3 DEF Misnamed
      <4>3. StageLayers(0) = c * m
        BY <1>1, <1>9, EqualStages
      <4>4. ~(m > 1)
        <5> SUFFICES ASSUME m > 1 PROVE FALSE
          OBVIOUS
        <5>1. PICK k \in Nat, e \in Nat : k = m - 2 /\ e = c * k
          <6>1. m - 2 \in Nat
            OBVIOUS
          <6> QED
            BY <6>1
        <5>2. c * m = e + c + c
          BY <5>1
        <5> QED
          BY <4>2, <4>3, <5>1, <5>2
      <4>5. ~(p = 0 /\ v = 0)
        <5> SUFFICES ASSUME p = 0 /\ v = 0 PROVE FALSE
          OBVIOUS
        <5>1. LayersIn(p, v) = m - 1 - (IF job.loss /\ p = job.pp - 1 /\ v = Chunks - 1 THEN 1 ELSE 0)
          BY <1>1, <2>6, LayersInIs
        <5> QED
          BY <4>4, <5>1
      <4> QED
        BY <1>4, <2>1, <2>3, <2>6, <4>1, <4>5
    <3> QED
      BY <3>2, <3>3
  <2> QED
    BY <1>2, <2>4, <2>5, <2>6
<1> QED
  BY <1>1, <1>7, <1>8, <1>9

\* Where they are misnamed, some chunk that has layers is sent as another.
Renamed(p, v) == InModel(p, v) /\ LayersIn(p, v) > 0 /\ LayerOffset(p, v) # LayerOf(p, v, 0)

LEMMA OffsetWrong ==
    ASSUME job \in Jobs, Misnamed
    PROVE  \E p, v : Renamed(p, v)
<1>1. PICK s \in Nat \ {0}, c \in Nat \ {0}, m \in Nat, y \in Nat :
          s = job.pp /\ c = Chunks /\ m = MiddleSize /\ y = CycleSize
  BY JobFacts, SizesAre
<1>2. /\ c = job.vpp /\ job.vpp > 0 /\ s > 1 /\ job.first \in Nat /\ job.last \in Nat /\ job.vpp \in Nat
      /\ job.embed \in BOOLEAN /\ job.layers \in Nat /\ job.vrank \in Nat
  BY <1>1, JobFacts, LayoutIs DEF Misnamed, Chunks
<1>3. 0 * m = 0 /\ 0 * y = 0 /\ 1 * m = m /\ 1 * y = y /\ (1 - 1) * m = 0
  OBVIOUS
<1>4. CASE job.first = 0 /\ job.last \in 1 .. job.layers - 1
  <2>1. job.first + job.last # 0
    BY <1>2, <1>4
  <2>2. m > 0
    <3>1. Rest = MiddleStages * (Chunks * MiddleSize)
      BY <2>1, OwnStages, Zenon
    <3>2. PICK n \in Nat : n = MiddleStages
      BY <2>1, OwnStages
    <3>3. Rest = n * (c * m)
      BY <1>1, <3>1, <3>2
    <3>4. Rest > 0
      BY <1>2, <1>4 DEF Rest
    <3> SUFFICES ASSUME m = 0 PROVE FALSE
      OBVIOUS
    <3>5. n * (c * 0) = 0
      OBVIOUS
    <3> QED
      BY <3>3, <3>4, <3>5
  <2>3. InModel(1, 0)
    BY <1>1, <1>2 DEF InModel
  <2>4. PICK z \in Nat : z = LastSize /\ job.last = c * z
    BY <1>1, <2>1, OwnStages
  <2>5. z > 0
    <3> SUFFICES ASSUME z = 0 PROVE FALSE
      OBVIOUS
    <3>1. c * 0 = 0
      OBVIOUS
    <3> QED
      BY <1>4, <2>4, <3>1
  <2>6. ~job.embed /\ ~job.loss
    BY <2>1, LayoutIs
  <2>7. LayersIn(1, 0) > 0
    <3>1. LayersIn(1, 0) = ChunkSize(1)
      BY <2>3, <2>6, LayersInIs
    <3>2. ChunkSize(1) = z \/ ChunkSize(1) = m
      BY <1>1, <2>4 DEF ChunkSize
    <3> QED
      BY <2>2, <2>5, <3>1, <3>2
  <2>8. FirstSize = 0
    <3>1. 0 \div c = 0
      OBVIOUS
    <3> QED
      BY <1>1, <1>4, <3>1 DEF FirstSize
  <2>9. LayerOffset(1, 0) = 0
    <3>1. LayerOffset(1, 0) = 0 * y + (FirstSize + (1 - 1) * m)
      <4>1. PICK one, zero : one = 1 /\ zero = 0
        OBVIOUS
      <4>2. InModel(one, zero)
        BY <2>3, <4>1
      <4>3. LayerOffset(one, zero) =
                zero * CycleSize + (IF one = 0 THEN 0
                                    ELSE FirstSize + (IF job.first = 0 /\ job.vpp = 0 THEN one ELSE one - 1) * MiddleSize)
        BY <1>1, <1>2, <2>1, <4>2, OffsetOwn
      <4>4. ~(job.vpp = 0) /\ ~(one = 0)
        BY <1>2, <4>1
      <4> QED
        BY <1>1, <4>1, <4>3, <4>4
    <3> QED
      BY <1>3, <2>8, <3>1
  <2>10. LayerOf(1, 0, 0) = m
    <3>1. PICK one, zero : one = 1 /\ zero = 0
      OBVIOUS
    <3>2. InModel(one, zero)
      BY <2>3, <3>1
    <3>3. LayerOf(one, zero, 0) = zero * CycleSize + SizeBefore(one) - (IF job.embed /\ ~(one = 0 /\ zero = 0) THEN 1 ELSE 0)
      BY <3>2, OwnStart
    <3>4. SizeBefore(1) = 1 * m
      BY <1>1, <1>2, <1>4 DEF SizeBefore
    <3> QED
      BY <1>1, <1>3, <2>6, <3>1, <3>3, <3>4
  <2> QED
    BY <2>2, <2>3, <2>7, <2>9, <2>10 DEF Renamed
<1>5. CASE job.embed /\ (IF job.vrank = 0 THEN job.vpp > 1 ELSE StageLayers(0) > job.vpp)
  <2>1. job.first + job.last = 0 /\ job.first = 0 /\ job.last = 0
    BY <1>2, <1>5, LayoutIs
  <2>2. m > 0 /\ StageLayers(0) = c * m
    BY <1>1, <2>1, EqualStages
  <2>3. SizeBefore(0) = 0
    BY DEF SizeBefore
  <2>4. ASSUME NEW v \in 0 .. c - 1
        PROVE  /\ InModel(0, v)
               /\ LayerOffset(0, v) = v * y - (IF FirstStage(0) THEN 0 ELSE 1)
               /\ LayerOf(0, v, 0) = v * y - (IF v = 0 THEN 0 ELSE 1)
               /\ LayersIn(0, v) = m - (IF v = 0 THEN 1 ELSE 0)
    <3>1. PICK zero : zero = 0
      OBVIOUS
    <3>2. InModel(zero, v)
      BY <1>1, <1>2, <3>1 DEF InModel
    <3>3. PICK a \in Nat : a = v * y
      OBVIOUS
    <3>4. LayerOffset(zero, v) = v * CycleSize + zero * MiddleSize - (IF job.embed /\ ~FirstStage(zero) THEN 1 ELSE 0)
      BY <1>1, <1>2, <2>1, <3>2, OffsetEqual
    <3>5. LayerOf(zero, v, 0) = v * CycleSize + SizeBefore(zero) - (IF job.embed /\ ~(zero = 0 /\ v = 0) THEN 1 ELSE 0)
      BY <3>2, OwnStart
    <3>6. LayersIn(zero, v) = ChunkSize(zero) - (IF job.embed /\ zero = 0 /\ v = 0 THEN 1 ELSE 0)
                                  - (IF job.loss /\ zero = job.pp - 1 /\ v = Chunks - 1 THEN 1 ELSE 0)
      BY <3>2, LayersInIs
    <3>7. ChunkSize(zero) = m /\ ~(zero = job.pp - 1)
      BY <1>1, <1>2, <2>1, <3>1 DEF ChunkSize
    <3> QED
      BY <1>1, <1>3, <1>5, <2>3, <3>1, <3>2, <3>3, <3>4, <3>5, <3>6, <3>7
  <2>5. CASE job.vrank = 0
    <3>1. 1 \in 0 .. c - 1 /\ FirstStage(0)
      BY <1>2, <1>5, <2>5 DEF FirstStage
    <3>2. InModel(0, 1) /\ LayerOffset(0, 1) = 1 * y - 0 /\ LayerOf(0, 1, 0) = 1 * y - 1 /\ LayersIn(0, 1) = m - 0
      BY <2>4, <3>1
    <3> QED
      BY <1>3, <2>2, <3>2 DEF Renamed
  <2>6. CASE job.vrank # 0
    <3>1. 0 \in 0 .. c - 1 /\ ~FirstStage(0)
      BY <1>2, <2>6 DEF FirstStage
    <3>2. InModel(0, 0) /\ LayerOffset(0, 0) = 0 * y - 1 /\ LayerOf(0, 0, 0) = 0 * y - 0 /\ LayersIn(0, 0) = m - 1
      BY <2>4, <3>1
    <3>3. m > 1
      <4>1. c * m > c
        BY <1>2, <1>5, <2>2, <2>6
      <4>2. m # 1
        <5>1. c * 1 = c
          OBVIOUS
        <5> QED
          BY <4>1, <5>1
      <4> QED
        BY <2>2, <4>2
    <3> QED
      BY <1>3, <3>2, <3>3 DEF Renamed
  <2> QED
    BY <2>5, <2>6
<1> QED
  BY <1>4, <1>5 DEF Misnamed

--------------------------------------------------------------------------------
(* Sending *)

LEMMA AllParamsAre ==
    ASSUME job \in Jobs
    PROVE  /\ IsSeq(AllParams)
           /\ \A e : e \in Range(AllParams) <=> \E p \in 0 .. job.pp - 1 : \E x : IsParam(p, x) /\ e = Place(p, x)
<1>1. PICK s \in Nat \ {0} : s = job.pp
  BY JobFacts
<1> DEFINE seqs == [n \in 1 .. s |-> [i \in 1 .. Len(StageParams(n - 1)) |-> Place(n - 1, StageParams(n - 1)[i])]]
<1>2. AllParams = FlattenSeq(seqs)
  BY <1>1 DEF AllParams, Place
<1>3. ASSUME NEW n \in 1 .. s
      PROVE  IsSeq(seqs[n]) /\ \A e : e \in Range(seqs[n]) <=> \E x : IsParam(n - 1, x) /\ e = Place(n - 1, x)
  <2>1. PICK p \in 0 .. job.pp - 1 : p = n - 1
    BY <1>1
  <2>2. IsSeq(StageParams(p)) /\ \A x : x \in Range(StageParams(p)) <=> IsParam(p, x)
    BY <1>1, StageParamsAre
  <2>3. PICK m, own : m \in Nat /\ own = StageParams(p) /\ m = Len(own) /\ DOMAIN own = 1 .. m
    BY <2>2, SeqFacts
  <2>4. seqs[n] = [i \in 1 .. m |-> Place(p, own[i])]
    BY <2>1, <2>3
  <2>5. PICK t : t = seqs[n]
    OBVIOUS
  <2> HIDE DEF seqs
  <2>6. IsSeq(t) /\ DOMAIN t = 1 .. m
    <3>1. t = [i \in 1 .. m |-> t[i]]
      BY <2>4, <2>5
    <3>2. m \in Nat
      BY <2>3
    <3> QED
      BY <3>1, <3>2, FunctionIsSeq
  <2>7. \A e : e \in Range(t) <=> \E i \in 1 .. m : e = Place(p, own[i])
    BY <2>4, <2>5, <2>6 DEF Range
  <2>8. \A x : IsParam(p, x) <=> \E i \in 1 .. m : x = own[i]
    BY <2>2, <2>3 DEF Range
  <2> QED
    BY <2>1, <2>5, <2>6, <2>7, <2>8
<1>4. seqs = [n \in 1 .. s |-> seqs[n]]
  OBVIOUS
<1> HIDE DEF seqs
<1>5. IsSeq(FlattenSeq(seqs)) /\ Range(FlattenSeq(seqs)) = RangesUpTo(seqs, s)
  <2>1. AllSeqs(seqs, s)
    BY <1>3 DEF AllSeqs
  <2> QED
    BY <1>4, <2>1, FlattenRange
<1>6. ASSUME NEW e
      PROVE  e \in RangesUpTo(seqs, s) <=> \E p \in 0 .. s - 1 : \E x : IsParam(p, x) /\ e = Place(p, x)
  <2>1. ASSUME e \in RangesUpTo(seqs, s) PROVE \E p \in 0 .. s - 1 : \E x : IsParam(p, x) /\ e = Place(p, x)
    <3>1. PICK n \in 1 .. s : e \in Range(seqs[n])
      BY <2>1 DEF RangesUpTo
    <3>2. n - 1 \in 0 .. s - 1 /\ \E x : IsParam(n - 1, x) /\ e = Place(n - 1, x)
      BY <1>3, <3>1
    <3> QED
      BY <3>2
  <2>2. ASSUME NEW p \in 0 .. s - 1, NEW x, IsParam(p, x), e = Place(p, x) PROVE e \in RangesUpTo(seqs, s)
    <3>1. p + 1 \in 1 .. s /\ (p + 1) - 1 = p
      OBVIOUS
    <3>2. e \in Range(seqs[p + 1])
      BY <1>3, <2>2, <3>1
    <3> QED
      BY <3>1, <3>2 DEF RangesUpTo
  <2> QED
    BY <2>1, <2>2
<1> QED
  BY <1>1, <1>2, <1>5, <1>6

\* What the engines are to be given for a parameter, and for the first n / 2 of all.
SentAs(p, x) ==
    {<<<<SentLayer(p, x), name>>, Full(OwnLayer(p, x), name)>> : name \in Names(x[3])}
SentFor(e) == SentAs(e.pp, e.param)
SentUpTo(n) == UNION {SentFor(AllParams[k]) : k \in {k \in 1 .. Len(AllParams) : 2 * k <= n}}

SyncInv ==
    /\ DOMAIN engine = Ranks
    /\ call = "load" => \A r \in Ranks : engine[r] = {}
    /\ call = "sync" =>
           /\ meta = AllParams
           /\ \A r \in Ranks :
                  /\ engine[r] = SentUpTo(at[r])
                  /\ at[r] % 2 = 1 => Current(r) \in DOMAIN meta /\ meta[Current(r)].param[3] \notin Norms

LEMMA EntryIs ==
    ASSUME job \in Jobs, NEW k \in DOMAIN AllParams
    PROVE  /\ k \in 1 .. Len(AllParams) /\ Len(AllParams) \in Nat
           /\ \E p \in 0 .. job.pp - 1 : \E x : /\ AllParams[k] = Place(p, x) /\ IsParam(p, x)
                                                /\ x[3] \in AllParts
<1>1. IsSeq(AllParams)
  BY AllParamsAre
<1>2. k \in 1 .. Len(AllParams) /\ Len(AllParams) \in Nat
  BY <1>1, SeqFacts
<1>3. PICK p, x : p \in 0 .. job.pp - 1 /\ IsParam(p, x) /\ AllParams[k] = Place(p, x)
  <2>1. AllParams[k] \in Range(AllParams)
    BY DEF Range
  <2> QED
    BY <2>1, AllParamsAre
<1>4. x[3] \in AllParts
  BY <1>3 DEF IsParam, InChunk, Layered, AllParts
<1> QED
  BY <1>2, <1>3, <1>4

LEMMA SentStep ==
    ASSUME job \in Jobs, NEW j \in Nat, j + 1 \in DOMAIN AllParams
    PROVE  /\ SentUpTo(2 * j + 1) = SentUpTo(2 * j)
           /\ SentUpTo(2 * j + 2) = SentUpTo(2 * j) \union SentFor(AllParams[j + 1])
<1>1. j + 1 \in 1 .. Len(AllParams) /\ Len(AllParams) \in Nat
  <2>1. PICK k : k = j + 1
    OBVIOUS
  <2> QED
    BY <2>1, EntryIs
<1>2. PICK N \in Nat : N = Len(AllParams)
  BY <1>1
<1>3. {k \in 1 .. N : 2 * k <= 2 * j + 1} = {k \in 1 .. N : 2 * k <= 2 * j}
  OBVIOUS
<1>4. {k \in 1 .. N : 2 * k <= 2 * j + 2} = {k \in 1 .. N : 2 * k <= 2 * j} \union {j + 1}
  BY <1>1, <1>2
<1> QED
  BY <1>2, <1>3, <1>4 DEF SentUpTo

LEMMA SameSent ==
    ASSUME job' = job
    PROVE  AllParams' = AllParams /\ \A n : SentUpTo(n)' = SentUpTo(n)
<1>1. AllParams' = AllParams
  <2>1. ASSUME NEW p PROVE StageParams(p)' = StageParams(p)
    BY SameParams
  <2>2. ASSUME NEW n
        PROVE  (LET own == StageParams(n - 1) IN [i \in 1 .. Len(own) |-> [pp |-> n - 1, param |-> own[i]]])' =
                   LET own == StageParams(n - 1) IN [i \in 1 .. Len(own) |-> [pp |-> n - 1, param |-> own[i]]]
    BY <2>1
  <2> QED
    BY <2>2 DEF AllParams
<1>2. \A p : StageLayers(p)' = StageLayers(p)
  BY DEF StageLayers, MiddleStages
<1>3. ASSUME NEW p, NEW v PROVE LayerOffset(p, v)' = LayerOffset(p, v)
  BY DEF LayerOffset, FirstStage, MiddleStages
<1>4. ASSUME NEW p, NEW x PROVE SentLayer(p, x)' = SentLayer(p, x) /\ OwnLayer(p, x)' = OwnLayer(p, x)
  BY <1>3, SameParams DEF SentLayer, OwnLayer
<1>5. ASSUME NEW l, NEW name PROVE Full(l, name)' = Full(l, name)
  BY DEF Full, Slice, Units
<1>6. ASSUME NEW p, NEW x PROVE SentAs(p, x)' = SentAs(p, x)
  BY <1>4, <1>5 DEF SentAs, Names
<1>7. ASSUME NEW e PROVE SentFor(e)' = SentFor(e)
  BY <1>6 DEF SentFor
<1> QED
  BY <1>1, <1>7 DEF SentUpTo

\* The ranks of a pipeline group, and of a tensor group.
LEMMA Residues ==
    ASSUME NEW e \in Nat \ {0}, NEW t \in Nat \ {0}, NEW a \in Nat
    PROVE  (a % (e * t)) % t = a % t
<1>1. PICK s \in Nat \ {0} : s = e * t
  OBVIOUS
<1>2. PICK q \in Nat, b \in 0 .. s - 1 : b = a % s /\ a = q * s + b
  BY Division
<1>3. PICK u \in Nat : u = q * e
  OBVIOUS
<1>4. q * s = u * t
  <2>1. q * (e * t) = (q * e) * t
    OBVIOUS
  <2> QED
    BY <1>1, <1>3, <2>1
<1>5. b \in Nat
  BY <1>1, <1>2
<1>6. (u * t + b) % t = b % t
  BY <1>5, Shifted
<1> QED
  BY <1>1, <1>2, <1>4, <1>6

LEMMA StageRank ==
    ASSUME job \in Jobs, NEW r \in Ranks, NEW p \in 0 .. job.pp - 1
    PROVE  /\ \E q \in PipelineGroup(r) : Pp(q) = p
           /\ \A q \in PipelineGroup(r) : q \in Ranks /\ Tp(q) = Tp(r)
<1>1. PICK t \in Nat \ {0}, c \in Nat \ {0}, d \in Nat \ {0}, P \in Nat \ {0} :
          t = job.tp /\ c = job.cp /\ d = job.dp /\ P = job.pp
  BY JobFacts
<1>2. PICK e \in Nat \ {0} : e = c * d
  OBVIOUS
<1>3. PICK s \in Nat \ {0} : s = e * t
  OBVIOUS
<1>4. StageSize = s
  <2>1. (t * c) * d = (c * d) * t
    OBVIOUS
  <2> QED
    BY <1>1, <1>2, <1>3, <2>1 DEF StageSize
<1>5. r \in Nat /\ p \in 0 .. P - 1
  BY <1>1, RankFacts
<1>6. PICK i \in 0 .. s - 1 : i = r % s
  BY <1>5
<1>7. p * s + (i + 1) \in 1 .. P * s /\ P * s \in Nat /\ p * s \in Nat
  <2>1. i + 1 \in 1 .. s
    OBVIOUS
  <2> QED
    BY <1>5, <2>1, Within
<1>8. PICK q \in Nat, a \in Nat, w \in Nat : q = p * s + i /\ a = p * s /\ w = P * s
  BY <1>7
<1>9. q \in Ranks
  <2>1. s * P = w
    BY <1>8
  <2>2. q \in 0 .. w - 1
    BY <1>7, <1>8
  <2> QED
    BY <1>1, <1>4, <2>1, <2>2 DEF Ranks
<1>10. q \div s = p /\ q % s = i
  <2>1. p \in Int
    OBVIOUS
  <2>2. (p * s + i) \div s = p /\ (p * s + i) % s = i
    BY <2>1, Quotient
  <2> QED
    BY <1>8, <2>2
<1>11. q \in PipelineGroup(r) /\ Pp(q) = p
  BY <1>4, <1>6, <1>9, <1>10 DEF PipelineGroup, Pp
<1>12. ASSUME NEW z \in PipelineGroup(r) PROVE z \in Ranks /\ Tp(z) = Tp(r)
  <2>1. z \in Ranks /\ z % s = r % s
    BY <1>4 DEF PipelineGroup
  <2>2. z \in Nat
    BY <2>1, RankFacts
  <2>3. (z % (e * t)) % t = z % t
    BY <2>2, Residues
  <2>4. (r % (e * t)) % t = r % t
    BY <1>5, Residues
  <2>5. z % t = r % t
    BY <1>3, <2>1, <2>3, <2>4, Zenon
  <2> QED
    BY <1>1, <2>1, <2>5 DEF Tp
<1> QED
  BY <1>11, <1>12

LEMMA TensorRank ==
    ASSUME job \in Jobs, NEW r \in Ranks, NEW i \in 0 .. job.tp - 1
    PROVE  \E q \in TensorGroup(r) : Tp(q) = i
<1>1. PICK t \in Nat \ {0}, c \in Nat \ {0}, d \in Nat \ {0}, P \in Nat \ {0} :
          t = job.tp /\ c = job.cp /\ d = job.dp /\ P = job.pp
  BY JobFacts
<1>2. PICK e \in Nat \ {0} : e = (c * d) * P
  OBVIOUS
<1>3. PICK w \in Nat \ {0} : w = e * t
  OBVIOUS
<1>4. Ranks = 0 .. w - 1
  <2>1. ((t * c) * d) * P = ((c * d) * P) * t
    OBVIOUS
  <2> QED
    BY <1>1, <1>2, <1>3, <2>1 DEF Ranks, StageSize
<1>5. r \in Nat /\ i \in 0 .. t - 1
  BY <1>1, <1>4
<1>6. PICK g \in Nat, b \in 0 .. t - 1 : g = r \div t /\ r = g * t + b
  BY <1>5, Division
<1>7. g < e
  <2> SUFFICES ASSUME g >= e PROVE FALSE
    OBVIOUS
  <2>1. PICK h \in Nat, k \in Nat : h = g - e /\ k = h * t
    <3>1. g - e \in Nat
      OBVIOUS
    <3> QED
      BY <3>1
  <2>2. g * t = e * t + k
    BY <2>1
  <2>3. r = w + k + b
    BY <1>3, <1>6, <2>2
  <2> QED
    BY <1>4, <2>3
<1>8. g * t + (i + 1) \in 1 .. e * t /\ e * t \in Nat /\ g * t \in Nat
  <2>1. g \in 0 .. e - 1 /\ i + 1 \in 1 .. t
    BY <1>5, <1>7
  <2> QED
    BY <2>1, Within
<1>9. PICK q \in Nat, a \in Nat : q = g * t + i /\ a = g * t
  BY <1>5, <1>8
<1>10. q \in Ranks
  BY <1>3, <1>4, <1>5, <1>8, <1>9
<1>11. q \div t = g /\ q % t = i
  <2>1. g \in Int
    OBVIOUS
  <2>2. (g * t + i) \div t = g /\ (g * t + i) % t = i
    BY <1>5, <2>1, Quotient
  <2> QED
    BY <1>9, <2>2
<1>12. q \in TensorGroup(r) /\ Tp(q) = i
  BY <1>1, <1>6, <1>10, <1>11 DEF TensorGroup, Tp
<1> QED
  BY <1>12

LEMMA FromStageIs ==
    ASSUME job \in Jobs, AllRight, NEW r \in Ranks, NEW p \in 0 .. job.pp - 1, NEW x, IsParam(p, x)
    PROVE  FromStage(r, Place(p, x)) = ShardOf(x[3], OwnLayer(p, x), Tp(r))
<1>1. PICK q : q = CHOOSE z \in PipelineGroup(r) : Pp(z) = p
  OBVIOUS
<1>2. q \in PipelineGroup(r) /\ Pp(q) = p
  <2>1. \E z \in PipelineGroup(r) : Pp(z) = p
    BY StageRank
  <2> QED
    BY <1>1, <2>1
<1>3. q \in Ranks /\ Tp(q) = Tp(r)
  BY <1>2, StageRank
<1>4. param[q][x] = ShardOf(x[3], OwnLayer(Pp(q), x), Tp(q))
  BY <1>2, <1>3, StageHas
<1>5. FromStage(r, Place(p, x)) = param[q][x]
  BY <1>1 DEF FromStage, Place
<1> QED
  BY <1>2, <1>3, <1>4, <1>5

\* What a tensor group makes of a parameter's shards is whole.
GatheredIn(G, e) ==
    Joined(e.param[3], [t \in 1 .. job.tp |-> FromStage(CHOOSE q \in G : Tp(q) = t - 1, e)])

LEMMA GatheredIs ==
    ASSUME job \in Jobs, AllRight, NEW r \in Ranks, NEW p \in 0 .. job.pp - 1, NEW x, IsParam(p, x),
           x[3] \in AllParts, x[3] \notin Norms
    PROVE  GatheredIn(TensorGroup(r), Place(p, x)) = Whole(x[3], OwnLayer(p, x))
<1>1. ASSUME NEW t \in 1 .. job.tp
      PROVE  FromStage(CHOOSE q \in TensorGroup(r) : Tp(q) = t - 1, Place(p, x))
                 = ShardOf(x[3], OwnLayer(p, x), t - 1)
  <2>1. PICK i \in 0 .. job.tp - 1 : i = t - 1
    BY JobFacts
  <2>2. PICK q : q = CHOOSE z \in TensorGroup(r) : Tp(z) = i
    OBVIOUS
  <2>3. q \in TensorGroup(r) /\ Tp(q) = i
    <3>1. \E z \in TensorGroup(r) : Tp(z) = i
      BY TensorRank
    <3> QED
      BY <2>2, <3>1
  <2>4. q \in Ranks
    BY <2>3 DEF TensorGroup
  <2>5. FromStage(q, Place(p, x)) = ShardOf(x[3], OwnLayer(p, x), i)
    BY <2>3, <2>4, FromStageIs
  <2> QED
    BY <2>1, <2>2, <2>5
<1>2. [t \in 1 .. job.tp |-> FromStage(CHOOSE q \in TensorGroup(r) : Tp(q) = t - 1, Place(p, x))]
          = Shards(x[3], OwnLayer(p, x))
  BY <1>1 DEF Shards
<1>3. GatheredIn(TensorGroup(r), Place(p, x)) = Joined(Place(p, x).param[3], Shards(x[3], OwnLayer(p, x)))
  BY <1>2, Zenon DEF GatheredIn
<1>4. Place(p, x).param[3] = x[3]
  BY DEF Place
<1>5. Joined(x[3], Shards(x[3], OwnLayer(p, x))) = Whole(x[3], OwnLayer(p, x))
  BY JoinedIs
<1> QED
  BY <1>3, <1>4, <1>5, Zenon

\* A parameter's whole tensors are what is sent for it.
LEMMA ConvertedIs ==
    ASSUME NEW p, NEW x, x[3] \in AllParts
    PROVE  Converted(Place(p, x), Whole(x[3], OwnLayer(p, x))) = SentFor(Place(p, x))
<1>1. PICK part, l, o : part = x[3] /\ l = OwnLayer(p, x) /\ o = SentLayer(p, x)
  OBVIOUS
<1>2. DOMAIN InHF(part) = 1 .. Len(InHF(part))
  BY <1>1, InHFAre, PartsAre DEF AllParts
<1>3. \A n \in DOMAIN InHF(part) : Whole(part, l)[n] = Full(l, InHF(part)[n])
  BY <1>2 DEF Whole
<1>4. Converted(Place(p, x), Whole(part, l)) = {<<<<o, InHF(part)[n]>>, Whole(part, l)[n]>> : n \in DOMAIN InHF(part)}
  BY <1>1 DEF Converted, Place
<1>5. SentFor(Place(p, x)) = {<<<<o, InHF(part)[n]>>, Full(l, InHF(part)[n])>> : n \in DOMAIN InHF(part)}
  BY <1>1 DEF SentFor, SentAs, Place, Names
<1>6. Converted(Place(p, x), Whole(part, l)) = SentFor(Place(p, x))
  BY <1>3, <1>4, <1>5
<1> QED
  BY <1>1, <1>6

LEMMA Parity ==
    ASSUME NEW n \in Nat
    PROVE  \E j \in Nat : /\ j = n \div 2 /\ (n % 2 = 0 => n = 2 * j) /\ (n % 2 = 1 => n = 2 * j + 1)
                          /\ (2 * j) % 2 = 0 /\ (2 * j + 1) % 2 = 1 /\ (2 * j + 2) % 2 = 0
                          /\ (2 * j + 1) \div 2 = j
<1>1. PICK j \in Nat : j = n \div 2
  OBVIOUS
<1>2. n % 2 = 0 => n = 2 * j
  BY <1>1
<1>3. n % 2 = 1 => n = 2 * j + 1
  BY <1>1
<1>4. (2 * j) % 2 = 0 /\ (2 * j + 1) % 2 = 1 /\ (2 * j + 2) % 2 = 0 /\ (2 * j + 1) \div 2 = j
  OBVIOUS
<1> QED
  BY <1>1, <1>2, <1>3, <1>4

LEMMA SyncInvInit == Init => SyncInv
BY DEF Init, SyncInv

\* A step of sending, for the ranks of a group and the others.
LEMMA SyncInvGrows ==
    ASSUME Shapes, SyncInv, call = "sync", call' = call, job' = job, meta' = meta,
           DOMAIN engine' = Ranks,
           \A r \in Ranks :
               \/ at'[r] = at[r] /\ engine'[r] = engine[r]
               \/ /\ engine'[r] = SentUpTo(at'[r])
                  /\ at'[r] % 2 = 1 => Current(r)' \in DOMAIN meta /\ meta[Current(r)'].param[3] \notin Norms
    PROVE  SyncInv'
<1>1. Ranks' = Ranks /\ AllParams' = AllParams /\ \A n : SentUpTo(n)' = SentUpTo(n)
  BY SameRanks, SameSent
<1>2. meta = AllParams
  BY DEF SyncInv
<1>3. ASSUME NEW r \in Ranks
      PROVE  /\ engine'[r] = SentUpTo(at'[r])
             /\ at'[r] % 2 = 1 => Current(r)' \in DOMAIN meta /\ meta[Current(r)'].param[3] \notin Norms
  <2>1. CASE at'[r] = at[r] /\ engine'[r] = engine[r]
    <3>1. Current(r)' = Current(r)
      BY <2>1 DEF Current
    <3> QED
      BY <2>1, <3>1 DEF SyncInv
  <2> QED
    BY <2>1
<1>4. ASSUME NEW r \in Ranks
      PROVE  /\ (engine[r] = SentUpTo(at[r]))'
             /\ at'[r] % 2 = 1 => Current(r)' \in DOMAIN meta' /\ meta'[Current(r)'].param[3] \notin Norms
  BY <1>1, <1>3
<1> QED
  BY <1>1, <1>2, <1>4 DEF SyncInv

LEMMA BroadcastSends == Shapes /\ LoadInv /\ SyncInv /\ BroadcastEntry => SyncInv'
<1> SUFFICES ASSUME Shapes, LoadInv, SyncInv, BroadcastEntry PROVE SyncInv'
  OBVIOUS
<1>1. /\ job' = job /\ job \in Jobs /\ call = "sync" /\ call' = call /\ meta' = meta /\ meta = AllParams
      /\ AllRight /\ at \in [Ranks -> Nat] /\ DOMAIN engine = Ranks
  BY DEF BroadcastEntry, Shapes, LoadInv, SyncInv
<1>2. PICK r \in Ranks :
          /\ Current(r) \in DOMAIN meta /\ at[r] % 2 = 0 /\ Together(PipelineGroup(r), at[r])
          /\ IF meta[Current(r)].param[3] \in Norms
             THEN /\ engine' = [q \in Ranks |-> IF q \in PipelineGroup(r)
                        THEN engine[q] \union Converted(meta[Current(r)], <<FromStage(q, meta[Current(r)])>>)
                        ELSE engine[q]]
                  /\ Pass(PipelineGroup(r), 2)
             ELSE /\ Pass(PipelineGroup(r), IF Skipped(meta[Current(r)].param[3]) THEN 2 ELSE 1)
                  /\ UNCHANGED engine
  BY DEF BroadcastEntry
<1>3. PICK j \in Nat : /\ j = at[r] \div 2 /\ at[r] = 2 * j /\ (2 * j + 1) % 2 = 1 /\ (2 * j + 2) % 2 = 0
                       /\ (2 * j + 1) \div 2 = j
  <2>1. at[r] \in Nat
    BY <1>1
  <2> QED
    BY <1>2, <2>1, Parity
<1>4. PICK G, k : G = PipelineGroup(r) /\ k = j + 1
  OBVIOUS
<1>5. Current(r) = k /\ k \in DOMAIN AllParams
  BY <1>1, <1>2, <1>3, <1>4 DEF Current
<1>6. PICK p, x : p \in 0 .. job.pp - 1 /\ AllParams[k] = Place(p, x) /\ IsParam(p, x) /\ x[3] \in AllParts
  BY <1>1, <1>5, EntryIs
<1>7. \A q \in Ranks : q \in G => at[q] = 2 * j
  BY <1>2, <1>3, <1>4 DEF Together
<1>8. SentUpTo(2 * j + 1) = SentUpTo(2 * j) /\ SentUpTo(2 * j + 2) = SentUpTo(2 * j) \union SentFor(Place(p, x))
  BY <1>1, <1>4, <1>5, <1>6, SentStep
<1>9. meta[Current(r)] = Place(p, x) /\ Place(p, x).param = x
  BY <1>1, <1>5, <1>6 DEF Place
<1>10. \A q \in Ranks : engine[q] = SentUpTo(at[q])
  BY <1>1 DEF SyncInv
<1>11. CASE x[3] \in Norms
  <2>1. /\ \A q \in Ranks : engine'[q] = IF q \in G THEN engine[q] \union Converted(Place(p, x), <<FromStage(q, Place(p, x))>>)
                                         ELSE engine[q]
        /\ DOMAIN engine' = Ranks /\ Pass(G, 2) /\ 2 \in Nat
    BY <1>2, <1>4, <1>9, <1>11
  <2>2. \A q \in Ranks : at'[q] = IF q \in G THEN at[q] + 2 ELSE at[q]
    BY <1>1, <2>1, PassAt
  <2>3. ASSUME NEW q \in Ranks, q \in G
        PROVE  engine'[q] = SentUpTo(at'[q]) /\ at'[q] % 2 # 1
    <3>1. FromStage(q, Place(p, x)) = ShardOf(x[3], OwnLayer(p, x), Tp(q))
      BY <1>1, <1>6, FromStageIs
    <3>2. <<ShardOf(x[3], OwnLayer(p, x), Tp(q))>> = Whole(x[3], OwnLayer(p, x))
      BY <1>11, NormWhole
    <3>3. Converted(Place(p, x), Whole(x[3], OwnLayer(p, x))) = SentFor(Place(p, x))
      BY <1>6, ConvertedIs
    <3>4. engine'[q] = SentUpTo(2 * j) \union SentFor(Place(p, x))
      BY <1>7, <1>10, <2>1, <2>3, <3>1, <3>2, <3>3
    <3>5. at'[q] = 2 * j + 2
      BY <1>7, <2>2, <2>3
    <3>6. engine'[q] = SentUpTo(at'[q])
      BY <1>8, <3>4, <3>5
    <3>7. at'[q] % 2 # 1
      BY <1>3, <3>5
    <3> QED
      BY <3>6, <3>7
  <2>4. ASSUME NEW q \in Ranks, q \notin G PROVE at'[q] = at[q] /\ engine'[q] = engine[q]
    BY <2>1, <2>2, <2>4
  <2> QED
    BY <1>1, <2>1, <2>3, <2>4, SyncInvGrows
<1>12. CASE x[3] \notin Norms
  <2>1. ~Skipped(x[3])
    BY <1>6, PartsAre DEF Skipped, AllParts
  <2>2. engine' = engine /\ Pass(G, 1) /\ 1 \in Nat
    BY <1>2, <1>4, <1>9, <1>12, <2>1
  <2>3. \A q \in Ranks : at'[q] = IF q \in G THEN at[q] + 1 ELSE at[q]
    BY <1>1, <2>2, PassAt
  <2>4. ASSUME NEW q \in Ranks, q \in G
        PROVE  /\ engine'[q] = SentUpTo(at'[q])
               /\ Current(q)' \in DOMAIN meta /\ meta[Current(q)'].param[3] \notin Norms
    <3>1. at'[q] = 2 * j + 1
      BY <1>7, <2>3, <2>4
    <3>2. engine'[q] = SentUpTo(at'[q])
      BY <1>7, <1>8, <1>10, <2>2, <2>4, <3>1
    <3>3. Current(q)' = k
      BY <1>3, <1>4, <3>1 DEF Current
    <3> QED
      BY <1>1, <1>5, <1>9, <1>12, <3>2, <3>3
  <2>5. ASSUME NEW q \in Ranks, q \notin G PROVE at'[q] = at[q] /\ engine'[q] = engine[q]
    BY <2>2, <2>3, <2>5
  <2>6. DOMAIN engine' = Ranks
    BY <1>1, <2>2
  <2> QED
    BY <1>1, <2>4, <2>5, <2>6, SyncInvGrows
<1> QED
  BY <1>11, <1>12

LEMMA GatherSends == Shapes /\ LoadInv /\ SyncInv /\ GatherEntry => SyncInv'
<1> SUFFICES ASSUME Shapes, LoadInv, SyncInv, GatherEntry PROVE SyncInv'
  OBVIOUS
<1>1. /\ job' = job /\ job \in Jobs /\ call = "sync" /\ call' = call /\ meta' = meta /\ meta = AllParams
      /\ AllRight /\ at \in [Ranks -> Nat]
  BY DEF GatherEntry, Shapes, LoadInv, SyncInv
<1>2. PICK r \in Ranks :
          /\ at[r] % 2 = 1 /\ Together(TensorGroup(r), at[r])
          /\ engine' = [q \in Ranks |-> IF q \in TensorGroup(r)
                THEN engine[q] \union Converted(meta[Current(r)], GatheredIn(TensorGroup(r), meta[Current(r)]))
                ELSE engine[q]]
          /\ Pass(TensorGroup(r), 1)
  BY Zenon DEF GatherEntry, GatheredIn
<1>3. PICK j \in Nat : j = at[r] \div 2 /\ at[r] = 2 * j + 1 /\ (2 * j + 2) % 2 = 0
  <2>1. at[r] \in Nat
    BY <1>1
  <2> QED
    BY <1>2, <2>1, Parity
<1>4. PICK G, k : G = TensorGroup(r) /\ k = j + 1
  OBVIOUS
<1>5. Current(r) = k /\ k \in DOMAIN AllParams /\ AllParams[k].param[3] \notin Norms
  <2>1. Current(r) = k
    BY <1>3, <1>4 DEF Current
  <2>2. Current(r) \in DOMAIN meta /\ meta[Current(r)].param[3] \notin Norms
    BY <1>1, <1>2 DEF SyncInv
  <2> QED
    BY <1>1, <2>1, <2>2
<1>6. PICK p, x : p \in 0 .. job.pp - 1 /\ AllParams[k] = Place(p, x) /\ IsParam(p, x) /\ x[3] \in AllParts
  BY <1>1, <1>5, EntryIs
<1>7. \A q \in Ranks : q \in G => at[q] = 2 * j + 1
  BY <1>2, <1>3, <1>4 DEF Together
<1>8. SentUpTo(2 * j + 2) = SentUpTo(2 * j + 1) \union SentFor(Place(p, x))
  <2>1. SentUpTo(2 * j + 1) = SentUpTo(2 * j) /\ SentUpTo(2 * j + 2) = SentUpTo(2 * j) \union SentFor(Place(p, x))
    BY <1>1, <1>4, <1>5, <1>6, SentStep
  <2> QED
    BY <2>1
<1>9. meta[Current(r)] = Place(p, x) /\ x[3] \notin Norms
  BY <1>1, <1>5, <1>6 DEF Place
<1>10. GatheredIn(TensorGroup(r), Place(p, x)) = Whole(x[3], OwnLayer(p, x))
  BY <1>1, <1>6, <1>9, GatheredIs
<1>11. Converted(Place(p, x), Whole(x[3], OwnLayer(p, x))) = SentFor(Place(p, x))
  BY <1>6, ConvertedIs
<1>12. Converted(meta[Current(r)], GatheredIn(TensorGroup(r), meta[Current(r)])) = SentFor(Place(p, x))
  BY <1>9, <1>10, <1>11, Zenon
<1>13. engine' = [q \in Ranks |-> IF q \in G THEN engine[q] \union SentFor(Place(p, x)) ELSE engine[q]]
  BY <1>2, <1>4, <1>12, Zenon
<1>14. \A q \in Ranks : at'[q] = IF q \in G THEN at[q] + 1 ELSE at[q]
  <2>1. Pass(G, 1) /\ 1 \in Nat
    BY <1>2, <1>4
  <2> QED
    BY <1>1, <2>1, PassAt
<1>15. ASSUME NEW q \in Ranks, q \in G PROVE engine'[q] = SentUpTo(at'[q]) /\ at'[q] % 2 # 1
  <2>1. at'[q] = 2 * j + 2
    BY <1>7, <1>14, <1>15
  <2>2. engine[q] = SentUpTo(2 * j + 1)
    BY <1>1, <1>7, <1>15 DEF SyncInv
  <2>3. engine'[q] = SentUpTo(2 * j + 1) \union SentFor(Place(p, x))
    BY <1>13, <1>15, <2>2
  <2>4. engine'[q] = SentUpTo(at'[q])
    BY <1>8, <2>1, <2>3, Zenon
  <2>5. at'[q] % 2 # 1
    <3>1. at'[q] % 2 = 0
      BY <1>3, <2>1, Zenon
    <3> QED
      BY <3>1
  <2> QED
    BY <2>4, <2>5
<1>16. ASSUME NEW q \in Ranks, q \notin G PROVE at'[q] = at[q] /\ engine'[q] = engine[q]
  BY <1>13, <1>14, <1>16
<1>17. DOMAIN engine' = Ranks
  BY <1>13
<1> QED
  BY <1>1, <1>15, <1>16, <1>17, SyncInvGrows

LEMMA SyncInvStep == Shapes /\ LoadInv /\ SyncInv /\ [Next]_vars => SyncInv'
<1> SUFFICES ASSUME Shapes, LoadInv, SyncInv, [Next]_vars PROVE SyncInv'
  OBVIOUS
<1>1. CASE BroadcastEntry
  BY <1>1, BroadcastSends
<1>2. CASE GatherEntry
  BY <1>2, GatherSends
<1>3. CASE LoadItem \/ CopyChunk \/ Barrier \/ MergeItem
  <2>1. job' = job /\ call' = call /\ call # "sync" /\ engine' = engine
    BY <1>3 DEF LoadItem, CopyChunk, Barrier, MergeItem
  <2> QED
    BY <2>1, SameRanks DEF SyncInv
<1>4. CASE NextCall
  <2>1. job' = job /\ engine' = engine /\ call' # "load"
        /\ (call' = "sync" => call = "load" /\ meta' = AllParams /\ at' = [r \in Ranks |-> EntersAt(call', r)])
    BY <1>4 DEF NextCall, Shapes, Calls
  <2>2. Ranks' = Ranks /\ AllParams' = AllParams /\ \A n : SentUpTo(n)' = SentUpTo(n)
    BY <2>1, SameRanks, SameSent
  <2>3. CASE call' = "sync"
    <3>1. SentUpTo(0) = {}
      <4>1. job \in Jobs
        BY DEF Shapes
      <4>2. Len(AllParams) \in Nat
        BY <4>1, AllParamsAre, SeqFacts
      <4>3. {k \in 1 .. Len(AllParams) : 2 * k <= 0} = {}
        BY <4>2
      <4> QED
        BY <4>3 DEF SentUpTo
    <3>2. \A r \in Ranks : at'[r] = 0
      BY <2>1, <2>3 DEF EntersAt
    <3>3. 0 % 2 # 1
      OBVIOUS
    <3>4. \A r \in Ranks : (engine[r] = SentUpTo(at[r]))'
      BY <2>1, <2>2, <2>3, <3>1, <3>2 DEF SyncInv
    <3> QED
      BY <2>1, <2>2, <2>3, <3>2, <3>3, <3>4 DEF SyncInv
  <2>4. CASE call' # "sync"
    BY <2>1, <2>2, <2>4 DEF SyncInv
  <2> QED
    BY <2>3, <2>4
<1>5. CASE AssertFails \/ UNCHANGED vars
  <2>1. job' = job /\ call' = call /\ at' = at /\ engine' = engine /\ meta' = meta
    BY <1>5 DEF AssertFails, vars
  <2>2. Ranks' = Ranks /\ AllParams' = AllParams /\ \A n : SentUpTo(n)' = SentUpTo(n)
    BY <2>1, SameRanks, SameSent
  <2>3. \A r : Current(r)' = Current(r)
    BY <2>1 DEF Current
  <2> QED
    BY <2>1, <2>2, <2>3 DEF SyncInv
<1> QED
  BY <1>1, <1>2, <1>3, <1>4, <1>5 DEF Next

--------------------------------------------------------------------------------
(* What the engines are given in the end *)

LEMMA AllSent ==
    ASSUME job \in Jobs
    PROVE  /\ Len(AllParams) \in Nat
           /\ \A y : y \in SentUpTo(2 * Len(AllParams)) <=>
                         \E p \in 0 .. job.pp - 1 : \E x : IsParam(p, x) /\ y \in SentAs(p, x)
<1>1. PICK N \in Nat : N = Len(AllParams) /\ DOMAIN AllParams = 1 .. N
  BY AllParamsAre, SeqFacts
<1>2. SentUpTo(2 * N) = UNION {SentFor(AllParams[k]) : k \in 1 .. N}
  <2>1. {k \in 1 .. N : 2 * k <= 2 * N} = 1 .. N
    OBVIOUS
  <2> QED
    BY <1>1, <2>1 DEF SentUpTo
<1>3. \A y : y \in SentUpTo(2 * N) <=> \E e \in Range(AllParams) : y \in SentFor(e)
  BY <1>1, <1>2 DEF Range
<1>4. ASSUME NEW y
      PROVE  (\E e \in Range(AllParams) : y \in SentFor(e)) <=>
                 \E p \in 0 .. job.pp - 1 : \E x : IsParam(p, x) /\ y \in SentAs(p, x)
  <2>1. ASSUME NEW p, NEW x PROVE SentFor(Place(p, x)) = SentAs(p, x)
    BY DEF SentFor, Place
  <2> QED
    BY <2>1, AllParamsAre
<1> QED
  BY <1>1, <1>3, <1>4

\* The kinds of parameters.
LEMMA ParamKinds ==
    ASSUME job \in Jobs, NEW p \in 0 .. job.pp - 1, NEW x, IsParam(p, x)
    PROVE  \/ x[3] = "embedding" /\ OwnLayer(p, x) = 0 /\ SentLayer(p, x) = 0
           \/ x[3] = "final_layernorm" /\ OwnLayer(p, x) = 0 /\ SentLayer(p, x) = 0
           \/ /\ x[3] = "output_layer" /\ OwnLayer(p, x) = 0 /\ SentLayer(p, x) = 0
              /\ ~(job.tied /\ job.pp = 1)
           \/ \E v, i : /\ InModel(p, v) /\ i \in 0 .. LayersIn(p, v) - 1 /\ x[3] \in Range(Parts)
                        /\ OwnLayer(p, x) = LayerOf(p, v, i) /\ SentLayer(p, x) = i + LayerOffset(p, v)
<1>1. PICK v \in 0 .. Chunks - 1 : InChunk(p, v, x)
  BY DEF IsParam
<1>2. ASSUME NEW i \in 0 .. LayersIn(p, v) - 1, NEW part \in Range(Parts), x = Layered(v, i, part)
      PROVE  /\ InModel(p, v) /\ x[3] \in Range(Parts)
             /\ OwnLayer(p, x) = LayerOf(p, v, i) /\ SentLayer(p, x) = i + LayerOffset(p, v)
  BY <1>2 DEF InModel, Layered, OwnLayer, SentLayer
<1>3. ASSUME NEW part, part \in {"embedding", "final_layernorm", "output_layer"}, x = Layered(v, 0, part)
      PROVE  x[3] = part /\ OwnLayer(p, x) = 0 /\ SentLayer(p, x) = 0
  BY <1>3, PartsAre DEF Layered, OwnLayer, SentLayer
<1> QED
  BY <1>1, <1>2, <1>3 DEF InChunk

LEMMA SentIsOwn ==
    ASSUME job \in Jobs, ~Misnamed, NEW p \in 0 .. job.pp - 1, NEW x, IsParam(p, x)
    PROVE  SentAs(p, x) = Pairs(OwnLayer(p, x), x[3])
<1>1. ASSUME NEW v, NEW i, InModel(p, v), i \in 0 .. LayersIn(p, v) - 1
      PROVE  i + LayerOffset(p, v) = LayerOf(p, v, i)
  <2>1. LayersIn(p, v) \in Nat
    BY <1>1, LayersInIs
  <2>2. LayersIn(p, v) > 0 /\ i \in Nat
    BY <1>1, <2>1
  <2>3. LayerOffset(p, v) = LayerOf(p, v, 0)
    BY <1>1, <2>2, OffsetRight
  <2>4. PICK n : n = Chunk(p, v) /\ n \in 0 .. job.pp * Chunks - 1
    BY <1>1, ChunkIs
  <2>5. Until(n) \in Int
    BY <2>4, UntilIs
  <2>6. LayerOf(p, v, 0) = Until(n) + 0 /\ LayerOf(p, v, i) = Until(n) + i
    BY <1>1, <2>4, UntilIs
  <2> QED
    BY <2>2, <2>3, <2>5, <2>6
<1>2. SentLayer(p, x) = OwnLayer(p, x)
  BY <1>1, ParamKinds
<1> QED
  BY <1>2 DEF SentAs, Pairs, Pair

LEMMA OffsetType ==
    ASSUME job \in Jobs, NEW p, NEW v, InModel(p, v)
    PROVE  LayerOffset(p, v) \in Int
<1>1. PICK s \in Nat \ {0}, c \in Nat \ {0}, m \in Nat, f \in Nat, y \in Nat :
          s = job.pp /\ c = Chunks /\ m = MiddleSize /\ f = FirstSize /\ y = CycleSize
  BY JobFacts, SizesAre
<1>2. p \in 0 .. s - 1 /\ v \in 0 .. c - 1 /\ job.first \in Nat /\ job.last \in Nat
  BY <1>1, JobFacts DEF InModel
<1>3. PICK a \in Int, b \in Int, d \in Int : a = v * y /\ b = p * m /\ d = (p - 1) * m
  BY <1>2
<1>4. CASE job.pp = 1
  BY <1>4 DEF LayerOffset
<1>5. CASE job.pp > 1 /\ job.first + job.last # 0
  <2>1. LayerOffset(p, v) =
            v * y + (IF p = 0 THEN 0 ELSE f + (IF job.first = 0 /\ job.vpp = 0 THEN p ELSE p - 1) * m)
    BY <1>1, <1>5, OffsetOwn
  <2>2. (IF job.first = 0 /\ job.vpp = 0 THEN p ELSE p - 1) * m = IF job.first = 0 /\ job.vpp = 0 THEN b ELSE d
    BY <1>3
  <2>3. LayerOffset(p, v) = a + (IF p = 0 THEN 0 ELSE f + (IF job.first = 0 /\ job.vpp = 0 THEN b ELSE d))
    BY <1>3, <2>1, <2>2, Zenon
  <2> QED
    BY <2>3
<1>6. CASE job.pp > 1 /\ job.first + job.last = 0
  <2>1. LayerOffset(p, v) = a + b - (IF job.embed /\ ~FirstStage(p) THEN 1 ELSE 0)
    BY <1>1, <1>3, <1>6, OffsetEqual
  <2> QED
    BY <2>1
<1> QED
  BY <1>1, <1>4, <1>5, <1>6

LEMMA SentRight ==
    ASSUME job \in Jobs, ~Misnamed
    PROVE  SentUpTo(2 * Len(AllParams)) = Body \union (IF job.tied /\ job.pp = 1 THEN {} ELSE OutputLayer)
<1>1. \A y : y \in SentUpTo(2 * Len(AllParams)) <=>
                 \E p \in 0 .. job.pp - 1 : \E x : IsParam(p, x) /\ y \in Pairs(OwnLayer(p, x), x[3])
  BY AllSent, SentIsOwn
<1>2. job.pp \in Nat \ {0} /\ Chunks \in Nat \ {0}
  BY JobFacts
<1>3. ASSUME NEW y, NEW p \in 0 .. job.pp - 1, NEW x, IsParam(p, x), y \in Pairs(OwnLayer(p, x), x[3])
      PROVE  y \in Body \union (IF job.tied /\ job.pp = 1 THEN {} ELSE OutputLayer)
  <2>1. CASE x[3] \in {"embedding", "final_layernorm"} /\ OwnLayer(p, x) = 0
    BY <1>3, <2>1, BodyIs
  <2>2. CASE x[3] = "output_layer" /\ OwnLayer(p, x) = 0 /\ ~(job.tied /\ job.pp = 1)
    BY <1>3, <2>2, OutputLayerIs
  <2>3. ASSUME NEW v, NEW i, InModel(p, v), i \in 0 .. LayersIn(p, v) - 1, x[3] \in Range(Parts),
               OwnLayer(p, x) = LayerOf(p, v, i)
        PROVE  y \in Body
    <3>1. LayerOf(p, v, i) \in 0 .. job.layers - 1
      BY <2>3, LayersCovered
    <3> QED
      BY <1>3, <2>3, <3>1, BodyIs
  <2> QED
    BY <1>3, <2>1, <2>2, <2>3, ParamKinds
<1>4. ASSUME NEW y \in Pairs(0, "embedding")
      PROVE  \E p \in 0 .. job.pp - 1 : \E x : IsParam(p, x) /\ y \in Pairs(OwnLayer(p, x), x[3])
  <2>1. PICK x : x = Layered(0, 0, "embedding")
    OBVIOUS
  <2>2. 0 \in 0 .. job.pp - 1 /\ 0 \in 0 .. Chunks - 1
    BY <1>2
  <2>3. IsParam(0, x)
    BY <2>1, <2>2 DEF IsParam, InChunk
  <2>4. x[3] = "embedding" /\ OwnLayer(0, x) = 0
    BY <2>1, PartsAre DEF Layered, OwnLayer
  <2> QED
    BY <2>2, <2>3, <2>4
<1>5. ASSUME NEW part \in {"final_layernorm", "output_layer"}, part = "output_layer" => ~(job.tied /\ job.pp = 1),
             NEW y \in Pairs(0, part)
      PROVE  \E p \in 0 .. job.pp - 1 : \E x : IsParam(p, x) /\ y \in Pairs(OwnLayer(p, x), x[3])
  <2>1. PICK p, v, x : p = job.pp - 1 /\ v = Chunks - 1 /\ x = Layered(v, 0, part)
    OBVIOUS
  <2>2. p \in 0 .. job.pp - 1 /\ v \in 0 .. Chunks - 1
    BY <1>2, <2>1
  <2>3. InChunk(p, v, x)
    BY <1>5, <2>1 DEF InChunk
  <2>4. IsParam(p, x)
    BY <2>2, <2>3 DEF IsParam
  <2>5. x[3] = part /\ OwnLayer(p, x) = 0
    BY <1>5, <2>1, PartsAre DEF Layered, OwnLayer
  <2> QED
    BY <2>2, <2>4, <2>5
<1>6. ASSUME NEW l \in 0 .. job.layers - 1, NEW part \in Range(Parts), NEW y \in Pairs(l, part)
      PROVE  \E p \in 0 .. job.pp - 1 : \E x : IsParam(p, x) /\ y \in Pairs(OwnLayer(p, x), x[3])
  <2>1. PICK p, v, i : InModel(p, v) /\ i \in 0 .. LayersIn(p, v) - 1 /\ LayerOf(p, v, i) = l
    BY LayersCovered
  <2>2. PICK x : x = Layered(v, i, part)
    OBVIOUS
  <2>3. p \in 0 .. job.pp - 1 /\ v \in 0 .. Chunks - 1
    BY <2>1 DEF InModel
  <2>4. IsParam(p, x)
    BY <2>1, <2>2, <2>3 DEF IsParam, InChunk
  <2>5. x[3] = part /\ OwnLayer(p, x) = l
    BY <2>1, <2>2 DEF Layered, OwnLayer
  <2> QED
    BY <2>3, <2>4, <2>5
<1>7. ASSUME NEW y \in Body PROVE y \in SentUpTo(2 * Len(AllParams))
  BY <1>1, <1>4, <1>5, <1>6, BodyIs
<1>8. ASSUME ~(job.tied /\ job.pp = 1), NEW y \in OutputLayer PROVE y \in SentUpTo(2 * Len(AllParams))
  BY <1>1, <1>5, <1>8, OutputLayerIs
<1> QED
  BY <1>1, <1>3, <1>7, <1>8

\* A norm of a misnamed chunk gets the name of another layer's.
LEMMA SentWrong ==
    ASSUME job \in Jobs, Misnamed
    PROVE  SentUpTo(2 * Len(AllParams)) # Body \union (IF job.tied /\ job.pp = 1 THEN {} ELSE OutputLayer)
<1>1. PICK p, v : Renamed(p, v)
  BY OffsetWrong
<1>2. PICK x, o, l, name : /\ x = Layered(v, 0, "input_layernorm") /\ o = LayerOffset(p, v) /\ l = LayerOf(p, v, 0)
                           /\ name = "input_layernorm"
  OBVIOUS
<1>3. InModel(p, v) /\ LayersIn(p, v) > 0 /\ o # l
  BY <1>1, <1>2 DEF Renamed
<1>4. p \in 0 .. job.pp - 1 /\ v \in 0 .. Chunks - 1
  BY <1>3 DEF InModel
<1>5. 0 \in 0 .. LayersIn(p, v) - 1
  BY <1>3, LayersInIs
<1>6. IsParam(p, x)
  BY <1>2, <1>4, <1>5, PartsAre DEF IsParam, InChunk
<1>7. SentLayer(p, x) = o /\ OwnLayer(p, x) = l
  <2>1. o \in Int
    BY <1>2, <1>3, OffsetType
  <2>2. SentLayer(p, x) = 0 + o /\ OwnLayer(p, x) = l
    BY <1>2, PartsAre DEF SentLayer, OwnLayer, Layered
  <2> QED
    BY <2>1, <2>2
<1>8. PICK y : y = <<<<o, name>>, Full(l, name)>>
  OBVIOUS
<1>9. y \in SentUpTo(2 * Len(AllParams))
  <2>1. name \in Names(x[3])
    BY <1>2, NamesAre DEF Layered
  <2>2. y \in SentAs(p, x)
    BY <1>7, <1>8, <2>1 DEF SentAs
  <2> QED
    BY <1>4, <1>6, <2>2, AllSent
<1>10. ASSUME NEW k, Full(k, name) = Full(l, name) PROVE k = l
  <2>1. ASSUME NEW z PROVE Full(z, name) = Slice(z, name, 0, 1)
    BY <1>2, UnitsAre DEF Full
  <2>2. ASSUME NEW z PROVE Full(z, name)[1] = Unit(z, name, 0 + 1)
    <3>1. PICK one, zero : one = 1 /\ zero = 0 /\ one \in Nat /\ zero \in Nat /\ one \in 1 .. one
      OBVIOUS
    <3>2. Slice(z, name, zero, one)[one] = Unit(z, name, zero + one)
      BY <3>1, SliceIs
    <3> QED
      BY <2>1, <3>1, <3>2
  <2>3. Unit(k, name, 0 + 1) = Unit(l, name, 0 + 1)
    BY <1>10, <2>2
  <2> QED
    BY <2>3 DEF Unit
<1>11. ASSUME NEW k, NEW part, y \in Pairs(k, part) PROVE FALSE
  <2>1. PICK z : y = <<<<k, z>>, Full(k, z)>>
    BY <1>11 DEF Pairs, Pair
  <2>2. k = o /\ z = name /\ Full(k, z) = Full(l, name)
    BY <1>8, <2>1
  <2>3. k = l
    BY <1>10, <2>2
  <2> QED
    BY <1>3, <2>2, <2>3
<1>12. y \notin Body \union (IF job.tied /\ job.pp = 1 THEN {} ELSE OutputLayer)
  BY <1>11, BodyIs, OutputLayerIs
<1> QED
  BY <1>9, <1>12

\* Every engine is given the model, but where layers are misnamed: see EngineGetsModel
\* (per_tensor_generator).
THEOREM EnginesWhole == Spec => []EngineGetsModel
<1>1. Init => Shapes /\ LoadInv /\ SyncInv
  BY ShapesInit, LoadInvInit, SyncInvInit
<1>2. Shapes /\ LoadInv /\ SyncInv /\ [Next]_vars => (Shapes /\ LoadInv /\ SyncInv)'
  BY ShapesStep, LoadInvStep, SyncInvStep
<1>3. Shapes /\ LoadInv /\ SyncInv => EngineGetsModel
  <2> SUFFICES ASSUME Shapes, LoadInv, SyncInv, call = "sync", Returned, NEW r \in Ranks
               PROVE  Misnamed <=> engine[r] # Body \union (IF job.tied /\ job.pp = 1 THEN {} ELSE OutputLayer)
    BY DEF EngineGetsModel
  <2>1. job \in Jobs
    BY DEF Shapes
  <2>2. at[r] = 2 * Len(AllParams)
    BY DEF Returned, SyncInv
  <2>3. engine[r] = SentUpTo(2 * Len(AllParams))
    BY <2>2 DEF SyncInv
  <2> QED
    BY <2>1, <2>3, SentRight, SentWrong
<1> QED
  BY <1>1, <1>2, <1>3, PTL DEF Spec
================================================================================
