---------------------------- MODULE OAPLStep_proofs ----------------------------
(***************************************************************************)
(* One step of training on any number of ranks, proved for every           *)
(* configuration that the code accepts: every column stays in the row it   *)
(* was computed for, the ranks of a group run the same rows, every row is  *)
(* trained on once in an epoch, each optimizer step is a mean over as many *)
(* rows as configured, and a step fails in two ways only.                  *)
(*                                                                         *)
(* The inductive invariant gives the rows that a rank holds in closed form *)
(* (DataAt): the part of the batch it was sent, the part of its group, and *)
(* the part of the result that is its to return, where a part is a run of  *)
(* consecutive rows.  Chunking, gathering, sharing and collecting become   *)
(* facts on parts of parts.  LogAt says that the micro-batches a rank has  *)
(* run and those it has left are a permutation of its rows (or, with       *)
(* micro-batches of fixed size, a prefix of them and the rest), so that    *)
(* reverting it puts the log probabilities back; BatchInv and ScoredInv    *)
(* carry the rows of the driver.  GroupInv has what the ranks of a group   *)
(* have in common.  TrainInv is about the update: the mini-batches a rank  *)
(* has left are as many as the steps to take, a gradient is a bag with the *)
(* rows that have run of the mini-batch at hand (Summed), and the gradient *)
(* of a step taken has each row of its mini-batch once (Whole).            *)
(*                                                                         *)
(* What a fold or a flattening returns is had from the function it         *)
(* unfolds to, and inductions over numbers are made by a least             *)
(* counterexample (Least, Upwards).                                        *)
(***************************************************************************)
EXTENDS OAPLStep, SequenceTheorems, FunctionTheorems, FiniteSetTheorems,
        WellFoundedInduction, TLAPS

--------------------------------------------------------------------------------
(* Sequences *)

IsSeq(s) == s \in Seq(Range(s))

\* A function on 1 .. n is a sequence.
LEMMA FunctionIsSeq ==
    ASSUME NEW n \in Nat, NEW s, s = [i \in 1 .. n |-> s[i]]
    PROVE  IsSeq(s) /\ Len(s) = n /\ DOMAIN s = 1 .. n
<1>1. DOMAIN s = 1 .. n
  OBVIOUS
<1>2. s \in [1 .. n -> Range(s)]
  <2>1. \A i \in 1 .. n : s[i] \in Range(s)
    BY <1>1 DEF Range
  <2> QED
    BY <2>1
<1> QED
  BY <1>1, <1>2 DEF IsSeq

LEMMA SeqFacts ==
    ASSUME NEW s, IsSeq(s)
    PROVE  /\ Len(s) \in Nat /\ DOMAIN s = 1 .. Len(s) /\ s = [i \in 1 .. Len(s) |-> s[i]]
           /\ Len(s) = 0 <=> s = <<>>
<1>1. Len(s) \in Nat /\ DOMAIN s = 1 .. Len(s) /\ s \in [1 .. Len(s) -> Range(s)]
  BY LenProperties DEF IsSeq
<1>2. s # <<>> => Len(s) # 0
  BY EmptySeq DEF IsSeq
<1>3. Len(<<>>) = 0
  OBVIOUS
<1> QED
  BY <1>1, <1>2, <1>3

LEMMA SameSeq ==
    ASSUME NEW s, NEW t, IsSeq(s), IsSeq(t), Len(s) = Len(t), \A i \in 1 .. Len(s) : s[i] = t[i]
    PROVE  s = t
BY SeqFacts

LEMMA ConcatFacts ==
    ASSUME NEW s, NEW t, IsSeq(s), IsSeq(t)
    PROVE  /\ IsSeq(s \o t) /\ Len(s \o t) = Len(s) + Len(t)
           /\ \A i \in 1 .. Len(s) : (s \o t)[i] = s[i]
           /\ \A i \in 1 .. Len(t) : (s \o t)[Len(s) + i] = t[i]
           /\ Range(s \o t) = Range(s) \cup Range(t)
<1> DEFINE S == Range(s) \cup Range(t)
<1>1. s \in Seq(S) /\ t \in Seq(S)
  BY SeqMonotonic DEF IsSeq
<1> HIDE DEF S
<1>2. Len(s) \in Nat /\ Len(t) \in Nat
  BY SeqFacts
<1>3. /\ s \o t \in Seq(S) /\ Len(s \o t) = Len(s) + Len(t)
      /\ \A i \in 1 .. Len(s) + Len(t) :
            (s \o t)[i] = IF i <= Len(s) THEN s[i] ELSE t[i - Len(s)]
  BY <1>1, ConcatProperties
<1>4. Range(s \o t) = S
  BY <1>1, RangeConcatenation DEF S
<1>5. IsSeq(s \o t)
  BY <1>3, <1>4 DEF IsSeq
<1>6. ASSUME NEW i \in 1 .. Len(t) PROVE (s \o t)[Len(s) + i] = t[i]
  <2>1. Len(s) + i \in 1 .. Len(s) + Len(t) /\ ~(Len(s) + i <= Len(s)) /\ (Len(s) + i) - Len(s) = i
    BY <1>2
  <2> QED
    BY <1>3, <2>1
<1> QED
  BY <1>2, <1>3, <1>4, <1>5, <1>6 DEF S

\* What comes after the first a entries, up to the b-th.
Slice(s, a, b) == SubSeq(s, a + 1, b)

LEMMA SliceFacts ==
    ASSUME NEW s, IsSeq(s), NEW a \in Nat, NEW b \in Nat, a <= b, b <= Len(s)
    PROVE  /\ IsSeq(Slice(s, a, b)) /\ Len(Slice(s, a, b)) = b - a
           /\ \A i \in 1 .. b - a : Slice(s, a, b)[i] = s[a + i]
<1>1. Len(s) \in Nat /\ \A i \in 1 .. Len(s) : s[i] \in Range(s)
  BY SeqFacts, ElementOfSeq DEF IsSeq
<1>2. /\ SubSeq(s, a + 1, b) \in Seq(Range(s))
      /\ Len(SubSeq(s, a + 1, b)) = IF a + 1 <= b THEN b - (a + 1) + 1 ELSE 0
      /\ \A i \in 1 .. b - (a + 1) + 1 : SubSeq(s, a + 1, b)[i] = s[(a + 1) + i - 1]
  <2>1. \A i \in a + 1 .. b : s[i] \in Range(s)
    BY <1>1
  <2> QED
    BY <2>1, SubSeqProperties
<1>3. Len(SubSeq(s, a + 1, b)) = b - a
  BY <1>2
<1>4. IsSeq(SubSeq(s, a + 1, b))
  <2> DEFINE u == SubSeq(s, a + 1, b)
  <2>1. u \in Seq(Range(s))
    BY <1>2
  <2> HIDE DEF u
  <2>2. u \in Seq(Range(u))
    BY <2>1, SeqOfRange
  <2> QED
    BY <2>2 DEF u, IsSeq
<1>5. ASSUME NEW i \in 1 .. b - a PROVE SubSeq(s, a + 1, b)[i] = s[a + i]
  <2>1. i \in 1 .. b - (a + 1) + 1 /\ (a + 1) + i - 1 = a + i
    OBVIOUS
  <2> QED
    BY <1>2, <2>1
<1> QED
  BY <1>3, <1>4, <1>5 DEF Slice

LEMMA SlicesJoin ==
    ASSUME NEW s, IsSeq(s), NEW a \in Nat, NEW b \in Nat, NEW c \in Nat, a <= b, b <= c, c <= Len(s)
    PROVE  Slice(s, a, b) \o Slice(s, b, c) = Slice(s, a, c)
<1>1. a + 1 \in 1 .. Len(s) + 1 /\ b \in (a + 1) - 1 .. Len(s) /\ c \in b .. Len(s)
  BY SeqFacts
<1>2. s \in Seq(Range(s))
  BY DEF IsSeq
<1> QED
  BY <1>1, <1>2, ConcatAdjacentSubSeq DEF Slice

--------------------------------------------------------------------------------
(* Induction, by the least number for which a statement would be false *)

LEMMA Least ==
    ASSUME NEW T, T \subseteq Nat, T # {}
    PROVE  \E n \in T : \A m \in T : n <= m
<1>1. PICK n \in T : \A m \in T : <<m, n>> \notin OpToRel(<, Nat)
  BY NatLessThanWellFounded, WFMin
<1>2. ASSUME NEW m \in T PROVE n <= m
  <2>1. m \in Nat /\ n \in Nat
    OBVIOUS
  <2>2. ~(m < n)
    BY <1>1, <2>1 DEF OpToRel
  <2> QED
    BY <2>1, <2>2
<1> QED
  BY <1>2

LEMMA Upwards ==
    ASSUME NEW n \in Nat, NEW P, 1 \in P, \A i \in 1 .. n : i > 1 /\ i - 1 \in P => i \in P
    PROVE  1 .. n \subseteq P
<1> DEFINE Wrong == {i \in 1 .. n : i \notin P}
<1> SUFFICES ASSUME Wrong # {} PROVE FALSE
  OBVIOUS
<1>1. PICK i \in Wrong : \A j \in Wrong : i <= j
  <2>1. Wrong \subseteq Nat
    OBVIOUS
  <2> HIDE DEF Wrong
  <2> QED
    BY <2>1, Least
<1>2. i \in 1 .. n /\ i \notin P /\ i > 1
  OBVIOUS
<1>3. i - 1 \in 1 .. n /\ ~(i <= i - 1)
  BY <1>2
<1>4. i - 1 \notin Wrong
  <2> HIDE DEF Wrong
  <2> QED
    BY <1>1, <1>3
<1> QED
  BY <1>2, <1>3, <1>4

--------------------------------------------------------------------------------
(* What FlattenSeq puts together *)

Joins(F, seqs, n) == F = [i \in 1 .. n |-> IF i = 1 THEN seqs[i] ELSE F[i - 1] \o seqs[i]]

LEMMA JoinsExists ==
    ASSUME NEW seqs, NEW n \in Nat
    PROVE  \E F : Joins(F, seqs, n)
<1> DEFINE Wrong == {m \in Nat : ~\E F : Joins(F, seqs, m)}
<1> SUFFICES ASSUME Wrong # {} PROVE FALSE
  OBVIOUS
<1>1. PICK m \in Wrong : \A l \in Wrong : m <= l
  <2>1. Wrong \subseteq Nat
    OBVIOUS
  <2> HIDE DEF Wrong
  <2> QED
    BY <2>1, Least
<1>2. m \in Nat /\ ~\E F : Joins(F, seqs, m)
  OBVIOUS
<1>3. CASE m = 0
  <2> DEFINE F == [i \in 1 .. 0 |-> 0]
  <2>1. F = [i \in 1 .. m |-> IF i = 1 THEN seqs[i] ELSE F[i - 1] \o seqs[i]]
    BY <1>3
  <2> QED
    BY <1>2, <2>1 DEF Joins
<1>4. CASE m # 0
  <2>1. m - 1 \in Nat /\ m - 1 \notin Wrong
    <3>1. m - 1 \in Nat /\ ~(m <= m - 1)
      BY <1>2, <1>4
    <3> HIDE DEF Wrong
    <3> QED
      BY <1>1, <3>1
  <2>2. PICK F : Joins(F, seqs, m - 1)
    BY <2>1
  <2> DEFINE G == [i \in 1 .. m |-> IF i = 1 THEN seqs[1] ELSE IF i = m THEN F[i - 1] \o seqs[i] ELSE F[i]]
  <2>3. ASSUME NEW i \in 1 .. m PROVE G[i] = IF i = 1 THEN seqs[i] ELSE G[i - 1] \o seqs[i]
    <3>1. CASE i = 1
      BY <3>1
    <3>2. CASE i > 1 /\ i < m
      <4>1. i \in 1 .. m - 1 /\ i - 1 \in 1 .. m - 1 /\ i # 1 /\ i # m /\ i - 1 # m
        BY <1>2, <3>2
      <4>2. F[i] = F[i - 1] \o seqs[i] /\ (i - 1 = 1 => F[i - 1] = seqs[1])
        BY <2>2, <4>1 DEF Joins
      <4>3. G[i] = F[i] /\ G[i - 1] = IF i - 1 = 1 THEN seqs[1] ELSE F[i - 1]
        BY <4>1, i - 1 \in 1 .. m
      <4> QED
        BY <4>1, <4>2, <4>3
    <3>3. CASE i > 1 /\ i = m
      <4>1. i - 1 \in 1 .. m - 1 /\ i - 1 \in 1 .. m /\ i # 1 /\ i - 1 # m
        BY <1>2, <3>3
      <4>2. i - 1 = 1 => F[i - 1] = seqs[1]
        BY <2>2, <4>1 DEF Joins
      <4> QED
        BY <3>3, <4>1, <4>2
    <3> QED
      BY <1>2, <3>1, <3>2, <3>3
  <2>4. Joins(G, seqs, m)
    BY <2>3 DEF Joins
  <2> QED
    BY <1>2, <2>4
<1> QED
  BY <1>3, <1>4

\* The sequences put together one by one.
LEMMA FlattenSteps ==
    ASSUME NEW seqs, NEW n \in Nat \ {0}, Len(seqs) = n
    PROVE  \E F : /\ F[1] = seqs[1]
                  /\ \A i \in 1 .. n : i > 1 => F[i] = F[i - 1] \o seqs[i]
                  /\ FlattenSeq(seqs) = F[n]
<1> DEFINE F == CHOOSE F : F = [i \in 1 .. Len(seqs) |-> IF i = 1 THEN seqs[i] ELSE F[i - 1] \o seqs[i]]
<1>1. \E G : G = [i \in 1 .. Len(seqs) |-> IF i = 1 THEN seqs[i] ELSE G[i - 1] \o seqs[i]]
  BY JoinsExists DEF Joins
<1>2. F = [i \in 1 .. Len(seqs) |-> IF i = 1 THEN seqs[i] ELSE F[i - 1] \o seqs[i]]
  BY <1>1
<1>3. FlattenSeq(seqs) = F[Len(seqs)]
  BY DEF FlattenSeq
<1> HIDE DEF F
<1>4. F[1] = seqs[1]
  BY <1>2
<1>5. ASSUME NEW i \in 1 .. n, i > 1 PROVE F[i] = F[i - 1] \o seqs[i]
  <2>1. i \in 1 .. Len(seqs) /\ i # 1
    BY <1>5
  <2>2. F[i] = IF i = 1 THEN seqs[i] ELSE F[i - 1] \o seqs[i]
    BY <1>2, <2>1
  <2> QED
    BY <2>1, <2>2
<1> QED
  BY <1>3, <1>4, <1>5

--------------------------------------------------------------------------------
(* Equal parts of a batch *)

\* The part of m rows that has i parts before it.
Part(rows, m, i) == SubSeq(rows, i * m + 1, (i + 1) * m)

LEMMA PartFacts ==
    ASSUME NEW rows, IsSeq(rows), NEW m \in Nat, NEW i \in Nat, (i + 1) * m <= Len(rows)
    PROVE  /\ IsSeq(Part(rows, m, i)) /\ Len(Part(rows, m, i)) = m
           /\ \A j \in 1 .. m : Part(rows, m, i)[j] = rows[i * m + j]
<1>1. PICK a, b : a = i * m /\ b = (i + 1) * m
  OBVIOUS
<1>2. a \in Nat /\ b \in Nat /\ b = a + m
  <2>1. i * m \in Nat /\ (i + 1) * m = i * m + m
    OBVIOUS
  <2> QED
    BY <1>1, <2>1
<1>3. Part(rows, m, i) = Slice(rows, a, b) /\ b <= Len(rows)
  BY <1>1 DEF Part, Slice
<1>4. a <= b /\ b - a = m
  BY <1>2
<1>5. /\ IsSeq(Slice(rows, a, b)) /\ Len(Slice(rows, a, b)) = b - a
      /\ \A j \in 1 .. b - a : Slice(rows, a, b)[j] = rows[a + j]
  BY <1>2, <1>3, <1>4, SliceFacts
<1> QED
  BY <1>1, <1>3, <1>4, <1>5

\* Parts that follow each other make what they were cut from.
Cut(rows, m, f, s) == Slice(rows, f * m, (f + s) * m)

LEMMA PartsJoined ==
    ASSUME NEW rows, IsSeq(rows), NEW m \in Nat, NEW f \in Nat, NEW s \in Nat \ {0},
           (f + s) * m <= Len(rows),
           NEW parts, Len(parts) = s, \A i \in 1 .. s : parts[i] = Part(rows, m, (f + i) - 1)
    PROVE  FlattenSeq(parts) = Cut(rows, m, f, s)
<1>1. PICK F : /\ F[1] = parts[1]
               /\ \A i \in 1 .. s : i > 1 => F[i] = F[i - 1] \o parts[i]
               /\ FlattenSeq(parts) = F[s]
  BY FlattenSteps
<1> DEFINE P == {i \in 1 .. s : F[i] = Cut(rows, m, f, i)}
<1>2. 1 \in P
  <2>1. 1 \in 1 .. s /\ (f + 1) - 1 = f
    OBVIOUS
  <2>2. parts[1] = Part(rows, m, f)
    BY <2>1
  <2> QED
    BY <1>1, <2>1, <2>2 DEF Part, Cut, Slice
<1>3. ASSUME NEW i \in 1 .. s, i > 1, i - 1 \in P PROVE i \in P
  <2>1. PICK a, b, c, d : a = f * m /\ b = (f + (i - 1)) * m /\ c = (f + i) * m /\ d = (s - i) * m
    OBVIOUS
  <2>2. F[i] = Slice(rows, a, b) \o parts[i]
    BY <1>1, <1>3, <2>1 DEF Cut
  <2>3. parts[i] = Slice(rows, b, c)
    <3>1. (f + i) - 1 = f + (i - 1) /\ ((f + i) - 1) + 1 = f + i
      OBVIOUS
    <3>2. parts[i] = SubSeq(rows, ((f + i) - 1) * m + 1, (((f + i) - 1) + 1) * m)
      BY DEF Part
    <3> QED
      BY <2>1, <3>1, <3>2 DEF Slice
  <2>4. a \in Nat /\ b \in Nat /\ c \in Nat /\ a <= b /\ b <= c /\ c <= Len(rows)
    <3>1. d \in Nat /\ a \in Nat
      BY <2>1
    <3>2. \E e \in Nat : b = a + e /\ c = b + m
      <4>1. (i - 1) * m \in Nat
        OBVIOUS
      <4>2. b = a + (i - 1) * m /\ c = b + m
        BY <2>1
      <4> QED
        BY <4>1, <4>2
    <3>3. c + d = (f + s) * m
      BY <2>1
    <3>4. c + d <= Len(rows) /\ Len(rows) \in Nat
      BY <3>3, SeqFacts
    <3> QED
      BY <3>1, <3>2, <3>4
  <2>5. F[i] = Slice(rows, a, c)
    <3>1. Slice(rows, a, b) \o Slice(rows, b, c) = Slice(rows, a, c)
      BY <2>4, SlicesJoin
    <3> QED
      BY <2>2, <2>3, <3>1
  <2>6. Cut(rows, m, f, i) = Slice(rows, a, c)
    BY <2>1 DEF Cut
  <2>7. F[i] = Cut(rows, m, f, i)
    BY <2>5, <2>6
  <2> QED
    BY <2>7
<1>4. 1 .. s \subseteq P
  <2> HIDE DEF P
  <2> QED
    BY <1>2, <1>3, Upwards
<1> QED
  BY <1>1, <1>4

\* All parts make all rows.
LEMMA AllPartsJoined ==
    ASSUME NEW rows, IsSeq(rows), NEW m \in Nat, NEW k \in Nat \ {0}, k * m = Len(rows),
           NEW parts, Len(parts) = k, \A i \in 1 .. k : parts[i] = Part(rows, m, i - 1)
    PROVE  FlattenSeq(parts) = rows
<1>1. \A i \in 1 .. k : parts[i] = Part(rows, m, (0 + i) - 1)
  <2>1. \A i \in 1 .. k : (0 + i) - 1 = i - 1
    OBVIOUS
  <2> QED
    BY <2>1
<1>2. (0 + k) * m <= Len(rows)
  BY SeqFacts
<1>3. FlattenSeq(parts) = Cut(rows, m, 0, k)
  BY <1>1, <1>2, PartsJoined
<1>4. 0 * m + 1 = 1 /\ (0 + k) * m = Len(rows)
  OBVIOUS
<1>5. SubSeq(rows, 1, Len(rows)) = rows
  BY SubSeqFull DEF IsSeq
<1> QED
  BY <1>3, <1>4, <1>5 DEF Cut, Slice

\* The parts of a group make a part of the groups.
LEMMA GroupPartsJoined ==
    ASSUME NEW rows, IsSeq(rows), NEW m \in Nat, NEW s \in Nat \ {0}, NEW j \in Nat,
           (j + 1) * (s * m) <= Len(rows),
           NEW parts, Len(parts) = s, \A i \in 1 .. s : parts[i] = Part(rows, m, (j * s + i) - 1)
    PROVE  FlattenSeq(parts) = Part(rows, s * m, j)
<1>1. (j * s + s) * m = (j + 1) * (s * m) /\ (j * s) * m = j * (s * m) /\ j * s \in Nat
  OBVIOUS
<1>2. FlattenSeq(parts) = Cut(rows, m, j * s, s)
  <2>1. PICK f : f = j * s
    OBVIOUS
  <2>2. f \in Nat /\ (f + s) * m <= Len(rows) /\ \A i \in 1 .. s : parts[i] = Part(rows, m, (f + i) - 1)
    BY <1>1, <2>1
  <2>3. FlattenSeq(parts) = Cut(rows, m, f, s)
    BY <2>2, PartsJoined
  <2> QED
    BY <2>1, <2>3
<1> QED
  BY <1>1, <1>2 DEF Part, Cut, Slice

\* A rank's part of the part of its group is its part of all rows.
LEMMA PartOfPart ==
    ASSUME NEW rows, IsSeq(rows), NEW m \in Nat, NEW s \in Nat \ {0}, NEW j \in Nat,
           NEW t \in 0 .. s - 1, (j + 1) * (s * m) <= Len(rows)
    PROVE  Part(Part(rows, s * m, j), m, t) = Part(rows, m, j * s + t)
<1> DEFINE n == s * m
           whole == Part(rows, n, j)
           r == j * s + t
           x == t * m
           y == j * n
<1>1. n \in Nat /\ t \in Nat /\ r \in Nat /\ x \in Nat /\ y \in Nat
  OBVIOUS
<1>2. IsSeq(whole) /\ Len(whole) = n /\ \A i \in 1 .. n : whole[i] = rows[y + i]
  <2>1. (j + 1) * n <= Len(rows)
    OBVIOUS
  <2> HIDE DEF n
  <2> QED
    BY <1>1, <2>1, PartFacts
<1>3. (t + 1) * m <= n
  <2>1. n = (t + 1) * m + (s - (t + 1)) * m /\ (s - (t + 1)) * m \in Nat /\ (t + 1) * m \in Nat
    OBVIOUS
  <2> HIDE DEF n
  <2> QED
    BY <2>1
<1>4. (r + 1) * m <= Len(rows)
  <2>1. (r + 1) * m = y + (t + 1) * m /\ (j + 1) * n = y + n /\ (t + 1) * m \in Nat
    OBVIOUS
  <2>2. (j + 1) * n <= Len(rows)
    OBVIOUS
  <2> HIDE DEF n, y, r
  <2> QED
    BY <1>1, <1>3, <2>1, <2>2, SeqFacts
<1>5. r * m = y + x
  OBVIOUS
<1>6. /\ IsSeq(Part(whole, m, t)) /\ Len(Part(whole, m, t)) = m
      /\ \A i \in 1 .. m : Part(whole, m, t)[i] = whole[x + i]
  <2> HIDE DEF whole, n
  <2> QED
    BY <1>1, <1>2, <1>3, PartFacts
<1>7. /\ IsSeq(Part(rows, m, r)) /\ Len(Part(rows, m, r)) = m
      /\ \A i \in 1 .. m : Part(rows, m, r)[i] = rows[r * m + i]
  <2> HIDE DEF r
  <2> QED
    BY <1>1, <1>4, PartFacts
<1>8. ASSUME NEW i \in 1 .. m PROVE Part(whole, m, t)[i] = Part(rows, m, r)[i]
  <2>1. x + i \in 1 .. n /\ y + (x + i) = (y + x) + i
    <3>1. (t + 1) * m = x + m
      OBVIOUS
    <3> HIDE DEF x, y, n
    <3> QED
      BY <1>1, <1>3, <3>1
  <2>2. Part(whole, m, t)[i] = rows[y + (x + i)]
    <3> HIDE DEF whole, x, y, n
    <3> QED
      BY <1>2, <1>6, <2>1
  <2>3. Part(rows, m, r)[i] = rows[(y + x) + i]
    <3> HIDE DEF r, x, y
    <3> QED
      BY <1>5, <1>7
  <2> HIDE DEF whole, r, x, y, n
  <2> QED
    BY <2>1, <2>2, <2>3
<1>9. Part(whole, m, t) = Part(rows, m, r)
  <2> HIDE DEF whole, r
  <2> QED
    BY <1>6, <1>7, <1>8, SameSeq
<1> QED
  BY <1>9

--------------------------------------------------------------------------------
(* The invariant *)

Stages == {"validate", "generate", "old_log_prob", "ref_log_prob", "adv", "update_actor", "done", "raised"}
Places == {"idle", "called", "gathered", "running", "finished"}
Logging == stage \in {"old_log_prob", "ref_log_prob"}

Typed ==
    /\ conf \in Configs /\ stage \in Stages /\ ready \in BOOLEAN
    /\ at \in [Ranks -> Places]
    /\ DOMAIN data = Ranks /\ DOMAIN minis = Ranks /\ DOMAIN todo = Ranks /\ DOMAIN ran = Ranks

\* Where no method is called, all ranks are idle.
Uncalled == (~Remote /\ stage # "raised") \/ (stage = "generate" /\ conf.offline) =>
                \A r \in Ranks : at[r] = "idle"

Columns == {"prompt", "response", "old", "ref", "score"}

Aligned(row) ==
    /\ DOMAIN row = Columns
    /\ row.response # None => row.response[1] = row.prompt
    /\ row.old \in {None, row.response}
    /\ row.ref \in {None, row.response}
    /\ row.score \in {None, <<row.prompt, row.response>>}

\* The batch has its prompts, then its responses; the reward is that of its rows.
BatchInv ==
    /\ IsSeq(batch) /\ \A i \in 1 .. Len(batch) : Aligned(batch[i])
    /\ Generating => batch = [p \in 1 .. conf.batch |-> NewRow(p)]
    /\ ~Generating /\ stage # "raised" =>
          /\ Len(batch) = conf.batch * conf.n
          /\ \A i \in 1 .. Len(batch) : reward[i] = <<batch[i].prompt, batch[i].response>>

\* What validation has scored.
ScoredInv ==
    scored # None =>
        /\ IsSeq(scored) /\ Len(scored) = conf.val * conf.valN
        /\ \A i \in 1 .. Len(scored) : scored[i].response[1] = scored[i].prompt

\* The log probabilities of rows.
Logs(rows) == [i \in 1 .. Len(rows) |-> LogProb(rows[i].response)]

\* What a rank is sent, what its group has of that, and what all of them return.
Each     == Len(Sent) \div conf.world
Mine(r)  == Part(Sent, Each, r)
Ours(r)  == Part(Sent, GroupSize * Each, r \div GroupSize)
Result   == IF Generating THEN Responses(Sent) ELSE Logs(Sent)
Times    == IF Generating THEN ResponsesToPrompt ELSE 1
Final(r) == Part(Result, Each * Times, r)

DataAt(r) ==
    /\ at[r] # "idle" => CanChunk(Sent, conf.world)
    /\ at[r] = "called" => data[r] = Mine(r)
    /\ at[r] \in {"gathered", "running"} => data[r] = Ours(r)
    /\ at[r] = "running" => Computing
    /\ at[r] = "finished" /\ stage # "update_actor" => data[r] = Final(r)
    /\ at[r] = "finished" /\ Generating => PromptCopies = ResponsesToPrompt

DataInv == Remote => \A r \in Ranks : DataAt(r)

Identity(len) == [i \in 1 .. len |-> i]
Smaller(a, b) == IF a <= b THEN a ELSE b
PieceCount(len, m) == (len + m - 1) \div m

\* What is left of a sequence after its first i entries.
Left(s, i) == [h \in 1 .. Len(s) - i |-> s[i + h]]

\* Of len rows in pieces of k, the first pieces are done, in order, and the others are left.
Taken(len, k, done, left) ==
    \E c \in 0 .. PieceCount(len, k) :
        /\ left = Left(Pieces(len, k), c)
        /\ done = Identity(Smaller(c * k, len))

\* Every row is in what a rank has run or in what it has to do, once.
Permuted(len, done, left) ==
    /\ IsSeq(done) /\ IsSeq(left) /\ \A g \in 1 .. Len(left) : IsSeq(left[g])
    /\ \A i \in 1 .. Len(done) : done[i] \in 1 .. len
    /\ \A g \in 1 .. Len(left) : \A i \in 1 .. Len(left[g]) : left[g][i] \in 1 .. len
    /\ \A p \in 1 .. len :
          \/ \E i \in 1 .. Len(done) : done[i] = p
          \/ \E g \in 1 .. Len(left) : \E i \in 1 .. Len(left[g]) : left[g][i] = p
    /\ \A i, j \in 1 .. Len(done) : done[i] = done[j] => i = j
    /\ \A g, h \in 1 .. Len(left) : \A i \in 1 .. Len(left[g]), j \in 1 .. Len(left[h]) :
          left[g][i] = left[h][j] => g = h /\ i = j
    /\ \A i \in 1 .. Len(done) : \A g \in 1 .. Len(left) : \A j \in 1 .. Len(left[g]) :
          done[i] # left[g][j]

LogAt(r) ==
    /\ at[r] \in {"gathered", "running"} => minis[r] = <<Identity(Len(data[r]))>>
    /\ at[r] = "running" /\ ~Dynamic => Taken(Len(data[r]), conf.micro, ran[r], todo[r])
    /\ at[r] = "running" /\ Dynamic => Permuted(Len(data[r]), ran[r], todo[r])

LogInv == Logging => \A r \in Ranks : LogAt(r)

IInv == Typed /\ Uncalled /\ BatchInv /\ ScoredInv /\ DataInv /\ LogInv

\* The ranks of a group have the same mini-batches and micro-batches; and with micro-batches
\* of fixed size, nothing of a mini-batch is run before all ranks are at it.
GroupInv ==
    Computing => \A r \in Ranks :
        /\ \A q \in Group(r) :
              /\ at[r] \in {"gathered", "running"} /\ at[q] \in {"gathered", "running"} =>
                    minis[q] = minis[r]
              /\ at[r] = "running" /\ at[q] = "running" => todo[q] = todo[r]
        /\ ~Dynamic /\ at[r] = "running" /\ (\E x \in Ranks : at[x] \in {"called", "gathered"}) =>
              todo[r] = Micros(r, Pieces(Len(Batch(r)), conf.micro))

--------------------------------------------------------------------------------
(* Division *)

LEMMA Division ==
    ASSUME NEW a \in Nat, NEW b \in Nat \ {0}
    PROVE  \E q \in Nat : \E t \in 0 .. b - 1 : q = a \div b /\ t = a % b /\ a = q * b + t
<1>1. a % b = a - b * (a \div b)
  OBVIOUS
<1>2. PICK q \in Nat, t \in 0 .. b - 1 : q = a \div b /\ t = a % b
  OBVIOUS
<1>3. t = a - b * q
  BY <1>1, <1>2
<1>4. PICK c \in Int : c = b * q /\ c = q * b
  <2>1. b * q = q * b /\ b * q \in Int
    OBVIOUS
  <2> QED
    BY <2>1
<1>5. t = a - c
  BY <1>3, <1>4
<1>6. a = q * b + t
  BY <1>4, <1>5
<1> QED
  BY <1>2, <1>6, Zenon

LEMMA Quotient ==
    ASSUME NEW q \in Int, NEW b \in Nat \ {0}, NEW t \in 0 .. b - 1
    PROVE  (q * b + t) \div b = q /\ (q * b + t) % b = t
OBVIOUS

LEMMA Exact ==
    ASSUME NEW a \in Nat, NEW b \in Nat \ {0}, a % b = 0
    PROVE  a = b * (a \div b) /\ a \div b \in Nat
OBVIOUS

LEMMA Multiple ==
    ASSUME NEW b \in Nat \ {0}, NEW m \in Nat
    PROVE  (b * m) \div b = m /\ (b * m) % b = 0
OBVIOUS

LEMMA Shifted ==
    ASSUME NEW a \in Nat, NEW k \in Nat \ {0}, NEW b \in Nat
    PROVE  (a * k + b) \div k = a + b \div k /\ (a * k + b) % k = b % k
<1>1. PICK q \in Nat, t \in 0 .. k - 1 : q = b \div k /\ t = b % k /\ b = q * k + t
  BY Division
<1>3. a * k + b = (a + q) * k + t
  BY <1>1
<1>4. ((a + q) * k + t) \div k = a + q /\ ((a + q) * k + t) % k = t
  BY Quotient
<1> QED
  BY <1>1, <1>3, <1>4

\* The group of a number below a multiple of the groups' size is one of them.
LEMMA GroupFits ==
    ASSUME NEW w \in Nat \ {0}, NEW s \in Nat \ {0}, NEW r \in 0 .. w - 1, w % s = 0
    PROVE  (r \div s + 1) * s <= w
<1>1. PICK g \in Nat : w = s * g
  BY Exact
<1>2. PICK q \in Nat, t \in 0 .. s - 1 : r = q * s + t /\ q = r \div s
  BY Division
<1>3. q < g
  <2> SUFFICES ASSUME q >= g PROVE FALSE
    OBVIOUS
  <2>1. q = g + (q - g) /\ q - g \in Nat
    BY <1>1
  <2>2. q * s = g * s + (q - g) * s /\ (q - g) * s \in Nat
    BY <2>1
  <2> QED
    BY <1>1, <1>2, <2>2
<1>4. (q + 1) * s + ((g - q) - 1) * s = w /\ ((g - q) - 1) * s \in Nat /\ (q + 1) * s \in Nat
  BY <1>1, <1>3
<1> QED
  BY <1>2, <1>4

--------------------------------------------------------------------------------
(* Configurations and groups *)

LEMMA ConfFacts ==
    ASSUME conf \in Configs
    PROVE  /\ conf.world \in Nat \ {0} /\ conf.tp \in Nat \ {0} /\ conf.sp \in Nat \ {0}
           /\ conf.n \in Nat \ {0} /\ conf.batch \in Nat \ {0} /\ conf.mini \in Nat
           /\ conf.micro \in Nat /\ conf.epochs \in Nat
           /\ conf.val \in Nat \ {0} /\ conf.valN \in Nat \ {0}
           /\ conf.balance \in BOOLEAN /\ conf.async \in BOOLEAN
           /\ conf.offline \in BOOLEAN /\ conf.sampled \in BOOLEAN
           /\ conf.world % conf.tp = 0 /\ conf.world % conf.sp = 0
           /\ (conf.batch * conf.n) % conf.world = 0
BY ConfigsAssumption DEF ConfigsAssumption, ConfigAssumption, Settings

\* Ranks lie in groups of GroupSize, one after the other.
LEMMA GroupFacts ==
    ASSUME conf \in Configs
    PROVE  /\ GroupSize \in Nat \ {0} /\ conf.world % GroupSize = 0
           /\ \A r \in Ranks :
                 /\ r \in Nat /\ r \div GroupSize \in Nat /\ r % GroupSize \in 0 .. GroupSize - 1
                 /\ r = (r \div GroupSize) * GroupSize + (r % GroupSize)
                 /\ First(r) = (r \div GroupSize) * GroupSize /\ First(r) \in Nat
                 /\ (r \div GroupSize + 1) * GroupSize <= conf.world
                 /\ r \in Group(r)
                 /\ \A q \in Group(r) : q \in Ranks /\ q \div GroupSize = r \div GroupSize /\ Group(q) = Group(r)
                 /\ \A i \in 1 .. GroupSize :
                       (First(r) + i) - 1 \in Group(r)
<1>1. GroupSize \in Nat \ {0} /\ conf.world % GroupSize = 0 /\ conf.world \in Nat \ {0}
  BY ConfFacts DEF GroupSize
<1>2. PICK s \in Nat \ {0} : s = GroupSize /\ conf.world % s = 0
  BY <1>1
<1>3. ASSUME NEW r \in Ranks
      PROVE  /\ r \in Nat /\ r \div s \in Nat /\ r % s \in 0 .. s - 1
             /\ r = (r \div s) * s + (r % s)
             /\ (r \div s + 1) * s <= conf.world
             /\ (r \div s) * s \in Nat
  <2>1. r \in 0 .. conf.world - 1 /\ r \in Nat
    BY <1>1, <1>3 DEF Ranks
  <2>2. r \div s \in Nat /\ r % s \in 0 .. s - 1 /\ r = (r \div s) * s + (r % s)
    <3>1. PICK q \in Nat, t \in 0 .. s - 1 : q = r \div s /\ t = r % s /\ r = q * s + t
      BY <2>1, Division
    <3> QED
      BY <3>1, Zenon
  <2>4. (r \div s) * s \in Nat
    <3>1. PICK q \in Nat : q = r \div s
      BY <2>2
    <3>2. q * s \in Nat
      OBVIOUS
    <3> QED
      BY <3>1, <3>2
  <2>3. (r \div s + 1) * s <= conf.world
    BY <1>1, <1>2, <2>1, GroupFits
  <2> QED
    BY <2>1, <2>2, <2>3, <2>4, Zenon
<1>4. ASSUME NEW r \in Ranks, NEW i \in 1 .. s
      PROVE  ((r \div s) * s + i) - 1 \in Group(r)
  <2>0. PICK j \in Nat : j = r \div s
    BY <1>3, Zenon
  <2>1. PICK a \in Nat : j = r \div s /\ a = j * s
    <3>1. j * s \in Nat
      OBVIOUS
    <3> QED
      BY <2>0, <3>1
  <2>2. (j + 1) * s = a + s /\ a + s <= conf.world
    <3>1. (r \div s + 1) * s <= conf.world
      BY <1>3, Zenon
    <3>2. (j + 1) * s <= conf.world
      BY <2>1, <3>1, Zenon
    <3>3. (j + 1) * s = j * s + s
      OBVIOUS
    <3> QED
      BY <2>1, <3>2, <3>3
  <2>3. (a + i) - 1 \in Ranks
    BY <1>1, <2>2 DEF Ranks
  <2>4. (j * s + (i - 1)) \div s = j
    BY Quotient
  <2>5. ((a + i) - 1) \div s = j
    <3>1. (a + i) - 1 = j * s + (i - 1)
      BY <2>1
    <3> QED
      BY <2>4, <3>1
  <2> QED
    BY <1>2, <2>1, <2>3, <2>5 DEF Group
<1>5. ASSUME NEW r \in Ranks
      PROVE  /\ r \in Group(r)
             /\ \A q \in Group(r) : q \in Ranks /\ q \div s = r \div s /\ Group(q) = Group(r)
  BY <1>2 DEF Group
<1> QED
  BY <1>1, <1>2, <1>3, <1>4, <1>5 DEF First

--------------------------------------------------------------------------------
(* The operations on a batch *)

LEMMA Below ==
    ASSUME NEW a \in Nat, NEW k \in Nat \ {0}, NEW l \in Nat, a < l * k
    PROVE  a \div k \in Nat /\ a \div k < l
<1>1. PICK q \in Nat, t \in 0 .. k - 1 : q = a \div k /\ t = a % k /\ a = q * k + t
  BY Division
<1>2. q < l
  <2> SUFFICES ASSUME ~(q < l) PROVE FALSE
    OBVIOUS
  <2>1. q - l \in Nat
    OBVIOUS
  <2>2. q * k = l * k + (q - l) * k /\ (q - l) * k \in Nat
    BY <2>1
  <2> QED
    BY <1>1, <2>2
<1> QED
  BY <1>1, <1>2, Zenon

\* Row i of what is repeated is the row that its k copies come from.
Repeats(rows, k, l) ==
    /\ IsSeq(Repeat(rows, k)) /\ Len(Repeat(rows, k)) = l * k /\ l * k \in Nat
    /\ \A i \in 1 .. l * k : \E j \in 1 .. l :
          j = ((i - 1) \div k) + 1 /\ Repeat(rows, k)[i] = rows[j]

LEMMA RepeatFacts ==
    ASSUME NEW rows, IsSeq(rows), NEW k \in Nat \ {0}
    PROVE  Repeats(rows, k, Len(rows))
<1>1. PICK l \in Nat, n \in Nat : l = Len(rows) /\ n = l * k
  <2>1. Len(rows) \in Nat
    BY SeqFacts
  <2>2. Len(rows) * k \in Nat
    BY <2>1
  <2> QED
    BY <2>1, <2>2
<1>2. Repeat(rows, k) = [i \in 1 .. n |-> rows[((i - 1) \div k) + 1]]
  BY <1>1 DEF Repeat
<1>3. IsSeq(Repeat(rows, k)) /\ Len(Repeat(rows, k)) = n
  <2>1. Repeat(rows, k) = [i \in 1 .. n |-> Repeat(rows, k)[i]]
    BY <1>2
  <2> QED
    BY <2>1, FunctionIsSeq
<1>4. ASSUME NEW i \in 1 .. n
      PROVE  \E j \in 1 .. l : j = ((i - 1) \div k) + 1 /\ Repeat(rows, k)[i] = rows[j]
  <2>1. PICK a \in Nat : a = i - 1 /\ a < l * k
    BY <1>1
  <2>2. a \div k \in Nat /\ a \div k < l
    BY <2>1, Below
  <2>3. PICK j \in 1 .. l : j = (a \div k) + 1
    BY <2>2
  <2> QED
    BY <1>2, <2>1, <2>3
<1>5. Repeats(rows, k, l)
  BY <1>1, <1>3, <1>4 DEF Repeats
<1> QED
  BY <1>1, <1>5

LEMMA PaddedFacts ==
    ASSUME NEW rows, IsSeq(rows), Len(rows) # 0, NEW k \in Nat \ {0}
    PROVE  /\ PadSize(rows, k) \in Nat
           /\ IsSeq(Padded(rows, k)) /\ Len(Padded(rows, k)) = Len(rows) + PadSize(rows, k)
           /\ CanChunk(Padded(rows, k), k)
           /\ \A i \in 1 .. Len(rows) : Padded(rows, k)[i] = rows[i]
<1>1. PICK l \in Nat \ {0}, p \in Nat : l = Len(rows) /\ p = PadSize(rows, k) /\ (l + p) % k = 0
  <2>1. Len(rows) \in Nat
    BY SeqFacts
  <2>2. PICK l \in Nat \ {0} : l = Len(rows)
    BY <2>1
  <2>3. (l + ((-l) % k)) % k = 0 /\ (-l) % k \in Nat
    <3>1. PICK x \in Int : x = -l
      OBVIOUS
    <3>2. PICK q \in Int, t \in Nat : q = x \div k /\ t = x % k
      OBVIOUS
    <3>3. t = x - k * q
      BY <3>2
    <3>4. l + t = k * (-q)
      <4>1. PICK c \in Int : c = k * q /\ k * (-q) = -c
        OBVIOUS
      <4> QED
        BY <3>1, <3>3, <4>1
    <3>5. (k * (-q)) % k = 0
      OBVIOUS
    <3> QED
      BY <3>1, <3>2, <3>4, <3>5, Zenon
  <2> QED
    BY <2>2, <2>3, Zenon DEF PadSize
<1>2. Padded(rows, k) = [i \in 1 .. l + p |-> rows[((i - 1) % l) + 1]]
  BY <1>1, Zenon DEF Padded
<1>3. IsSeq(Padded(rows, k)) /\ Len(Padded(rows, k)) = l + p
  <2>1. Padded(rows, k) = [i \in 1 .. l + p |-> Padded(rows, k)[i]]
    BY <1>2
  <2>2. PICK n \in Nat : n = l + p
    OBVIOUS
  <2> QED
    BY <2>1, <2>2, FunctionIsSeq
<1>4. ASSUME NEW i \in 1 .. l PROVE Padded(rows, k)[i] = rows[i]
  <2>1. (i - 1) % l = i - 1 /\ i \in 1 .. l + p
    OBVIOUS
  <2>2. ((i - 1) % l) + 1 = i
    BY <2>1
  <2> QED
    BY <1>2, <2>1, <2>2
<1> QED
  BY <1>1, <1>3, <1>4, Zenon DEF CanChunk

LEMMA JoinedFacts ==
    ASSUME NEW row, NEW y, DOMAIN row = Columns
    PROVE  /\ Joined(row, [response |-> y]) = [row EXCEPT !.response = y]
           /\ Joined(row, [old |-> y]) = [row EXCEPT !.old = y]
           /\ Joined(row, [ref |-> y]) = [row EXCEPT !.ref = y]
BY DEF Joined, Columns

LEMMA UnionFacts ==
    ASSUME NEW rows, IsSeq(rows), NEW others
    PROVE  /\ IsSeq(Union(rows, others)) /\ Len(Union(rows, others)) = Len(rows)
           /\ \A i \in 1 .. Len(rows) : Union(rows, others)[i] = Joined(rows[i], others[i])
<1>1. PICK n \in Nat : n = Len(rows) /\ DOMAIN rows = 1 .. n
  BY SeqFacts
<1>2. Union(rows, others) = [i \in 1 .. n |-> Joined(rows[i], others[i])]
  BY <1>1 DEF Union
<1>3. Union(rows, others) = [i \in 1 .. n |-> Union(rows, others)[i]]
  BY <1>2
<1> QED
  BY <1>1, <1>2, <1>3, FunctionIsSeq

LEMMA ReorderFacts ==
    ASSUME NEW rows, NEW indices, IsSeq(indices)
    PROVE  /\ IsSeq(Reorder(rows, indices)) /\ Len(Reorder(rows, indices)) = Len(indices)
           /\ \A i \in 1 .. Len(indices) : Reorder(rows, indices)[i] = rows[indices[i]]
<1>1. PICK n \in Nat : n = Len(indices) /\ DOMAIN indices = 1 .. n
  BY SeqFacts
<1>2. Reorder(rows, indices) = [i \in 1 .. n |-> rows[indices[i]]]
  BY <1>1 DEF Reorder
<1>3. Reorder(rows, indices) = [i \in 1 .. n |-> Reorder(rows, indices)[i]]
  BY <1>2
<1> QED
  BY <1>1, <1>2, <1>3, FunctionIsSeq

--------------------------------------------------------------------------------
(* What the ranks are sent, and what they make of it *)

LEMMA ValRowsFacts ==
    ASSUME conf \in Configs
    PROVE  /\ IsSeq(ValRows) /\ Len(ValRows) = conf.val * conf.valN /\ Len(ValRows) # 0
           /\ \A i \in 1 .. Len(ValRows) : \E p : ValRows[i] = NewRow(p)
<1>1. PICK v \in Nat \ {0}, k \in Nat \ {0} : v = conf.val /\ k = conf.valN
  BY ConfFacts
<1>2. PICK rows : rows = [p \in 1 .. v |-> NewRow(p)]
  OBVIOUS
<1>3. IsSeq(rows) /\ Len(rows) = v
  <2>1. rows = [p \in 1 .. v |-> rows[p]]
    BY <1>2
  <2> QED
    BY <2>1, FunctionIsSeq
<1>4. ValRows = Repeat(rows, k)
  BY <1>1, <1>2 DEF ValRows
<1>5. v * k # 0
  OBVIOUS
<1>6. Repeats(rows, k, v)
  BY <1>3, RepeatFacts
<1>7. \A i \in 1 .. v * k : \E p : Repeat(rows, k)[i] = NewRow(p)
  <2> SUFFICES ASSUME NEW i \in 1 .. v * k PROVE \E p : Repeat(rows, k)[i] = NewRow(p)
    OBVIOUS
  <2>1. PICK j \in 1 .. v : Repeat(rows, k)[i] = rows[j]
    BY <1>6, Zenon DEF Repeats
  <2> QED
    BY <1>2, <2>1
<1>8. IsSeq(Repeat(rows, k)) /\ Len(Repeat(rows, k)) = v * k
  BY <1>6 DEF Repeats
<1> QED
  BY <1>1, <1>4, <1>5, <1>7, <1>8, Zenon

LEMMA SentFacts ==
    ASSUME conf \in Configs, IsSeq(batch)
    PROVE  /\ IsSeq(Sent)
           /\ stage = "validate" =>
                 /\ Len(Sent) = Len(ValRows) + PadSize(ValRows, conf.world)
                 /\ PadSize(ValRows, conf.world) \in Nat
                 /\ CanChunk(Sent, conf.world)
                 /\ \A i \in 1 .. Len(ValRows) : Sent[i] = ValRows[i]
           /\ stage # "validate" => Sent = batch
<1>1. PICK k \in Nat \ {0} : k = conf.world
  BY ConfFacts
<1>2. IsSeq(ValRows) /\ Len(ValRows) # 0
  BY ValRowsFacts
<1>3. /\ PadSize(ValRows, k) \in Nat
      /\ IsSeq(Padded(ValRows, k)) /\ Len(Padded(ValRows, k)) = Len(ValRows) + PadSize(ValRows, k)
      /\ CanChunk(Padded(ValRows, k), k)
      /\ \A i \in 1 .. Len(ValRows) : Padded(ValRows, k)[i] = ValRows[i]
  BY <1>2, PaddedFacts
<1>4. CASE stage = "validate"
  <2>1. Sent = Padded(ValRows, k)
    BY <1>1, <1>4 DEF Sent
  <2> QED
    BY <1>1, <1>3, <1>4, <2>1
<1>5. CASE stage # "validate"
  BY <1>5 DEF Sent
<1> QED
  BY <1>4, <1>5

\* Every rank is sent as many rows.
LEMMA EachFacts ==
    ASSUME conf \in Configs, IsSeq(Sent), CanChunk(Sent, conf.world)
    PROVE  Each \in Nat /\ Len(Sent) = conf.world * Each
<1>1. PICK k \in Nat \ {0} : k = conf.world
  BY ConfFacts
<1>2. PICK n \in Nat : n = Len(Sent)
  BY SeqFacts
<1>3. n % k = 0
  BY <1>1, <1>2 DEF CanChunk
<1>4. n = k * (n \div k) /\ n \div k \in Nat
  BY <1>3, Exact
<1> QED
  BY <1>1, <1>2, <1>4, Zenon DEF Each

LEMMA ResponsesFacts ==
    ASSUME conf \in Configs, NEW rows, IsSeq(rows)
    PROVE  LET k == ResponsesToPrompt
           IN  /\ k \in Nat \ {0}
               /\ IsSeq(Responses(rows)) /\ Len(Responses(rows)) = Len(rows) * k
               /\ \A i \in 1 .. Len(rows) * k :
                     Responses(rows)[i] = [response |-> <<Repeat(rows, k)[i].prompt, ((i - 1) % k) + 1>>]
<1>1. PICK k \in Nat \ {0} : k = ResponsesToPrompt
  BY ConfFacts DEF ResponsesToPrompt
<1>2. PICK n \in Nat : n = Len(rows) * k
  <2>1. PICK l \in Nat : l = Len(rows)
    BY SeqFacts
  <2>2. l * k \in Nat
    OBVIOUS
  <2> QED
    BY <2>1, <2>2
<1>3. Responses(rows) = [i \in 1 .. n |-> [response |-> <<Repeat(rows, k)[i].prompt, ((i - 1) % k) + 1>>]]
  BY <1>1, <1>2 DEF Responses
<1>4. Responses(rows) = [i \in 1 .. n |-> Responses(rows)[i]]
  BY <1>3
<1>5. IsSeq(Responses(rows)) /\ Len(Responses(rows)) = n
  BY <1>4, FunctionIsSeq
<1> QED
  BY <1>1, <1>2, <1>3, <1>5

\* The responses to a part are a part of the responses.
LEMMA ResponsesOfPart ==
    ASSUME conf \in Configs, NEW rows, IsSeq(rows), NEW m \in Nat, NEW j \in Nat,
           (j + 1) * m <= Len(rows)
    PROVE  Responses(Part(rows, m, j)) = Part(Responses(rows), m * ResponsesToPrompt, j)
<1>1. PICK k \in Nat \ {0} : k = ResponsesToPrompt
  BY ResponsesFacts
<1>2. PICK part : part = Part(rows, m, j)
  OBVIOUS
<1>3. IsSeq(part) /\ Len(part) = m /\ \A i \in 1 .. m : part[i] = rows[j * m + i]
  BY <1>2, PartFacts
<1>4. PICK n \in Nat, l \in Nat, a \in Nat : n = m * k /\ l = Len(rows) /\ a = j * m
  <2>1. m * k \in Nat /\ j * m \in Nat
    OBVIOUS
  <2> QED
    BY <2>1, SeqFacts
<1>5. (j + 1) * n <= l * k /\ (j + 1) * n \in Nat /\ j * n = a * k /\ l * k \in Nat
  <2>1. PICK d \in Nat : l = (j + 1) * m + d
    <3>1. (j + 1) * m \in Nat /\ (j + 1) * m <= l
      BY <1>4
    <3>2. PICK b \in Nat : b = (j + 1) * m
      BY <3>1
    <3>3. l - b \in Nat /\ l = b + (l - b)
      BY <3>1, <3>2
    <3> QED
      BY <3>2, <3>3
  <2>2. l * k = (j + 1) * (m * k) + d * k /\ d * k \in Nat
    BY <2>1
  <2>3. (j + 1) * n \in Nat /\ l * k \in Nat
    OBVIOUS
  <2>4. j * (m * k) = (j * m) * k
    OBVIOUS
  <2> QED
    BY <1>4, <2>2, <2>3, <2>4
<1>6. /\ IsSeq(Responses(part)) /\ Len(Responses(part)) = n
      /\ \A i \in 1 .. n :
            Responses(part)[i] = [response |-> <<Repeat(part, k)[i].prompt, ((i - 1) % k) + 1>>]
  BY <1>1, <1>3, <1>4, ResponsesFacts
<1>7. PICK all : all = Responses(rows)
  OBVIOUS
<1>8. /\ IsSeq(all) /\ Len(all) = l * k
      /\ \A i \in 1 .. l * k :
            all[i] = [response |-> <<Repeat(rows, k)[i].prompt, ((i - 1) % k) + 1>>]
  BY <1>1, <1>4, <1>7, ResponsesFacts
<1>9. /\ IsSeq(Part(all, n, j)) /\ Len(Part(all, n, j)) = n
      /\ \A i \in 1 .. n : Part(all, n, j)[i] = all[j * n + i]
  <2>1. IsSeq(all) /\ (j + 1) * n <= Len(all)
    BY <1>5, <1>8, Zenon
  <2> QED
    BY <2>1, PartFacts
<1>10. ASSUME NEW i \in 1 .. n PROVE Responses(part)[i] = Part(all, n, j)[i]
  <2>1. PICK b \in Nat : b = i - 1
    OBVIOUS
  <2>2. PICK q : q = b \div k /\ q + 1 \in 1 .. m /\ q \in Nat
    <3>1. b < m * k
      BY <1>4, <2>1
    <3>2. b \div k \in Nat /\ b \div k < m
      BY <3>1, Below
    <3> QED
      BY <3>2
  <2>3. (a * k + b) \div k = a + q /\ (a * k + b) % k = b % k
    BY <2>2, Shifted
  <2>4. PICK x : x = a * k + i /\ x \in 1 .. l * k /\ x - 1 = a * k + b
    <3>1. PICK c \in Nat : c = a * k /\ c + n = (j + 1) * n
      <4>1. (j + 1) * n = j * n + n /\ j * n \in Nat
        OBVIOUS
      <4> QED
        BY <1>5, <4>1
    <3>2. c + n <= l * k
      BY <1>5, <3>1
    <3>3. c + i \in 1 .. l * k /\ (c + i) - 1 = c + b
      BY <1>5, <2>1, <3>2
    <3> QED
      BY <3>1, <3>3
  <2>5. Repeat(part, k)[i] = part[q + 1]
    <3>1. Repeats(part, k, m)
      BY <1>3, RepeatFacts
    <3>2. i \in 1 .. m * k
      BY <1>4
    <3>3. PICK g : g = ((i - 1) \div k) + 1 /\ Repeat(part, k)[i] = part[g]
      BY <3>1, <3>2, Zenon DEF Repeats
    <3> QED
      BY <2>1, <2>2, <3>3, Zenon
  <2>6. Repeat(rows, k)[x] = rows[(a + q) + 1]
    <3>1. Repeats(rows, k, l)
      BY <1>4, RepeatFacts
    <3>2. PICK g : g = ((x - 1) \div k) + 1 /\ Repeat(rows, k)[x] = rows[g]
      BY <2>4, <3>1, Zenon DEF Repeats
    <3> QED
      BY <2>3, <2>4, <3>2, Zenon
  <2>7. part[q + 1] = rows[(a + q) + 1]
    <3>1. part[q + 1] = rows[a + (q + 1)]
      BY <1>3, <1>4, <2>2
    <3>2. a + (q + 1) = (a + q) + 1
      BY <2>2
    <3> QED
      BY <3>1, <3>2
  <2>8. Responses(part)[i] = [response |-> <<Repeat(part, k)[i].prompt, (b % k) + 1>>]
    BY <1>6, <2>1, Zenon
  <2>9. all[x] = [response |-> <<Repeat(rows, k)[x].prompt, (b % k) + 1>>]
    BY <1>8, <2>3, <2>4, Zenon
  <2>10. Part(all, n, j)[i] = all[x]
    BY <1>5, <1>9, <2>4, Zenon
  <2> QED
    BY <2>5, <2>6, <2>7, <2>8, <2>9, <2>10, Zenon
<1>11. Responses(part) = Part(all, n, j)
  BY <1>6, <1>9, <1>10, SameSeq
<1> QED
  BY <1>1, <1>2, <1>4, <1>7, <1>11, Zenon

LEMMA LogsFacts ==
    ASSUME NEW rows, IsSeq(rows)
    PROVE  /\ IsSeq(Logs(rows)) /\ Len(Logs(rows)) = Len(rows)
           /\ \A i \in 1 .. Len(rows) : Logs(rows)[i] = LogProb(rows[i].response)
<1>1. PICK n \in Nat : n = Len(rows)
  BY SeqFacts
<1>2. Logs(rows) = [i \in 1 .. n |-> LogProb(rows[i].response)]
  BY <1>1 DEF Logs
<1>3. Logs(rows) = [i \in 1 .. n |-> Logs(rows)[i]]
  BY <1>2
<1>4. IsSeq(Logs(rows)) /\ Len(Logs(rows)) = n
  BY <1>3, FunctionIsSeq
<1> QED
  BY <1>1, <1>2, <1>4

LEMMA LogsOfPart ==
    ASSUME NEW rows, IsSeq(rows), NEW m \in Nat, NEW j \in Nat, (j + 1) * m <= Len(rows)
    PROVE  Logs(Part(rows, m, j)) = Part(Logs(rows), m, j)
<1>1. PICK part, all : part = Part(rows, m, j) /\ all = Logs(rows)
  OBVIOUS
<1>2. IsSeq(part) /\ Len(part) = m /\ \A i \in 1 .. m : part[i] = rows[j * m + i]
  BY <1>1, PartFacts
<1>3. /\ IsSeq(Logs(part)) /\ Len(Logs(part)) = m
      /\ \A i \in 1 .. m : Logs(part)[i] = LogProb(part[i].response)
  BY <1>2, LogsFacts
<1>4. /\ IsSeq(all) /\ Len(all) = Len(rows)
      /\ \A i \in 1 .. Len(rows) : all[i] = LogProb(rows[i].response)
  BY <1>1, LogsFacts
<1>5. /\ IsSeq(Part(all, m, j)) /\ Len(Part(all, m, j)) = m
      /\ \A i \in 1 .. m : Part(all, m, j)[i] = all[j * m + i]
  BY <1>4, PartFacts
<1>6. ASSUME NEW i \in 1 .. m PROVE Logs(part)[i] = Part(all, m, j)[i]
  <2>1. PICK a \in Nat : a = j * m /\ (j + 1) * m = a + m
    <3>1. j * m \in Nat /\ (j + 1) * m = j * m + m
      OBVIOUS
    <3> QED
      BY <3>1
  <2>2. a + i \in 1 .. Len(rows)
    <3>1. PICK l \in Nat : l = Len(rows)
      BY SeqFacts
    <3> QED
      BY <2>1, <3>1
  <2> QED
    BY <1>2, <1>3, <1>4, <1>5, <2>1, <2>2
<1>7. Logs(part) = Part(all, m, j)
  BY <1>3, <1>5, <1>6, SameSeq
<1> QED
  BY <1>1, <1>7

LEMMA ResultFacts ==
    ASSUME conf \in Configs, IsSeq(Sent)
    PROVE  Times \in Nat \ {0} /\ IsSeq(Result) /\ Len(Result) = Len(Sent) * Times
<1>1. CASE Generating
  <2>1. /\ ResponsesToPrompt \in Nat \ {0}
        /\ IsSeq(Responses(Sent)) /\ Len(Responses(Sent)) = Len(Sent) * ResponsesToPrompt
    BY ResponsesFacts
  <2> QED
    BY <1>1, <2>1 DEF Times, Result
<1>2. CASE ~Generating
  <2>1. IsSeq(Logs(Sent)) /\ Len(Logs(Sent)) = Len(Sent) /\ Len(Sent) \in Nat
    BY LogsFacts, SeqFacts
  <2>2. Times = 1 /\ Result = Logs(Sent)
    BY <1>2 DEF Times, Result
  <2> QED
    BY <2>1, <2>2
<1> QED
  BY <1>1, <1>2

\* The results of the ranks, one after the other, are the result of all rows.
LEMMA CollectedResult ==
    ASSUME conf \in Configs, IsSeq(Sent), CanChunk(Sent, conf.world),
           \A r \in Ranks : data[r] = Final(r)
    PROVE  Collected = Result
<1>1. PICK w \in Nat \ {0} : w = conf.world
  BY ConfFacts
<1>2. PICK t \in Nat \ {0} : t = Times
  BY ResultFacts
<1>3. PICK e \in Nat : e = Each /\ Len(Sent) = w * e
  BY <1>1, EachFacts
<1>4. PICK m \in Nat : m = e * t /\ w * m = (w * e) * t
  <2>1. e * t \in Nat /\ w * (e * t) = (w * e) * t
    OBVIOUS
  <2> QED
    BY <2>1
<1>5. IsSeq(Result) /\ Len(Result) = w * m
  BY <1>2, <1>3, <1>4, ResultFacts
<1>6. PICK parts : parts = [i \in 1 .. w |-> data[i - 1]]
  OBVIOUS
<1>7. Len(parts) = w
  <2>1. parts = [i \in 1 .. w |-> parts[i]]
    BY <1>6
  <2> QED
    BY <2>1, FunctionIsSeq
<1>8. ASSUME NEW i \in 1 .. w PROVE parts[i] = Part(Result, m, i - 1)
  <2>1. i - 1 \in Ranks
    BY <1>1 DEF Ranks
  <2>2. data[i - 1] = Final(i - 1)
    BY <2>1
  <2>3. parts[i] = Part(Result, Each * Times, i - 1)
    BY <1>6, <2>2 DEF Final
  <2> QED
    BY <1>2, <1>3, <1>4, <2>3
<1>9. FlattenSeq(parts) = Result
  BY <1>5, <1>7, <1>8, AllPartsJoined
<1> QED
  BY <1>1, <1>6, <1>9 DEF Collected, Concat

\* A group has as many parts of the rows as ranks, all of them in the batch.
LEMMA GroupShare ==
    ASSUME conf \in Configs, IsSeq(Sent), CanChunk(Sent, conf.world), NEW r \in Ranks
    PROVE  \E s \in Nat \ {0}, e \in Nat, j \in Nat :
              /\ s = GroupSize /\ e = Each /\ j = r \div GroupSize
              /\ s * e \in Nat /\ (j + 1) * (s * e) <= Len(Sent)
              /\ Len(Sent) \in Nat
<1>1. PICK w \in Nat \ {0} : w = conf.world
  BY ConfFacts
<1>2. PICK e \in Nat : e = Each /\ Len(Sent) = w * e
  BY <1>1, EachFacts
<1>3. GroupSize \in Nat \ {0} /\ r \div GroupSize \in Nat /\ (r \div GroupSize + 1) * GroupSize <= conf.world
  BY GroupFacts, Zenon
<1>4. PICK s \in Nat \ {0}, j \in Nat : s = GroupSize /\ j = r \div GroupSize
  BY <1>3, Zenon
<1>5. (j + 1) * s <= w
  BY <1>1, <1>3, <1>4, Zenon
<1>6. PICK d \in Nat : w = (j + 1) * s + d
  <2>1. PICK a \in Nat : a = (j + 1) * s
    OBVIOUS
  <2>2. w - a \in Nat /\ w = a + (w - a)
    BY <1>5, <2>1
  <2> QED
    BY <2>1, <2>2
<1>7. w * e = (j + 1) * (s * e) + d * e /\ d * e \in Nat /\ s * e \in Nat
      /\ (j + 1) * (s * e) \in Nat
  BY <1>6
<1>8. Len(Sent) \in Nat
  BY SeqFacts
<1>9. (j + 1) * (s * e) <= Len(Sent)
  <2>1. PICK x \in Nat, y \in Nat : x = (j + 1) * (s * e) /\ y = d * e /\ w * e = x + y
    BY <1>7
  <2> QED
    BY <1>2, <2>1
<1> QED
  BY <1>2, <1>4, <1>7, <1>8, <1>9, Zenon

\* What a group gathers is its part of the rows.
LEMMA GatheredOurs ==
    ASSUME conf \in Configs, IsSeq(Sent), CanChunk(Sent, conf.world), NEW r \in Ranks,
           \A q \in Group(r) : data[q] = Mine(q)
    PROVE  Gathered(r) = Ours(r)
<1>1. PICK s \in Nat \ {0}, e \in Nat, j \in Nat :
              /\ s = GroupSize /\ e = Each /\ j = r \div GroupSize
              /\ s * e \in Nat /\ (j + 1) * (s * e) <= Len(Sent)
  BY GroupShare, Zenon
<1>2. PICK parts : parts = [i \in 1 .. s |-> data[First(r) + i - 1]]
  OBVIOUS
<1>3. Len(parts) = s
  <2>1. parts = [i \in 1 .. s |-> parts[i]]
    BY <1>2
  <2> QED
    BY <2>1, FunctionIsSeq
<1>4. ASSUME NEW i \in 1 .. s PROVE parts[i] = Part(Sent, e, (j * s + i) - 1)
  <2>1. First(r) = j * s
    BY <1>1, Zenon DEF First
  <2>2. (First(r) + i) - 1 \in Group(r)
    BY <1>1, GroupFacts, Zenon
  <2>3. data[(First(r) + i) - 1] = Part(Sent, Each, (First(r) + i) - 1)
    BY <2>2, Zenon DEF Mine
  <2>4. parts[i] = data[First(r) + i - 1]
    BY <1>2
  <2>5. e = Each
    BY <1>1
  <2> QED
    BY <2>1, <2>3, <2>4, <2>5
<1>5. FlattenSeq(parts) = Part(Sent, s * e, j)
  BY <1>1, <1>3, <1>4, GroupPartsJoined
<1>6. Gathered(r) = FlattenSeq(parts)
  BY <1>1, <1>2, Zenon DEF Gathered, AllGather, Concat
<1> QED
  BY <1>1, <1>5, <1>6, Zenon DEF Ours

\* What a rank keeps of the result of its group is its part of the result of all rows.
LEMMA ShareFinal ==
    ASSUME conf \in Configs, IsSeq(Sent), CanChunk(Sent, conf.world), NEW r \in Ranks,
           NEW rows, rows = Part(Result, (GroupSize * Each) * Times, r \div GroupSize)
    PROVE  Share(rows, r) = Final(r)
<1>1. PICK s \in Nat \ {0}, e \in Nat, j \in Nat :
              /\ s = GroupSize /\ e = Each /\ j = r \div GroupSize
              /\ s * e \in Nat /\ (j + 1) * (s * e) <= Len(Sent)
              /\ Len(Sent) \in Nat
  BY GroupShare, Zenon
<1>2. PICK t \in Nat \ {0} : t = Times /\ IsSeq(Result) /\ Len(Result) = Len(Sent) * t
  BY ResultFacts
<1>3. PICK m \in Nat : m = e * t /\ (s * e) * t = s * m /\ s * m \in Nat
  <2>1. e * t \in Nat /\ (s * e) * t = s * (e * t) /\ s * (e * t) \in Nat
    OBVIOUS
  <2> QED
    BY <2>1
<1>4. (j + 1) * (s * m) <= Len(Result)
  <2>1. PICK a \in Nat, d \in Nat : a = (j + 1) * (s * e) /\ Len(Sent) = a + d
    <3>1. PICK a \in Nat : a = (j + 1) * (s * e)
      OBVIOUS
    <3>2. a <= Len(Sent) /\ Len(Sent) \in Nat
      BY <1>1, <3>1, Zenon
    <3>3. Len(Sent) - a \in Nat /\ Len(Sent) = a + (Len(Sent) - a)
      BY <3>2
    <3> QED
      BY <3>1, <3>3
  <2>2. (a + d) * t = a * t + d * t /\ d * t \in Nat /\ a * t \in Nat
    OBVIOUS
  <2>3. a * t = (j + 1) * (s * m)
    <3>1. ((j + 1) * (s * e)) * t = (j + 1) * ((s * e) * t)
      OBVIOUS
    <3> QED
      BY <1>3, <2>1, <3>1, Zenon
  <2> QED
    <3>1. PICK x \in Nat, y \in Nat : x = a * t /\ y = d * t /\ (a + d) * t = x + y
      BY <2>2
    <3>2. x <= x + y
      OBVIOUS
    <3>3. Len(Result) = x + y
      BY <1>2, <2>1, <3>1
    <3> QED
      BY <2>3, <3>1, <3>2, <3>3
<1>5. PICK x : x \in 0 .. s - 1 /\ x = r % GroupSize /\ r = j * s + x
  BY <1>1, GroupFacts, Zenon
<1>6. Len(rows) = s * m
  <2>1. rows = Part(Result, s * m, j)
    BY <1>1, <1>2, <1>3, Zenon
  <2>2. Len(Part(Result, s * m, j)) = s * m
    <3>1. PICK y \in Nat : y = s * m
      BY <1>3
    <3>2. (j + 1) * y <= Len(Result)
      BY <1>4, <3>1, Zenon
    <3>3. Len(Part(Result, y, j)) = y
      BY <1>2, <3>2, PartFacts
    <3> QED
      BY <3>1, <3>3, Zenon
  <2> QED
    BY <2>1, <2>2, Zenon
<1>7. Len(rows) \div s = m
  BY <1>6, Multiple
<1>8. Share(rows, r) = Part(rows, m, x)
  <2>1. Chunk(rows, s, x) = Part(rows, m, x)
    BY <1>7, Zenon DEF Chunk, Part
  <2>2. Share(rows, r) = Chunk(rows, s, x)
    BY <1>1, <1>5, Zenon DEF Share
  <2> QED
    BY <2>1, <2>2
<1>9. Part(Part(Result, s * m, j), m, x) = Part(Result, m, j * s + x)
  <2>1. IsSeq(Result) /\ x \in 0 .. s - 1
    BY <1>2, <1>5, Zenon
  <2> QED
    BY <1>4, <2>1, PartOfPart
<1>10. rows = Part(Result, s * m, j)
  BY <1>1, <1>2, <1>3, Zenon
<1>11. Final(r) = Part(Result, m, r)
  BY <1>1, <1>2, <1>3, Zenon DEF Final
<1> QED
  BY <1>5, <1>8, <1>9, <1>10, <1>11, Zenon

--------------------------------------------------------------------------------
(* Splits of the positions of a batch *)

\* s has every member of set, once.
Lists(s, set) ==
    /\ IsSeq(s)
    /\ \A p \in 1 .. Len(s) : s[p] \in set
    /\ \A x \in set : \E p \in 1 .. Len(s) : s[p] = x
    /\ \A p, q \in 1 .. Len(s) : s[p] = s[q] => p = q

LEMMA InOrderFacts ==
    ASSUME NEW len \in Nat, NEW set \in SUBSET (1 .. len)
    PROVE  Lists(InOrder(set), set)
<1> DEFINE UpTo(x) == {j \in set : j <= x}
           rank == [x \in set |-> Cardinality(UpTo(x))]
           chosen(p) == CHOOSE x \in set : Cardinality(UpTo(x)) = p
<1>1. IsFiniteSet(set) /\ set \subseteq Nat
  <2>1. IsFiniteSet(1 .. len)
    BY FS_Interval
  <2>2. IsFiniteSet(set)
    BY <2>1, FS_Subset
  <2> QED
    BY <2>2
<1>2. PICK c \in Nat : c = Cardinality(set)
  BY <1>1, FS_CardinalityType
<1>3. ASSUME NEW x \in set
      PROVE  IsFiniteSet(UpTo(x)) /\ Cardinality(UpTo(x)) \in 1 .. c
  <2>1. UpTo(x) \in SUBSET set /\ UpTo(x) # {}
    <3>1. x <= x
      BY <1>1
    <3> QED
      BY <3>1
  <2> HIDE DEF UpTo
  <2>2. IsFiniteSet(UpTo(x)) /\ Cardinality(UpTo(x)) <= c
    BY <1>1, <1>2, <2>1, FS_Subset
  <2>3. Cardinality(UpTo(x)) \in Nat /\ Cardinality(UpTo(x)) # 0
    BY <2>1, <2>2, FS_CardinalityType, FS_EmptySet
  <2> QED
    BY <2>2, <2>3
<1>4. ASSUME NEW x \in set, NEW y \in set, x < y
      PROVE  Cardinality(UpTo(x)) # Cardinality(UpTo(y))
  <2>1. UpTo(x) \in SUBSET UpTo(y) /\ UpTo(x) # UpTo(y)
    <3>1. \A j \in set : j <= x => j <= y
      BY <1>1, <1>4
    <3>2. y \in UpTo(y) /\ y \notin UpTo(x)
      BY <1>1, <1>4
    <3> QED
      BY <3>1, <3>2
  <2> HIDE DEF UpTo
  <2> QED
    BY <1>3, <2>1, FS_Subset
<1> HIDE DEF UpTo
<1>5. rank \in [set -> 1 .. c]
  BY <1>3
<1>6. \A x, y \in set : rank[x] = rank[y] => x = y
  <2> SUFFICES ASSUME NEW x \in set, NEW y \in set, x # y PROVE rank[x] # rank[y]
    OBVIOUS
  <2>1. x < y \/ y < x
    BY <1>1
  <2>2. Cardinality(UpTo(x)) # Cardinality(UpTo(y))
    BY <1>4, <2>1
  <2> QED
    BY <2>2
<1>7. \A p \in 1 .. c : \E x \in set : rank[x] = p
  <2>1. rank \in Injection(set, 1 .. c)
    BY <1>5, <1>6, Fun_IsInj
  <2>2. IsFiniteSet(1 .. c) /\ Cardinality(1 .. c) = c
    BY FS_Interval
  <2>3. rank \in Surjection(set, 1 .. c)
    BY <1>2, <2>1, <2>2, FS_Injection
  <2> HIDE DEF rank
  <2> QED
    BY <2>3, Fun_SurjectionProperties
<1>8. InOrder(set) = [p \in 1 .. c |-> chosen(p)]
  BY <1>2 DEF InOrder, UpTo
<1>9. ASSUME NEW p \in 1 .. c PROVE chosen(p) \in set /\ rank[chosen(p)] = p
  <2>1. PICK x \in set : rank[x] = p
    BY <1>7
  <2>2. Cardinality(UpTo(x)) = p
    BY <2>1
  <2>3. chosen(p) \in set /\ Cardinality(UpTo(chosen(p))) = p
    BY <2>2
  <2> QED
    BY <2>3
<1> HIDE DEF chosen, rank
<1>10. PICK s : s = InOrder(set)
  OBVIOUS
<1>11. IsSeq(s) /\ Len(s) = c
  <2>1. s = [p \in 1 .. c |-> s[p]]
    BY <1>8, <1>10
  <2> QED
    BY <2>1, FunctionIsSeq
<1>12. \A p \in 1 .. c : s[p] \in set /\ rank[s[p]] = p
  BY <1>8, <1>9, <1>10
<1>13. ASSUME NEW x \in set PROVE \E p \in 1 .. c : s[p] = x
  <2>1. rank[x] \in 1 .. c
    BY <1>5
  <2>2. s[rank[x]] = x
    BY <1>6, <1>12, <2>1
  <2> QED
    BY <2>1, <2>2
<1>14. \A p, q \in 1 .. c : s[p] = s[q] => p = q
  BY <1>12
<1> QED
  BY <1>10, <1>11, <1>12, <1>13, <1>14 DEF Lists

\* A split has every position, once.
LEMMA SplitFacts ==
    ASSUME NEW len \in Nat, NEW m \in Nat, NEW split \in Splits(len, m)
    PROVE  /\ IsSeq(split) /\ Len(split) = m
           /\ Permuted(len, <<>>, split)
<1>1. PICK part \in Surjection(1 .. len, 1 .. m) :
          split = [g \in 1 .. m |-> InOrder({i \in 1 .. len : part[i] = g})]
  BY DEF Splits
<1>2. part \in [1 .. len -> 1 .. m]
  BY <1>1, Fun_SurjectionProperties
<1>3. IsSeq(split) /\ Len(split) = m
  <2>1. split = [g \in 1 .. m |-> split[g]]
    BY <1>1
  <2> QED
    BY <2>1, FunctionIsSeq
<1>4. ASSUME NEW g \in 1 .. m
      PROVE  /\ IsSeq(split[g])
             /\ \A p \in 1 .. Len(split[g]) : split[g][p] \in 1 .. len /\ part[split[g][p]] = g
             /\ \A x \in 1 .. len : part[x] = g => \E p \in 1 .. Len(split[g]) : split[g][p] = x
             /\ \A p, q \in 1 .. Len(split[g]) : split[g][p] = split[g][q] => p = q
  <2>1. PICK set \in SUBSET (1 .. len) : set = {i \in 1 .. len : part[i] = g}
    OBVIOUS
  <2>2. split[g] = InOrder(set)
    BY <1>1, <2>1
  <2>3. Lists(InOrder(set), set)
    BY InOrderFacts
  <2>4. PICK s : s = split[g] /\ Lists(s, set)
    BY <2>2, <2>3
  <2>5. \A x : x \in set <=> x \in 1 .. len /\ part[x] = g
    BY <2>1
  <2>6. /\ IsSeq(s)
        /\ \A p \in 1 .. Len(s) : s[p] \in 1 .. len /\ part[s[p]] = g
        /\ \A x \in 1 .. len : part[x] = g => \E p \in 1 .. Len(s) : s[p] = x
        /\ \A p, q \in 1 .. Len(s) : s[p] = s[q] => p = q
    BY <2>4, <2>5 DEF Lists
  <2> QED
    BY <2>4, <2>6
<1>5. IsSeq(<<>>) /\ Len(<<>>) = 0
  <2>1. <<>> = [i \in 1 .. 0 |-> <<>>[i]]
    OBVIOUS
  <2> QED
    BY <2>1, FunctionIsSeq
<1>6. \A p \in 1 .. len : \E g \in 1 .. m : \E i \in 1 .. Len(split[g]) : split[g][i] = p
  <2> SUFFICES ASSUME NEW p \in 1 .. len
               PROVE  \E g \in 1 .. m : \E i \in 1 .. Len(split[g]) : split[g][i] = p
    OBVIOUS
  <2>1. PICK g \in 1 .. m : g = part[p]
    BY <1>2
  <2> QED
    BY <1>4, <2>1
<1>7. \A g, h \in 1 .. m : \A i \in 1 .. Len(split[g]), j \in 1 .. Len(split[h]) :
          split[g][i] = split[h][j] => g = h /\ i = j
  <2> SUFFICES ASSUME NEW g \in 1 .. m, NEW h \in 1 .. m, NEW i \in 1 .. Len(split[g]),
                      NEW j \in 1 .. Len(split[h]), split[g][i] = split[h][j]
               PROVE  g = h /\ i = j
    OBVIOUS
  <2>1. part[split[g][i]] = g /\ part[split[h][j]] = h
    BY <1>4
  <2>2. g = h
    BY <2>1
  <2> QED
    BY <1>4, <2>2
<1> QED
  BY <1>3, <1>4, <1>5, <1>6, <1>7 DEF Permuted

LEMMA TailFacts ==
    ASSUME NEW s, IsSeq(s), s # <<>>
    PROVE  /\ IsSeq(Tail(s)) /\ Len(s) \in Nat \ {0} /\ Len(Tail(s)) = Len(s) - 1
           /\ Head(s) = s[1] /\ \A i \in 1 .. Len(s) - 1 : Tail(s)[i] = s[i + 1]
<1>1. PICK n \in Nat : n = Len(s) - 1 /\ Len(s) = n + 1
  <2>1. Len(s) \in Nat /\ Len(s) # 0
    BY SeqFacts
  <2> QED
    BY <2>1
<1>2. /\ Tail(s) \in Seq(Range(s)) /\ Len(Tail(s)) = Len(s) - 1
      /\ \A i \in 1 .. Len(Tail(s)) : Tail(s)[i] = s[i + 1]
  BY HeadTailProperties DEF IsSeq
<1>3. Head(s) = s[1]
  BY DEF IsSeq
<1>4. IsSeq(Tail(s))
  <2>1. PICK t : t = Tail(s)
    OBVIOUS
  <2>2. t \in Seq(Range(t))
    BY <1>2, <2>1, SeqOfRange
  <2> QED
    BY <2>1, <2>2 DEF IsSeq
<1> QED
  BY <1>1, <1>2, <1>3, <1>4

\* Running the first of what is left keeps every row in one place.
LEMMA PermutedStep ==
    ASSUME NEW len \in Nat, NEW done, NEW left, Permuted(len, done, left), left # <<>>
    PROVE  Permuted(len, done \o Head(left), Tail(left))
<1>1. /\ IsSeq(done) /\ IsSeq(left) /\ \A g \in 1 .. Len(left) : IsSeq(left[g])
      /\ \A i \in 1 .. Len(done) : done[i] \in 1 .. len
      /\ \A g \in 1 .. Len(left) : \A i \in 1 .. Len(left[g]) : left[g][i] \in 1 .. len
  BY DEF Permuted
<1>2. \A p \in 1 .. len :
          \/ \E i \in 1 .. Len(done) : done[i] = p
          \/ \E g \in 1 .. Len(left) : \E i \in 1 .. Len(left[g]) : left[g][i] = p
  BY DEF Permuted
<1>3. /\ \A i, j \in 1 .. Len(done) : done[i] = done[j] => i = j
      /\ \A i \in 1 .. Len(done) : \A g \in 1 .. Len(left) : \A j \in 1 .. Len(left[g]) :
            done[i] # left[g][j]
  BY DEF Permuted
<1>4. \A g, h \in 1 .. Len(left) : \A i \in 1 .. Len(left[g]), j \in 1 .. Len(left[h]) :
          left[g][i] = left[h][j] => g = h /\ i = j
  BY DEF Permuted
<1>0. PICK rest, head : rest = Tail(left) /\ head = Head(left)
  OBVIOUS
<1>5. PICK n \in Nat :
          /\ Len(left) = n + 1 /\ rest = Tail(left) /\ head = Head(left) /\ head = left[1]
          /\ IsSeq(rest) /\ Len(rest) = n /\ \A g \in 1 .. n : rest[g] = left[g + 1]
  <2>1. /\ IsSeq(Tail(left)) /\ Len(left) \in Nat \ {0} /\ Len(Tail(left)) = Len(left) - 1
        /\ Head(left) = left[1] /\ \A i \in 1 .. Len(left) - 1 : Tail(left)[i] = left[i + 1]
    BY <1>1, TailFacts
  <2>2. PICK n \in Nat : Len(left) = n + 1 /\ n = Len(left) - 1
    <3>1. PICK c \in Nat \ {0} : c = Len(left)
      BY <2>1
    <3>2. c - 1 \in Nat /\ c = (c - 1) + 1
      OBVIOUS
    <3> QED
      BY <3>1, <3>2
  <2> QED
    BY <1>0, <2>1, <2>2
<1>6. 1 \in 1 .. Len(left) /\ \A g \in 1 .. n : g + 1 \in 1 .. Len(left) /\ g + 1 # 1
  BY <1>5
<1>7. IsSeq(head) /\ \A g \in 1 .. n : IsSeq(rest[g])
  BY <1>1, <1>5, <1>6
<1>8. PICK d \in Nat, k \in Nat : d = Len(done) /\ k = Len(head)
  BY <1>1, <1>7, SeqFacts
<1>9. PICK more : /\ more = done \o head /\ IsSeq(more) /\ Len(more) = d + k
                  /\ \A i \in 1 .. d : more[i] = done[i]
                  /\ \A i \in 1 .. k : more[d + i] = head[i]
  <2>1. /\ IsSeq(done \o head) /\ Len(done \o head) = Len(done) + Len(head)
        /\ \A i \in 1 .. Len(done) : (done \o head)[i] = done[i]
        /\ \A i \in 1 .. Len(head) : (done \o head)[Len(done) + i] = head[i]
    BY <1>1, <1>7, ConcatFacts
  <2> QED
    BY <1>8, <2>1
<1>10. ASSUME NEW i \in 1 .. d + k
       PROVE  \/ i \in 1 .. d /\ more[i] = done[i]
              \/ \E x \in 1 .. k : i = d + x /\ more[i] = head[x]
  <2>1. CASE i <= d
    BY <1>9, <2>1
  <2>2. CASE i > d
    <3>1. i - d \in 1 .. k /\ i = d + (i - d)
      BY <2>2
    <3> QED
      BY <1>9, <3>1
  <2> QED
    BY <2>1, <2>2
<1>11. \A i \in 1 .. d : i \in 1 .. d + k
  OBVIOUS
<1>12. \A i \in 1 .. k : d + i \in 1 .. d + k
  OBVIOUS
<1>13. \A i \in 1 .. d + k : more[i] \in 1 .. len
  BY <1>1, <1>5, <1>6, <1>8, <1>10
<1>14. \A g \in 1 .. n : \A i \in 1 .. Len(rest[g]) : rest[g][i] \in 1 .. len
  BY <1>1, <1>5, <1>6
<1>15. ASSUME NEW p \in 1 .. len
       PROVE  \/ \E i \in 1 .. d + k : more[i] = p
              \/ \E g \in 1 .. n : \E i \in 1 .. Len(rest[g]) : rest[g][i] = p
  <2>1. CASE \E i \in 1 .. Len(done) : done[i] = p
    BY <1>8, <1>9, <1>11, <2>1
  <2>2. CASE \E g \in 1 .. Len(left) : \E i \in 1 .. Len(left[g]) : left[g][i] = p
    <3>1. PICK g \in 1 .. n + 1 : \E i \in 1 .. Len(left[g]) : left[g][i] = p
      BY <1>5, <2>2
    <3>2. CASE g = 1
      <4>1. PICK i \in 1 .. k : head[i] = p
        BY <1>5, <1>8, <3>1, <3>2
      <4> QED
        BY <1>9, <1>12, <4>1
    <3>3. CASE g # 1
      <4>1. PICK h \in 1 .. n : g = h + 1
        <5>1. g - 1 \in 1 .. n /\ g = (g - 1) + 1
          BY <3>3
        <5> QED
          BY <5>1
      <4>2. rest[h] = left[g]
        BY <1>5, <4>1
      <4> QED
        BY <3>1, <4>2
    <3> QED
      BY <3>2, <3>3
  <2> QED
    BY <1>2, <2>1, <2>2
<1>16. \A i, j \in 1 .. k : head[i] = head[j] => i = j
  BY <1>4, <1>5, <1>6, <1>8
<1>17. \A i \in 1 .. d, x \in 1 .. k : done[i] # head[x]
  BY <1>3, <1>5, <1>6, <1>8
<1>18. ASSUME NEW i \in 1 .. d + k, NEW j \in 1 .. d + k, more[i] = more[j] PROVE i = j
  <2>1. \A a, b \in 1 .. d : done[a] = done[b] => a = b
    BY <1>3, <1>8
  <2>2. CASE i \in 1 .. d /\ more[i] = done[i]
    BY <1>10, <1>17, <1>18, <2>1, <2>2
  <2>3. CASE \E x \in 1 .. k : i = d + x /\ more[i] = head[x]
    <3>1. PICK x \in 1 .. k : i = d + x /\ more[i] = head[x]
      BY <2>3
    <3>2. CASE j \in 1 .. d /\ more[j] = done[j]
      BY <1>17, <1>18, <3>1, <3>2
    <3>3. CASE \E y \in 1 .. k : j = d + y /\ more[j] = head[y]
      BY <1>16, <1>18, <3>1, <3>3
    <3> QED
      BY <1>10, <3>2, <3>3
  <2> QED
    BY <1>10, <2>2, <2>3
<1>19. \A g, h \in 1 .. n : \A i \in 1 .. Len(rest[g]), j \in 1 .. Len(rest[h]) :
          rest[g][i] = rest[h][j] => g = h /\ i = j
  <2> SUFFICES ASSUME NEW g \in 1 .. n, NEW h \in 1 .. n, NEW i \in 1 .. Len(rest[g]),
                      NEW j \in 1 .. Len(rest[h]), rest[g][i] = rest[h][j]
               PROVE  g = h /\ i = j
    OBVIOUS
  <2>1. PICK a, b : a = g + 1 /\ b = h + 1 /\ a \in 1 .. Len(left) /\ b \in 1 .. Len(left)
                    /\ rest[g] = left[a] /\ rest[h] = left[b]
    BY <1>5, <1>6
  <2>2. a = b /\ i = j
    BY <1>4, <2>1
  <2> QED
    BY <2>1, <2>2
<1>20. ASSUME NEW i \in 1 .. d + k, NEW g \in 1 .. n, NEW j \in 1 .. Len(rest[g])
       PROVE  more[i] # rest[g][j]
  <2>1. PICK a : a = g + 1 /\ a \in 1 .. Len(left) /\ a # 1 /\ rest[g] = left[a]
    BY <1>5, <1>6
  <2>2. CASE i \in 1 .. d /\ more[i] = done[i]
    BY <1>3, <1>8, <2>1, <2>2
  <2>3. CASE \E x \in 1 .. k : i = d + x /\ more[i] = head[x]
    <3>1. PICK x \in 1 .. k : more[i] = head[x]
      BY <2>3
    <3>2. x \in 1 .. Len(left[1]) /\ more[i] = left[1][x] /\ 1 \in 1 .. Len(left)
      BY <1>5, <1>6, <1>8, <3>1
    <3> QED
      BY <1>4, <2>1, <3>2
  <2> QED
    BY <1>10, <2>2, <2>3
<1>21. Permuted(len, more, rest)
  <2>1. PICK m \in Nat : m = d + k /\ Len(more) = m
    BY <1>9
  <2>2. /\ IsSeq(more) /\ IsSeq(rest) /\ \A g \in 1 .. Len(rest) : IsSeq(rest[g])
        /\ \A i \in 1 .. Len(more) : more[i] \in 1 .. len
        /\ \A g \in 1 .. Len(rest) : \A i \in 1 .. Len(rest[g]) : rest[g][i] \in 1 .. len
    BY <1>5, <1>7, <1>9, <1>13, <1>14, <2>1
  <2>3. \A p \in 1 .. len :
          \/ \E i \in 1 .. Len(more) : more[i] = p
          \/ \E g \in 1 .. Len(rest) : \E i \in 1 .. Len(rest[g]) : rest[g][i] = p
    <3>1. Len(more) = d + k /\ Len(rest) = n
      BY <1>5, <2>1
    <3> QED
      BY <1>15, <3>1
  <2>4. \A i, j \in 1 .. Len(more) : more[i] = more[j] => i = j
    BY <1>18, <2>1
  <2>5. \A g, h \in 1 .. Len(rest) : \A i \in 1 .. Len(rest[g]), j \in 1 .. Len(rest[h]) :
          rest[g][i] = rest[h][j] => g = h /\ i = j
    BY <1>5, <1>19
  <2>6. \A i \in 1 .. Len(more) : \A g \in 1 .. Len(rest) : \A j \in 1 .. Len(rest[g]) :
          more[i] # rest[g][j]
    BY <1>5, <1>20, <2>1
  <2> QED
    BY <2>2, <2>3, <2>4, <2>5, <2>6 DEF Permuted
<1> QED
  BY <1>5, <1>9, <1>21

\* When nothing is left, all rows have run, each once.
LEMMA PermutedEnd ==
    ASSUME NEW len \in Nat, NEW done, Permuted(len, done, <<>>)
    PROVE  Lists(done, 1 .. len) /\ Len(done) = len
<1>1. Lists(done, 1 .. len)
  <2>1. Len(<<>>) = 0
    OBVIOUS
  <2>2. \A g \in 1 .. Len(<<>>) : FALSE
    BY <2>1
  <2> QED
    BY <2>2 DEF Permuted, Lists
<1>2. PICK n \in Nat : n = Len(done) /\ DOMAIN done = 1 .. n /\ done = [i \in 1 .. n |-> done[i]]
  BY <1>1, SeqFacts DEF Lists
<1>3. done \in [1 .. n -> 1 .. len]
  BY <1>1, <1>2 DEF Lists
<1>4. done \in Injection(1 .. n, 1 .. len)
  <2>1. \A p, q \in 1 .. n : done[p] = done[q] => p = q
    BY <1>1, <1>2 DEF Lists
  <2> QED
    BY <1>3, <2>1, Fun_IsInj
<1>5. done \in Surjection(1 .. n, 1 .. len)
  <2>1. \A x \in 1 .. len : \E p \in 1 .. n : done[p] = x
    BY <1>1, <1>2 DEF Lists
  <2> QED
    BY <1>3, <2>1, Fun_IsSurj
<1>6. IsFiniteSet(1 .. n) /\ IsFiniteSet(1 .. len) /\ Cardinality(1 .. n) = n /\ Cardinality(1 .. len) = len
  <2>1. ASSUME NEW a \in Nat PROVE IsFiniteSet(1 .. a) /\ Cardinality(1 .. a) = a
    BY FS_Interval
  <2> QED
    BY <2>1
<1>7. Cardinality(1 .. n) = Cardinality(1 .. len)
  BY <1>4, <1>5, <1>6, FS_Injection
<1> QED
  BY <1>1, <1>2, <1>6, <1>7

LEMMA NothingLeft ==
    ASSUME NEW s, IsSeq(s)
    PROVE  Left(s, Len(s)) = <<>>
<1>1. PICK n \in Nat : n = Len(s)
  BY SeqFacts
<1>2. Left(s, n) = [h \in 1 .. 0 |-> s[n + h]]
  BY <1>1 DEF Left
<1>3. Left(s, n) = [h \in 1 .. 0 |-> Left(s, n)[h]]
  BY <1>2
<1>4. IsSeq(Left(s, n)) /\ Len(Left(s, n)) = 0
  BY <1>3, FunctionIsSeq
<1> QED
  BY <1>1, <1>4, SeqFacts

LEMMA LeftFacts ==
    ASSUME NEW s, IsSeq(s), NEW i \in 1 .. Len(s)
    PROVE  /\ Left(s, i - 1) # <<>> /\ Head(Left(s, i - 1)) = s[i] /\ Tail(Left(s, i - 1)) = Left(s, i)
           /\ Left(s, 0) = s /\ Left(s, Len(s)) = <<>>
<1>1. PICK n \in Nat : n = Len(s)
  BY SeqFacts
<1>2. Left(s, 0) = s
  <2>1. Left(s, 0) = [h \in 1 .. n |-> s[h]]
    BY <1>1 DEF Left
  <2> QED
    BY <1>1, <2>1, SeqFacts
<1>3. Left(s, Len(s)) = <<>>
  BY NothingLeft
<1>4. PICK m \in Nat : m = n - i /\ n - (i - 1) = m + 1 /\ i \in 1 .. n
  <2>1. i \in 1 .. n
    BY <1>1
  <2>2. n - i \in Nat /\ n - (i - 1) = (n - i) + 1
    BY <2>1
  <2> QED
    BY <2>1, <2>2
<1>5. PICK t : t = Left(s, i - 1) /\ t = [h \in 1 .. m + 1 |-> s[(i - 1) + h]]
  BY <1>1, <1>4 DEF Left
<1>6. IsSeq(t) /\ Len(t) = m + 1
  <2>1. t = [h \in 1 .. m + 1 |-> t[h]] /\ m + 1 \in Nat
    BY <1>5
  <2> QED
    BY <2>1, FunctionIsSeq
<1>7. t # <<>>
  BY <1>6, SeqFacts
<1>8. /\ IsSeq(Tail(t)) /\ Len(Tail(t)) = m
      /\ Head(t) = t[1] /\ \A h \in 1 .. m : Tail(t)[h] = t[h + 1]
  <2>1. /\ IsSeq(Tail(t)) /\ Len(Tail(t)) = Len(t) - 1
        /\ Head(t) = t[1] /\ \A h \in 1 .. Len(t) - 1 : Tail(t)[h] = t[h + 1]
    BY <1>6, <1>7, TailFacts
  <2> QED
    BY <1>6, <2>1
<1>9. t[1] = s[i]
  BY <1>5
<1>10. PICK u : u = Left(s, i) /\ u = [h \in 1 .. m |-> s[i + h]]
  BY <1>1, <1>4 DEF Left
<1>11. IsSeq(u) /\ Len(u) = m
  <2>1. u = [h \in 1 .. m |-> u[h]]
    BY <1>10
  <2> QED
    BY <2>1, FunctionIsSeq
<1>12. ASSUME NEW h \in 1 .. m PROVE Tail(t)[h] = u[h]
  <2>1. h + 1 \in 1 .. m + 1 /\ (i - 1) + (h + 1) = i + h
    BY <1>4
  <2> QED
    BY <1>5, <1>8, <1>10, <2>1
<1>13. Tail(t) = u
  BY <1>8, <1>11, <1>12, SameSeq
<1> QED
  BY <1>2, <1>3, <1>5, <1>7, <1>8, <1>9, <1>10, <1>13

\* The parts of a split, one after the other, are all positions.
LEMMA SplitJoined ==
    ASSUME NEW len \in Nat, NEW m \in Nat \ {0}, NEW split \in Splits(len, m)
    PROVE  Lists(Concat(split), 1 .. len) /\ Len(Concat(split)) = len
<1>1. IsSeq(split) /\ Len(split) = m /\ Permuted(len, <<>>, split)
  BY SplitFacts
<1>2. PICK F : /\ F[1] = split[1]
               /\ \A i \in 1 .. m : i > 1 => F[i] = F[i - 1] \o split[i]
               /\ FlattenSeq(split) = F[m]
  BY <1>1, FlattenSteps
<1>3. \A i \in 1 .. m :
          /\ Left(split, i - 1) # <<>> /\ Head(Left(split, i - 1)) = split[i]
          /\ Tail(Left(split, i - 1)) = Left(split, i)
          /\ Left(split, 0) = split /\ Left(split, m) = <<>>
  BY <1>1, LeftFacts
<1> DEFINE P == {i \in 1 .. m : Permuted(len, F[i], Left(split, i))}
<1>4. 1 \in P
  <2>1. 1 \in 1 .. m /\ 1 - 1 = 0
    OBVIOUS
  <2>2. split # <<>> /\ Head(split) = split[1] /\ Tail(split) = Left(split, 1)
    BY <1>3, <2>1
  <2>3. Permuted(len, <<>> \o split[1], Left(split, 1))
    BY <1>1, <2>2, PermutedStep
  <2>4. <<>> \o split[1] = split[1]
    <3>1. IsSeq(split[1])
      BY <1>1, <2>1 DEF Permuted
    <3> QED
      BY <3>1, ConcatEmptySeq DEF IsSeq
  <2> QED
    BY <1>2, <2>1, <2>3, <2>4
<1>5. ASSUME NEW i \in 1 .. m, i > 1, i - 1 \in P PROVE i \in P
  <2>1. Permuted(len, F[i - 1], Left(split, i - 1))
    BY <1>5
  <2>2. Permuted(len, F[i - 1] \o split[i], Left(split, i))
    BY <1>3, <2>1, PermutedStep
  <2> QED
    BY <1>2, <1>5, <2>2
<1>6. m \in P
  <2> HIDE DEF P
  <2>1. 1 .. m \subseteq P
    BY <1>4, <1>5, Upwards
  <2> QED
    BY <2>1
<1>7. Permuted(len, F[m], <<>>)
  BY <1>3, <1>6
<1>8. Lists(F[m], 1 .. len) /\ Len(F[m]) = len
  BY <1>7, PermutedEnd
<1> QED
  BY <1>2, <1>8 DEF Concat

\* Results taken at the reverse of the order they were computed in are in order.
LEMMA ReorderedLogs ==
    ASSUME NEW rows, IsSeq(rows), NEW done, Lists(done, 1 .. Len(rows)), Len(done) = Len(rows)
    PROVE  Reorder([q \in DOMAIN done |-> LogProb(rows[done[q]].response)], ReverseIdx(done)) = Logs(rows)
<1>1. PICK n \in Nat : n = Len(rows) /\ Len(done) = n /\ DOMAIN done = 1 .. n
  BY SeqFacts DEF Lists
<1>2. PICK out : out = [q \in 1 .. n |-> LogProb(rows[done[q]].response)]
  OBVIOUS
<1> DEFINE chosen(i) == CHOOSE p \in DOMAIN done : done[p] = i
<1>a. ReverseIdx(done) = [i \in DOMAIN done |-> chosen(i)]
  BY DEF ReverseIdx
<1>b. ASSUME NEW i \in 1 .. n PROVE chosen(i) \in 1 .. n /\ done[chosen(i)] = i
  <2>1. \E p \in DOMAIN done : done[p] = i
    BY <1>1 DEF Lists
  <2>2. chosen(i) \in DOMAIN done /\ done[chosen(i)] = i
    BY <2>1
  <2> QED
    BY <1>1, <2>2
<1> HIDE DEF chosen
<1>3. PICK rev : rev = ReverseIdx(done) /\ rev = [i \in 1 .. n |-> chosen(i)]
  BY <1>1, <1>a
<1>4. \A i \in 1 .. n : rev[i] \in 1 .. n /\ done[rev[i]] = i
  BY <1>3, <1>b
<1>5. Reorder(out, rev) = [i \in 1 .. n |-> out[rev[i]]]
  BY <1>3 DEF Reorder
<1>6. \A i \in 1 .. n : out[rev[i]] = LogProb(rows[i].response)
  BY <1>2, <1>4
<1>7. Logs(rows) = [i \in 1 .. n |-> LogProb(rows[i].response)]
  BY <1>1 DEF Logs
<1>8. out = [q \in DOMAIN done |-> LogProb(rows[done[q]].response)]
  BY <1>1, <1>2
<1>9. Reorder(out, rev) = Logs(rows)
  BY <1>5, <1>6, <1>7
<1> QED
  BY <1>3, <1>8, <1>9

\* _balance_batch leaves as many rows, each of them one of before.
LEMMA BalancedFacts ==
    ASSUME conf \in Configs, NEW rows, IsSeq(rows), NEW out \in Balanced(rows)
    PROVE  /\ IsSeq(out) /\ Len(out) = Len(rows)
           /\ \A i \in 1 .. Len(out) : \E j \in 1 .. Len(rows) : out[i] = rows[j]
<1>1. CASE ~conf.balance
  BY <1>1 DEF Balanced
<1>2. CASE conf.balance
  <2>1. PICK len \in Nat, m \in Nat \ {0} : len = Len(rows) /\ m = conf.world
    BY SeqFacts, ConfFacts
  <2>2. PICK split \in Splits(len, m) : out = Reorder(rows, Concat(split))
    BY <1>2, <2>1 DEF Balanced, EqualSplits
  <2>3. Lists(Concat(split), 1 .. len) /\ Len(Concat(split)) = len
    BY SplitJoined
  <2>4. PICK idx : /\ idx = Concat(split) /\ IsSeq(idx) /\ Len(idx) = len
                   /\ \A i \in 1 .. len : idx[i] \in 1 .. len
    BY <2>3 DEF Lists
  <2>5. /\ IsSeq(Reorder(rows, idx)) /\ Len(Reorder(rows, idx)) = len
        /\ \A i \in 1 .. len : Reorder(rows, idx)[i] = rows[idx[i]]
    BY <2>4, ReorderFacts
  <2> QED
    BY <2>1, <2>2, <2>4, <2>5
<1> QED
  BY <1>1, <1>2

\* Pieces of k: the last one begins before the end of the rows, and reaches it.
LEMMA PieceCountFacts ==
    ASSUME NEW len \in Nat, NEW k \in Nat \ {0}
    PROVE  \E all \in Nat : /\ all = PieceCount(len, k)
                            /\ all * k >= len
                            /\ \A c \in Nat : c < all => c * k < len
<1>1. PICK a \in Nat : a = len + k - 1
  OBVIOUS
<1>2. PICK q \in Nat, t \in 0 .. k - 1 : q = a \div k /\ t = a % k /\ a = q * k + t
  BY Division
<1>3. q = PieceCount(len, k)
  BY <1>1, <1>2, Zenon DEF PieceCount
<1>4. q * k >= len
  <2>1. PICK b \in Nat : b = q * k
    OBVIOUS
  <2>2. a = b + t
    BY <1>2, <2>1, Zenon
  <2> QED
    BY <1>1, <2>1, <2>2
<1>5. ASSUME NEW c \in Nat, c < q PROVE c * k < len
  <2>1. PICK d \in Nat : q = c + 1 + d
    <3>1. q - (c + 1) \in Nat /\ q = c + 1 + (q - (c + 1))
      BY <1>5
    <3> QED
      BY <3>1
  <2>2. q * k = c * k + k + d * k /\ d * k \in Nat /\ c * k \in Nat
    BY <2>1
  <2>3. PICK x \in Nat, y \in Nat : x = c * k /\ y = d * k /\ q * k = x + k + y
    BY <2>2
  <2>4. a = (x + k + y) + t
    BY <1>2, <2>3, Zenon
  <2> QED
    BY <1>1, <2>3, <2>4
<1> QED
  BY <1>3, <1>4, <1>5

\* The piece that ends at g * k, or at the end.
IsPiece(piece, len, k, g) ==
    \E a, b \in 0 .. len :
        /\ a = Smaller((g - 1) * k, len) /\ b = Smaller(g * k, len) /\ a <= b
        /\ piece = [i \in 1 .. b - a |-> a + i]

LEMMA PiecesFacts ==
    ASSUME NEW len \in Nat, NEW k \in Nat \ {0}
    PROVE  \E all \in Nat :
              /\ all = PieceCount(len, k)
              /\ IsSeq(Pieces(len, k)) /\ Len(Pieces(len, k)) = all
              /\ Smaller(0 * k, len) = 0 /\ Smaller(all * k, len) = len
              /\ \A g \in 1 .. all : IsPiece(Pieces(len, k)[g], len, k, g)
<1>1. PICK all \in Nat : /\ all = PieceCount(len, k)
                         /\ all * k >= len
                         /\ \A c \in Nat : c < all => c * k < len
  BY PieceCountFacts
<1>2. PICK p : /\ p = Pieces(len, k)
               /\ p = [g \in 1 .. all |-> [i \in 1 .. IF g * k <= len THEN k ELSE len - (g - 1) * k |-> (g - 1) * k + i]]
  BY <1>1 DEF Pieces, PieceCount
<1>3. IsSeq(p) /\ Len(p) = all
  <2>1. p = [g \in 1 .. all |-> p[g]]
    BY <1>2
  <2> QED
    BY <2>1, FunctionIsSeq
<1>4. Smaller(0 * k, len) = 0 /\ Smaller(all * k, len) = len
  <2>1. PICK x \in Nat : x = all * k
    OBVIOUS
  <2>2. x >= len /\ 0 * k = 0
    BY <1>1, <2>1
  <2> QED
    BY <2>1, <2>2 DEF Smaller
<1>5. ASSUME NEW g \in 1 .. all
      PROVE  \E a, b \in 0 .. len :
                /\ a = Smaller((g - 1) * k, len) /\ b = Smaller(g * k, len) /\ a <= b
                /\ p[g] = [i \in 1 .. b - a |-> a + i]
  <2>1. PICK a \in Nat, c \in Nat : a = (g - 1) * k /\ c = g * k /\ c = a + k
    <3>1. (g - 1) * k \in Nat /\ g * k \in Nat /\ g * k = (g - 1) * k + k
      OBVIOUS
    <3> QED
      BY <3>1
  <2>2. a < len
    <3>1. g - 1 \in Nat /\ g - 1 < all
      OBVIOUS
    <3>2. (g - 1) * k < len
      BY <1>1, <3>1
    <3> QED
      BY <2>1, <3>2
  <2>3. p[g] = [i \in 1 .. IF c <= len THEN k ELSE len - a |-> a + i]
    BY <1>2, <2>1, Zenon
  <2>4. Smaller((g - 1) * k, len) = a
    BY <2>1, <2>2 DEF Smaller
  <2>5. Smaller(g * k, len) = IF c <= len THEN c ELSE len
    BY <2>1 DEF Smaller
  <2>6. CASE c <= len
    <3>1. c - a = k /\ a \in 0 .. len /\ c \in 0 .. len /\ a <= c
      BY <2>1, <2>2, <2>6
    <3>2. p[g] = [i \in 1 .. c - a |-> a + i]
      BY <2>3, <2>6, <3>1
    <3> QED
      BY <2>4, <2>5, <2>6, <3>1, <3>2
  <2>7. CASE ~(c <= len)
    <3>1. a \in 0 .. len /\ len \in 0 .. len /\ a <= len
      BY <2>2
    <3>2. p[g] = [i \in 1 .. len - a |-> a + i]
      BY <2>3, <2>7
    <3> QED
      BY <2>4, <2>5, <2>7, <3>1, <3>2
  <2> QED
    BY <2>6, <2>7
<1>6. \A g \in 1 .. all : IsPiece(p[g], len, k, g)
  BY <1>5 DEF IsPiece
<1> QED
  BY <1>1, <1>2, <1>3, <1>4, <1>6

LEMMA IdentityFacts ==
    ASSUME NEW n \in Nat
    PROVE  IsSeq(Identity(n)) /\ Len(Identity(n)) = n /\ \A i \in 1 .. n : Identity(n)[i] = i
<1>1. Identity(n) = [i \in 1 .. n |-> i]
  BY DEF Identity
<1>2. Identity(n) = [i \in 1 .. n |-> Identity(n)[i]]
  BY <1>1
<1> QED
  BY <1>1, <1>2, FunctionIsSeq

\* A piece prolongs what was run before it.
LEMMA IdentityStep ==
    ASSUME NEW a \in Nat, NEW b \in Nat, a <= b, NEW piece, piece = [i \in 1 .. b - a |-> a + i]
    PROVE  Identity(a) \o piece = Identity(b)
<1>1. PICK d \in Nat : d = b - a /\ b = a + d
  <2>1. b - a \in Nat /\ b = a + (b - a)
    OBVIOUS
  <2> QED
    BY <2>1
<1>2. IsSeq(piece) /\ Len(piece) = d
  <2>1. piece = [i \in 1 .. d |-> piece[i]]
    BY <1>1
  <2> QED
    BY <2>1, FunctionIsSeq
<1>3. IsSeq(Identity(a)) /\ Len(Identity(a)) = a /\ \A i \in 1 .. a : Identity(a)[i] = i
  BY IdentityFacts
<1>4. IsSeq(Identity(b)) /\ Len(Identity(b)) = b /\ \A i \in 1 .. b : Identity(b)[i] = i
  BY IdentityFacts
<1>5. PICK s : /\ s = Identity(a) \o piece /\ IsSeq(s) /\ Len(s) = a + d
               /\ \A i \in 1 .. a : s[i] = Identity(a)[i]
               /\ \A i \in 1 .. d : s[a + i] = piece[i]
  <2>0. PICK id : id = Identity(a) /\ IsSeq(id) /\ Len(id) = a
    BY <1>3
  <2>1. PICK s : s = id \o piece
    OBVIOUS
  <2>2. /\ IsSeq(id \o piece) /\ Len(id \o piece) = Len(id) + Len(piece)
        /\ \A i \in 1 .. Len(id) : (id \o piece)[i] = id[i]
        /\ \A i \in 1 .. Len(piece) : (id \o piece)[Len(id) + i] = piece[i]
    BY <1>2, <2>0, ConcatFacts
  <2>3. IsSeq(s) /\ Len(s) = a + d
    BY <1>2, <2>0, <2>1, <2>2
  <2>4. (\A i \in 1 .. a : s[i] = id[i]) /\ \A i \in 1 .. d : s[a + i] = piece[i]
    BY <1>2, <2>0, <2>1, <2>2
  <2> QED
    BY <2>0, <2>1, <2>3, <2>4
<1>6. ASSUME NEW i \in 1 .. b PROVE s[i] = i
  <2>1. CASE i <= a
    BY <1>3, <1>5, <2>1
  <2>2. CASE i > a
    <3>1. i - a \in 1 .. d /\ i = a + (i - a)
      BY <1>1, <2>2
    <3>2. s[a + (i - a)] = piece[i - a]
      BY <1>5, <3>1
    <3>3. piece[i - a] = a + (i - a)
      BY <1>1, <3>1
    <3> QED
      BY <3>1, <3>2, <3>3
  <2> QED
    BY <2>1, <2>2
<1>7. s = Identity(b)
  BY <1>1, <1>4, <1>5, <1>6, SameSeq
<1> QED
  BY <1>5, <1>7

--------------------------------------------------------------------------------
(* The steps of the ranks *)

LEMMA InvFacts ==
    ASSUME IInv
    PROVE  /\ conf \in Configs /\ IsSeq(batch) /\ IsSeq(Sent) /\ 0 \in Ranks
           /\ Remote => \A r \in Ranks : DataAt(r)
           /\ Logging => \A r \in Ranks : LogAt(r)
<1>1. conf \in Configs /\ IsSeq(batch)
  BY DEF IInv, Typed, BatchInv
<1>2. IsSeq(Sent)
  BY <1>1, SentFacts
<1>3. 0 \in Ranks
  BY <1>1, ConfFacts DEF Ranks
<1> QED
  BY <1>1, <1>2, <1>3 DEF IInv, DataInv, LogInv

\* A step of the ranks leaves the call as it is.
LEMMA SameCall ==
    ASSUME UNCHANGED driver
    PROVE  /\ Ranks' = Ranks /\ conf' = conf /\ stage' = stage /\ batch' = batch
           /\ Generating' = Generating /\ Remote' = Remote /\ Computing' = Computing
           /\ Logging' = Logging /\ Dynamic' = Dynamic
           /\ GroupSize' = GroupSize /\ Sent' = Sent /\ Each' = Each
           /\ PromptCopies' = PromptCopies /\ ResponsesToPrompt' = ResponsesToPrompt
           /\ CanChunk(Sent, conf.world)' = CanChunk(Sent, conf.world)
           /\ BatchInv' = BatchInv /\ ScoredInv' = ScoredInv
           /\ \A r : /\ Group(r)' = Group(r) /\ Mine(r)' = Mine(r) /\ Ours(r)' = Ours(r)
                     /\ Final(r)' = Final(r)
<1>1. conf' = conf /\ stage' = stage /\ batch' = batch /\ scored' = scored /\ reward' = reward
  BY DEF driver
<1>2. /\ Ranks' = Ranks /\ Generating' = Generating /\ Logging' = Logging /\ Dynamic' = Dynamic
      /\ PromptCopies' = PromptCopies /\ ResponsesToPrompt' = ResponsesToPrompt
  BY <1>1 DEF Ranks, Generating, Logging, Dynamic, PromptCopies, ResponsesToPrompt
<1>3. Remote' = Remote /\ Computing' = Computing /\ GroupSize' = GroupSize
  BY <1>1, <1>2 DEF Remote, Computing, GroupSize
<1>4. Sent' = Sent
  BY <1>1 DEF Sent, ValRows
<1>5. Each' = Each
  BY <1>1, <1>4 DEF Each
<1>6. CanChunk(Sent, conf.world)' = CanChunk(Sent, conf.world)
  BY <1>1, <1>4 DEF CanChunk
<1>7. Times' = Times
  BY <1>2 DEF Times
<1>8. Result' = Result
  BY <1>1, <1>2, <1>4 DEF Result, Responses, Logs, LogProb
<1>9. \A r : /\ Group(r)' = Group(r) /\ Mine(r)' = Mine(r) /\ Ours(r)' = Ours(r)
             /\ Final(r)' = Final(r)
  BY <1>2, <1>3, <1>4, <1>5, <1>7, <1>8 DEF Group, Mine, Ours, Final, Part
<1>10. BatchInv' = BatchInv
  BY <1>1, <1>2 DEF BatchInv
<1>11. ScoredInv' = ScoredInv
  BY <1>1 DEF ScoredInv
<1> QED
  BY <1>1, <1>2, <1>3, <1>4, <1>5, <1>6, <1>9, <1>10, <1>11

\* What a step of the ranks has to keep.
LEMMA WorkerInv ==
    ASSUME IInv, UNCHANGED driver, Typed', NEW z \in Ranks, at[z] # "idle",
           Remote => \A q \in Ranks : DataAt(q)',
           Logging => \A q \in Ranks : LogAt(q)'
    PROVE  IInv'
<1>1. BatchInv' /\ ScoredInv'
  BY SameCall DEF IInv
<1>2. DataInv' /\ LogInv'
  BY SameCall DEF DataInv, LogInv
<1>3. Uncalled'
  BY SameCall DEF IInv, Uncalled
<1> QED
  BY <1>1, <1>2, <1>3 DEF IInv

\* A rank that is left alone.
LEMMA DataKept ==
    ASSUME UNCHANGED driver, NEW q, DataAt(q), at'[q] = at[q], data'[q] = data[q]
    PROVE  DataAt(q)'
BY SameCall DEF DataAt

LEMMA LogKept ==
    ASSUME UNCHANGED driver, NEW q, LogAt(q), at'[q] = at[q], data'[q] = data[q],
           minis'[q] = minis[q], todo'[q] = todo[q], ran'[q] = ran[q]
    PROVE  LogAt(q)'
<1>1. conf' = conf /\ Dynamic' = Dynamic
  BY SameCall
<1> QED
  BY <1>1 DEF LogAt

LEMMA GatherInv ==
    ASSUME IInv, NEW r \in Ranks, Gather(r)
    PROVE  IInv'
<1>1. UNCHANGED driver /\ Remote /\ todo' = todo /\ ran' = ran
  BY DEF Gather
<1>2. r \in Group(r) /\ \A q \in Group(r) : q \in Ranks /\ at[q] = "called" /\ Group(q) = Group(r)
  BY InvFacts, GroupFacts, Zenon DEF Gather
<1>3. at' = [q \in Ranks |-> IF q \in Group(r) THEN "gathered" ELSE at[q]]
  BY DEF Gather
<1>4. data' = [q \in Ranks |-> IF q \in Group(r) THEN Gathered(q) ELSE data[q]]
  BY DEF Gather
<1>5. minis' = [q \in Ranks |->
           IF q \notin Group(r) THEN minis[q]
           ELSE IF Generating THEN <<>> ELSE MiniBatches(Len(Gathered(q)))]
  BY DEF Gather
<1>6. Typed'
  BY <1>1, <1>3, <1>4, <1>5, SameCall DEF IInv, Typed, driver, Places
<1>7. ASSUME NEW q \in Group(r) PROVE Gathered(q) = Ours(q) /\ CanChunk(Sent, conf.world)
  <2>1. q \in Ranks /\ Group(q) = Group(r)
    BY <1>2
  <2>2. \A x \in Group(q) : DataAt(x) /\ at[x] = "called"
    BY <1>1, <1>2, <2>1, InvFacts
  <2>3. \A x \in Group(q) : data[x] = Mine(x)
    BY <2>2 DEF DataAt
  <2>4. CanChunk(Sent, conf.world)
    BY <1>2, <2>1, <2>2 DEF DataAt
  <2> QED
    BY <2>1, <2>3, <2>4, InvFacts, GatheredOurs
<1>8. ASSUME NEW q \in Ranks PROVE DataAt(q)'
  <2>1. CASE q \in Group(r)
    <3>1. at'[q] = "gathered" /\ data'[q] = Ours(q) /\ CanChunk(Sent, conf.world)
      BY <1>3, <1>4, <1>7, <2>1
    <3> QED
      BY <1>1, <3>1, SameCall DEF DataAt
  <2>2. CASE q \notin Group(r)
    <3>1. at'[q] = at[q] /\ data'[q] = data[q] /\ DataAt(q)
      BY <1>1, <1>3, <1>4, <2>2, InvFacts
    <3> QED
      BY <1>1, <3>1, DataKept
  <2> QED
    BY <2>1, <2>2
<1>9. ASSUME Logging, NEW q \in Ranks PROVE LogAt(q)'
  <2>1. CASE q \in Group(r)
    <3>1. at'[q] = "gathered" /\ data'[q] = Gathered(q)
      BY <1>3, <1>4, <2>1
    <3>2. ~Generating /\ stage # "update_actor"
      BY <1>9 DEF Logging, Generating
    <3>3. minis'[q] = MiniBatches(Len(Gathered(q)))
      BY <1>5, <2>1, <3>2
    <3>4. minis'[q] = <<Identity(Len(data'[q]))>>
      BY <3>1, <3>2, <3>3 DEF MiniBatches, Identity
    <3> QED
      BY <3>1, <3>4 DEF LogAt
  <2>2. CASE q \notin Group(r)
    <3>1. /\ at'[q] = at[q] /\ data'[q] = data[q] /\ minis'[q] = minis[q]
          /\ todo'[q] = todo[q] /\ ran'[q] = ran[q]
      BY <1>1, <1>3, <1>4, <1>5, <2>2
    <3>2. LogAt(q)
      BY <1>9, InvFacts
    <3> QED
      BY <1>1, <3>1, <3>2, LogKept
  <2> QED
    BY <2>1, <2>2
<1> QED
  BY <1>1, <1>2, <1>6, <1>8, <1>9, WorkerInv

LEMMA GenerateInv ==
    ASSUME IInv, NEW r \in Ranks, Generate(r), PromptCopies = ResponsesToPrompt
    PROVE  IInv'
<1>1. UNCHANGED driver /\ Generating /\ Remote /\ todo' = todo /\ ran' = ran /\ minis' = minis
  BY DEF Generate, Remote
<1>2. r \in Group(r) /\ \A q \in Group(r) : q \in Ranks /\ at[q] = "gathered"
  BY InvFacts, GroupFacts, Zenon DEF Generate
<1>3. at' = [q \in Ranks |-> IF q \in Group(r) THEN "finished" ELSE at[q]]
  BY DEF Generate
<1>4. data' = [q \in Ranks |-> IF q \in Group(r) THEN Share(Responses(data[q]), q) ELSE data[q]]
  BY DEF Generate
<1>5. Typed'
  BY <1>1, <1>3, <1>4, SameCall DEF IInv, Typed, driver, Places
<1>6. ASSUME NEW q \in Group(r) PROVE data'[q] = Final(q) /\ CanChunk(Sent, conf.world)
  <2>1. q \in Ranks /\ DataAt(q) /\ at[q] = "gathered" /\ conf \in Configs /\ IsSeq(Sent)
    BY <1>1, <1>2, InvFacts
  <2>2. data[q] = Ours(q) /\ CanChunk(Sent, conf.world)
    BY <2>1 DEF DataAt
  <2>3. PICK s \in Nat \ {0}, e \in Nat, j \in Nat :
              /\ s = GroupSize /\ e = Each /\ j = q \div GroupSize
              /\ s * e \in Nat /\ (j + 1) * (s * e) <= Len(Sent)
              /\ Len(Sent) \in Nat
    BY <2>1, <2>2, GroupShare, Zenon
  <2>4. PICK m \in Nat : m = s * e /\ m = GroupSize * Each /\ (j + 1) * m <= Len(Sent)
    BY <2>3, Zenon
  <2>5. Responses(Part(Sent, m, j)) = Part(Responses(Sent), m * ResponsesToPrompt, j)
    BY <2>1, <2>4, ResponsesOfPart
  <2>6. Ours(q) = Part(Sent, m, j)
    BY <2>3, <2>4, Zenon DEF Ours
  <2>7. Responses(Sent) = Result /\ ResponsesToPrompt = Times
    BY <1>1 DEF Result, Times
  <2>8. Responses(data[q]) = Part(Result, (GroupSize * Each) * Times, q \div GroupSize)
    BY <2>2, <2>3, <2>4, <2>5, <2>6, <2>7, Zenon
  <2>9. Share(Responses(data[q]), q) = Final(q)
    BY <2>1, <2>2, <2>8, ShareFinal, Zenon
  <2>10. data'[q] = Share(Responses(data[q]), q)
    BY <1>4, <2>1
  <2> QED
    BY <2>2, <2>9, <2>10
<1>7. ASSUME NEW q \in Ranks PROVE DataAt(q)'
  <2>1. CASE q \in Group(r)
    <3>1. at'[q] = "finished" /\ data'[q] = Final(q) /\ CanChunk(Sent, conf.world)
      BY <1>3, <1>6, <2>1
    <3> QED
      BY <1>1, <3>1, SameCall DEF DataAt
  <2>2. CASE q \notin Group(r)
    <3>1. at'[q] = at[q] /\ data'[q] = data[q] /\ DataAt(q)
      BY <1>1, <1>3, <1>4, <2>2, InvFacts
    <3> QED
      BY <1>1, <3>1, DataKept
  <2> QED
    BY <2>1, <2>2
<1>8. ~Logging
  BY <1>1 DEF Generating, Logging
<1> QED
  BY <1>1, <1>2, <1>5, <1>7, <1>8, WorkerInv

\* A rank that raises ends the job.
LEMMA RaiseInv ==
    ASSUME IInv, Raise, UNCHANGED workers
    PROVE  IInv'
<1>1. /\ stage' = "raised" /\ conf' = conf /\ batch' = batch /\ scored' = scored
      /\ reward' = reward /\ ready' = ready /\ UNCHANGED workers
  BY DEF Raise
<1>2. Typed'
  BY <1>1 DEF IInv, Typed, Stages, workers, Ranks
<1>3. ~Remote' /\ ~Generating' /\ ~Logging'
  BY <1>1 DEF Remote, Generating, Logging
<1>4. Uncalled' /\ DataInv' /\ LogInv'
  BY <1>1, <1>3 DEF Uncalled, DataInv, LogInv
<1>5. BatchInv'
  BY <1>1, <1>3 DEF IInv, BatchInv, Aligned
<1>6. ScoredInv'
  BY <1>1 DEF IInv, ScoredInv
<1> QED
  BY <1>2, <1>4, <1>5, <1>6 DEF IInv

\* Micro-batches of all rows are the split itself.
LEMMA MicrosOfAll ==
    ASSUME NEW r, NEW len \in Nat, Batch(r) = Identity(len), NEW split, IsSeq(split),
           \A g \in 1 .. Len(split) : IsSeq(split[g]),
           \A g \in 1 .. Len(split) : \A i \in 1 .. Len(split[g]) : split[g][i] \in 1 .. len
    PROVE  Micros(r, split) = split
<1>1. PICK n \in Nat : n = Len(split) /\ DOMAIN split = 1 .. n /\ split = [g \in 1 .. n |-> split[g]]
  BY SeqFacts
<1>2. ASSUME NEW g \in 1 .. n
      PROVE  [i \in DOMAIN split[g] |-> Batch(r)[split[g][i]]] = split[g]
  <2>0. PICK part : part = split[g] /\ IsSeq(part)
    BY <1>1
  <2>1. PICK m \in Nat : m = Len(part) /\ DOMAIN part = 1 .. m /\ part = [i \in 1 .. m |-> part[i]]
    BY <2>0, SeqFacts
  <2>a. \A i \in 1 .. m : part[i] \in 1 .. len
    BY <1>1, <2>0, <2>1
  <2>2. \A i \in 1 .. m : Batch(r)[part[i]] = part[i]
    <3>1. \A x \in 1 .. len : Identity(len)[x] = x
      BY IdentityFacts
    <3> QED
      BY <2>a, <3>1
  <2>3. [i \in DOMAIN part |-> Batch(r)[part[i]]] = [i \in 1 .. m |-> part[i]]
    BY <2>1, <2>2
  <2> QED
    BY <2>0, <2>1, <2>3
<1>3. Micros(r, split) = [g \in 1 .. n |-> split[g]]
  BY <1>1, <1>2 DEF Micros
<1> QED
  BY <1>1, <1>3

\* The pieces of all rows are pieces of their positions.
LEMMA MicrosOfPieces ==
    ASSUME NEW r, NEW len \in Nat, NEW k \in Nat \ {0}, Batch(r) = Identity(len)
    PROVE  Micros(r, Pieces(len, k)) = Pieces(len, k)
<1>1. PICK all \in Nat :
          /\ IsSeq(Pieces(len, k)) /\ Len(Pieces(len, k)) = all
          /\ \A g \in 1 .. all : IsPiece(Pieces(len, k)[g], len, k, g)
  BY PiecesFacts
<1>2. PICK p : p = Pieces(len, k) /\ IsSeq(p) /\ Len(p) = all
               /\ \A g \in 1 .. all : IsPiece(p[g], len, k, g)
  BY <1>1
<1>3. ASSUME NEW g \in 1 .. all
      PROVE  IsSeq(p[g]) /\ \A i \in 1 .. Len(p[g]) : p[g][i] \in 1 .. len
  <2>1. PICK a \in 0 .. len, b \in 0 .. len : a <= b /\ p[g] = [i \in 1 .. b - a |-> a + i]
    BY <1>2 DEF IsPiece
  <2>0. PICK s : s = p[g]
    OBVIOUS
  <2>2. PICK d \in Nat : d = b - a /\ s = p[g] /\ s = [i \in 1 .. d |-> a + i]
    BY <2>0, <2>1
  <2>3. IsSeq(s) /\ Len(s) = d
    <3>1. s = [i \in 1 .. d |-> s[i]]
      BY <2>2
    <3> QED
      BY <3>1, FunctionIsSeq
  <2>4. \A i \in 1 .. d : s[i] \in 1 .. len
    BY <2>1, <2>2
  <2> QED
    BY <2>2, <2>3, <2>4
<1>4. Micros(r, p) = p
  BY <1>2, <1>3, MicrosOfAll
<1> QED
  BY <1>2, <1>4

\* What a rank has of the rows: a sequence, as long as those of the other ranks.
LEMMA OursFacts ==
    ASSUME conf \in Configs, IsSeq(Sent), CanChunk(Sent, conf.world), NEW r \in Ranks
    PROVE  IsSeq(Ours(r)) /\ Len(Ours(r)) = GroupSize * Each /\ GroupSize * Each \in Nat
<1>1. PICK s \in Nat \ {0}, e \in Nat, j \in Nat :
              /\ s = GroupSize /\ e = Each /\ j = r \div GroupSize
              /\ s * e \in Nat /\ (j + 1) * (s * e) <= Len(Sent)
  BY GroupShare, Zenon
<1>2. PICK m \in Nat : m = s * e /\ m = GroupSize * Each /\ (j + 1) * m <= Len(Sent)
  BY <1>1, Zenon
<1>3. IsSeq(Part(Sent, m, j)) /\ Len(Part(Sent, m, j)) = m
  BY <1>2, PartFacts
<1>4. Ours(r) = Part(Sent, m, j)
  BY <1>1, <1>2, Zenon DEF Ours
<1> QED
  BY <1>2, <1>3, <1>4

\* A rank that computes works on the rows of its group, all at once if it returns something.
LEMMA WorkingFacts ==
    ASSUME IInv, Remote, NEW r \in Ranks, at[r] \in {"gathered", "running"}
    PROVE  /\ IsSeq(data[r]) /\ Len(data[r]) \in Nat /\ Len(data[r]) = GroupSize * Each
           /\ data[r] = Ours(r) /\ CanChunk(Sent, conf.world)
           /\ Logging => /\ Batch(r) = Identity(Len(data[r]))
                         /\ minis[r] = <<Identity(Len(data[r]))>>
<1>1. DataAt(r) /\ (Logging => LogAt(r)) /\ conf \in Configs /\ IsSeq(Sent)
  BY InvFacts
<1>2. data[r] = Ours(r) /\ CanChunk(Sent, conf.world)
  BY <1>1 DEF DataAt
<1>3. IsSeq(data[r]) /\ Len(data[r]) \in Nat /\ Len(data[r]) = GroupSize * Each
  BY <1>1, <1>2, OursFacts
<1>4. Logging => minis[r] = <<Identity(Len(data[r]))>>
  BY <1>1 DEF LogAt
<1> QED
  BY <1>2, <1>3, <1>4 DEF Batch

LEMMA TakenNone ==
    ASSUME NEW len \in Nat, NEW k \in Nat \ {0}
    PROVE  Taken(len, k, <<>>, Pieces(len, k))
<1>1. PICK all \in Nat :
          /\ all = PieceCount(len, k)
          /\ IsSeq(Pieces(len, k)) /\ Len(Pieces(len, k)) = all /\ Smaller(0 * k, len) = 0
  BY PiecesFacts
<1>2. Left(Pieces(len, k), 0) = Pieces(len, k)
  <2>1. PICK p : p = Pieces(len, k) /\ p = [h \in 1 .. all |-> p[h]]
    BY <1>1, SeqFacts
  <2>2. Left(p, 0) = [h \in 1 .. all |-> p[h]]
    BY <1>1, <2>1 DEF Left
  <2> QED
    BY <2>1, <2>2
<1>3. Identity(0) = <<>>
  <2>1. IsSeq(Identity(0)) /\ Len(Identity(0)) = 0
    BY IdentityFacts
  <2> QED
    BY <2>1, SeqFacts
<1>4. 0 \in 0 .. all
  OBVIOUS
<1> QED
  BY <1>1, <1>2, <1>3, <1>4 DEF Taken

LEMMA TakenStep ==
    ASSUME NEW len \in Nat, NEW k \in Nat \ {0}, NEW done, NEW left, Taken(len, k, done, left),
           left # <<>>
    PROVE  Taken(len, k, done \o Head(left), Tail(left))
<1>1. PICK all \in Nat :
          /\ all = PieceCount(len, k)
          /\ IsSeq(Pieces(len, k)) /\ Len(Pieces(len, k)) = all
          /\ \A g \in 1 .. all : IsPiece(Pieces(len, k)[g], len, k, g)
  BY PiecesFacts
<1>2. PICK p : /\ p = Pieces(len, k) /\ IsSeq(p) /\ Len(p) = all
               /\ \A g \in 1 .. all : IsPiece(p[g], len, k, g)
  BY <1>1
<1>3. PICK c \in 0 .. all : left = Left(p, c) /\ done = Identity(Smaller(c * k, len))
  BY <1>1, <1>2 DEF Taken
<1>4. c # all
  BY <1>2, <1>3, NothingLeft
<1>5. PICK d \in 1 .. all : d = c + 1 /\ d - 1 = c
  <2>1. c + 1 \in 1 .. all /\ (c + 1) - 1 = c
    BY <1>4
  <2> QED
    BY <2>1
<1>6. Head(Left(p, d - 1)) = p[d] /\ Tail(Left(p, d - 1)) = Left(p, d)
  BY <1>2, LeftFacts
<1>7. Head(left) = p[d] /\ Tail(left) = Left(p, d) /\ done = Identity(Smaller((d - 1) * k, len))
  BY <1>3, <1>5, <1>6
<1>8. PICK a \in 0 .. len, b \in 0 .. len :
        /\ a = Smaller((d - 1) * k, len) /\ b = Smaller(d * k, len) /\ a <= b
        /\ p[d] = [i \in 1 .. b - a |-> a + i]
  BY <1>2, Zenon DEF IsPiece
<1>9. Identity(a) \o p[d] = Identity(b)
  <2>1. a \in Nat /\ b \in Nat /\ a <= b
    BY <1>8
  <2>2. PICK piece : piece = p[d] /\ piece = [i \in 1 .. b - a |-> a + i]
    BY <1>8
  <2>3. Identity(a) \o piece = Identity(b)
    BY <2>1, <2>2, IdentityStep
  <2> QED
    BY <2>2, <2>3
<1>10. done \o Head(left) = Identity(Smaller(d * k, len))
  BY <1>7, <1>8, <1>9, Zenon
<1>11. d \in 0 .. all
  OBVIOUS
<1> QED
  BY <1>1, <1>2, <1>7, <1>10, <1>11 DEF Taken

\* When no piece is left, all rows are done in order.
LEMMA TakenEnd ==
    ASSUME NEW len \in Nat, NEW k \in Nat \ {0}, NEW done, Taken(len, k, done, <<>>)
    PROVE  done = Identity(len)
<1>1. PICK all \in Nat :
          /\ all = PieceCount(len, k)
          /\ IsSeq(Pieces(len, k)) /\ Len(Pieces(len, k)) = all /\ Smaller(all * k, len) = len
  BY PiecesFacts
<1>2. PICK p : p = Pieces(len, k) /\ IsSeq(p) /\ Len(p) = all
  BY <1>1
<1>3. PICK c \in 0 .. all : <<>> = Left(p, c) /\ done = Identity(Smaller(c * k, len))
  BY <1>1, <1>2 DEF Taken
<1>4. c = all
  <2> SUFFICES ASSUME c # all PROVE FALSE
    OBVIOUS
  <2>1. PICK d \in 1 .. all : d - 1 = c
    <3>1. c + 1 \in 1 .. all /\ (c + 1) - 1 = c
      OBVIOUS
    <3> QED
      BY <3>1
  <2>2. Left(p, d - 1) # <<>>
    BY <1>2, LeftFacts
  <2> QED
    BY <1>3, <2>1, <2>2
<1> QED
  BY <1>1, <1>3, <1>4

LEMMA SplitInv ==
    ASSUME IInv, NEW r \in Ranks, Split(r)
    PROVE  IInv'
<1>1. /\ UNCHANGED driver /\ Remote /\ Computing /\ ~Dynamic /\ at[r] = "gathered"
      /\ data' = data /\ minis' = minis
  BY DEF Split, Computing
<1>2. DOMAIN at = Ranks /\ DOMAIN todo = Ranks /\ DOMAIN ran = Ranks
  BY DEF IInv, Typed
<1>3. /\ at' = [at EXCEPT ![r] = "running"]
      /\ todo' = [todo EXCEPT ![r] = Micros(r, Pieces(Len(Batch(r)), conf.micro))]
      /\ ran' = [ran EXCEPT ![r] = <<>>]
  BY DEF Split
<1>4. Typed'
  BY <1>1, <1>2, <1>3, SameCall DEF IInv, Typed, driver, Places
<1>5. DataAt(r) /\ conf \in Configs
  BY <1>1, InvFacts
<1>6. ASSUME NEW q \in Ranks, q # r
      PROVE  at'[q] = at[q] /\ data'[q] = data[q] /\ minis'[q] = minis[q] /\ todo'[q] = todo[q] /\ ran'[q] = ran[q]
  BY <1>1, <1>2, <1>3, <1>6
<1>7. at'[r] = "running" /\ ran'[r] = <<>> /\ todo'[r] = Micros(r, Pieces(Len(Batch(r)), conf.micro))
  BY <1>2, <1>3
<1>8. ASSUME NEW q \in Ranks PROVE DataAt(q)'
  <2>1. CASE q = r
    BY <1>1, <1>5, <1>7, <2>1, SameCall DEF DataAt
  <2>2. CASE q # r
    BY <1>1, <1>6, <2>2, InvFacts, DataKept
  <2> QED
    BY <2>1, <2>2
<1>9. ASSUME Logging, NEW q \in Ranks PROVE LogAt(q)'
  <2>1. CASE q = r
    <3>1. PICK len \in Nat : /\ len = Len(data[r]) /\ Batch(r) = Identity(len)
                             /\ minis[r] = <<Identity(len)>>
      BY <1>1, <1>9, WorkingFacts
    <3>2. PICK k \in Nat \ {0} : k = conf.micro
      BY <1>1, <1>5, ConfFacts DEF Dynamic
    <3>3. Len(Batch(r)) = len
      BY <3>1, IdentityFacts
    <3>4. todo'[r] = Pieces(len, k)
      BY <1>7, <3>1, <3>2, <3>3, MicrosOfPieces
    <3>5. Taken(len, k, <<>>, Pieces(len, k))
      BY TakenNone
    <3>6. conf'.micro = k /\ Len(data'[r]) = len /\ ~Dynamic'
      BY <1>1, <3>1, <3>2, SameCall
    <3> QED
      BY <1>1, <1>7, <2>1, <3>1, <3>4, <3>5, <3>6 DEF LogAt
  <2>2. CASE q # r
    BY <1>1, <1>6, <1>9, <2>2, InvFacts, LogKept
  <2> QED
    BY <2>1, <2>2
<1>10. at[r] # "idle"
  BY <1>1
<1> QED
  BY <1>1, <1>4, <1>8, <1>9, <1>10, WorkerInv

LEMMA RearrangeInv ==
    ASSUME IInv, Rearrange
    PROVE  IInv'
<1>1. /\ UNCHANGED driver /\ Remote /\ Computing /\ Dynamic /\ data' = data /\ minis' = minis
      /\ \A r \in Ranks : at[r] = "gathered"
      /\ at' = [r \in Ranks |-> "running"] /\ ran' = [r \in Ranks |-> <<>>]
  BY DEF Rearrange, Computing
<1> DEFINE rows(r) == Rows(r, Batch(r))
           all == {rows(r) : r \in Ranks}
           len == Len(Batch(0))
<1>2. PICK split \in [all -> UNION {Splits(len, m) : m \in 1 .. len}] :
          todo' = [r \in Ranks |-> Micros(r, split[rows(r)])]
  BY DEF Rearrange
<1>3. Typed'
  BY <1>1, <1>2, SameCall DEF IInv, Typed, driver, Places
<1>4. 0 \in Ranks /\ at[0] # "idle"
  BY <1>1, InvFacts
<1>5. ASSUME NEW q \in Ranks PROVE DataAt(q)'
  <2>1. DataAt(q) /\ at[q] = "gathered" /\ at'[q] = "running" /\ data'[q] = data[q]
    BY <1>1, InvFacts
  <2> QED
    BY <1>1, <2>1, SameCall DEF DataAt
<1>6. ASSUME Logging, NEW r \in Ranks PROVE LogAt(r)'
  <2>1. PICK l \in Nat : l = Len(data[0]) /\ l = GroupSize * Each /\ Batch(0) = Identity(l)
    BY <1>1, <1>4, <1>6, WorkingFacts
  <2>2. Len(data[r]) = l /\ Batch(r) = Identity(l) /\ minis[r] = <<Identity(l)>>
    BY <1>1, <1>6, <2>1, WorkingFacts
  <2>3. len = l
    BY <2>1, IdentityFacts
  <2>4. rows(r) \in all
    OBVIOUS
  <2>a. PICK s : s = split[rows(r)]
    OBVIOUS
  <2>5. PICK m \in 1 .. l : s \in Splits(l, m)
    <3> HIDE DEF all, rows
    <3>1. split[rows(r)] \in UNION {Splits(len, m) : m \in 1 .. len}
      BY <2>4
    <3>2. s \in UNION {Splits(l, m) : m \in 1 .. l}
      BY <2>3, <2>a, <3>1
    <3> QED
      BY <3>2
  <2>6. Permuted(l, <<>>, s) /\ IsSeq(s)
    <3>1. m \in Nat
      OBVIOUS
    <3> QED
      BY <2>5, <3>1, SplitFacts
  <2>7. Micros(r, s) = s
    <3>1. /\ \A g \in 1 .. Len(s) : IsSeq(s[g])
          /\ \A g \in 1 .. Len(s) : \A i \in 1 .. Len(s[g]) : s[g][i] \in 1 .. l
      BY <2>6 DEF Permuted
    <3> QED
      BY <2>2, <2>6, <3>1, MicrosOfAll
  <2>8. todo'[r] = s
    <3> HIDE DEF rows
    <3> QED
      BY <1>2, <2>a, <2>7
  <2>9. /\ minis'[r] = <<Identity(Len(data'[r]))>> /\ Len(data'[r]) = l /\ Dynamic'
        /\ ran'[r] = <<>>
    BY <1>1, <2>2, SameCall
  <2> QED
    BY <2>6, <2>8, <2>9 DEF LogAt
<1> QED
  BY <1>1, <1>3, <1>4, <1>5, <1>6, WorkerInv

LEMMA OptimizerStepInv ==
    ASSUME IInv, OptimizerStep
    PROVE  IInv'
<1>1. /\ UNCHANGED driver /\ stage = "update_actor" /\ data' = data /\ todo' = todo /\ ran' = ran
      /\ \A r \in Ranks : at[r] = "running"
      /\ at' = [r \in Ranks |-> "gathered"] /\ minis' = [r \in Ranks |-> Tail(minis[r])]
  BY DEF OptimizerStep
<1>2. Remote /\ ~Logging /\ 0 \in Ranks /\ at[0] # "idle"
  BY <1>1, InvFacts DEF Remote, Logging
<1>3. Typed'
  BY <1>1, SameCall DEF IInv, Typed, driver, Places
<1>4. ASSUME NEW q \in Ranks PROVE DataAt(q)'
  <2>1. DataAt(q) /\ at[q] = "running" /\ at'[q] = "gathered" /\ data'[q] = data[q]
    BY <1>1, <1>2, InvFacts
  <2> QED
    BY <1>1, <2>1, SameCall DEF DataAt
<1> QED
  BY <1>1, <1>2, <1>3, <1>4, WorkerInv

LEMMA ForwardInv ==
    ASSUME IInv, Forward
    PROVE  IInv'
<1>1. /\ UNCHANGED driver /\ Computing /\ Remote /\ at' = at /\ data' = data /\ minis' = minis
      /\ \A r \in Ranks : at[r] = "running" /\ todo[r] # <<>>
      /\ todo' = [r \in Ranks |-> Tail(todo[r])]
      /\ ran' = [r \in Ranks |-> ran[r] \o Head(todo[r])]
  BY DEF Forward, Computing
<1>2. 0 \in Ranks /\ at[0] # "idle"
  BY <1>1, InvFacts
<1>3. Typed'
  BY <1>1, SameCall DEF IInv, Typed, driver
<1>4. ASSUME NEW q \in Ranks PROVE DataAt(q)'
  BY <1>1, InvFacts, DataKept
<1>5. ASSUME Logging, NEW r \in Ranks PROVE LogAt(r)'
  <2>1. LogAt(r) /\ at[r] = "running" /\ todo[r] # <<>> /\ conf \in Configs
    BY <1>1, <1>5, InvFacts
  <2>2. PICK len \in Nat : len = Len(data[r])
    BY <1>1, <2>1, WorkingFacts
  <2>3. todo'[r] = Tail(todo[r]) /\ ran'[r] = ran[r] \o Head(todo[r])
    BY <1>1
  <2>4. CASE Dynamic
    <3>1. Permuted(len, ran[r], todo[r])
      BY <2>1, <2>2, <2>4 DEF LogAt
    <3>2. Permuted(len, ran'[r], todo'[r])
      BY <2>1, <2>3, <3>1, PermutedStep
    <3> QED
      BY <1>1, <2>1, <2>2, <2>4, <3>2, SameCall DEF LogAt
  <2>5. CASE ~Dynamic
    <3>1. PICK k \in Nat \ {0} : k = conf.micro
      BY <2>1, <2>5, ConfFacts DEF Dynamic
    <3>2. Taken(len, k, ran[r], todo[r])
      BY <2>1, <2>2, <2>5, <3>1 DEF LogAt
    <3>3. Taken(len, k, ran'[r], todo'[r])
      BY <2>1, <2>3, <3>2, TakenStep
    <3> QED
      BY <1>1, <2>1, <2>2, <2>5, <3>1, <3>3, SameCall DEF LogAt
  <2> QED
    BY <2>4, <2>5
<1> QED
  BY <1>1, <1>2, <1>3, <1>4, <1>5, WorkerInv

\* The log probabilities of a rank that has nothing left are those of its rows, in order.
LEMMA LogProbsFacts ==
    ASSUME IInv, Logging, NEW r \in Ranks, at[r] = "running", todo[r] = <<>>
    PROVE  LogProbs(r) = Logs(data[r])
<1>1. Remote /\ LogAt(r) /\ conf \in Configs
  BY InvFacts DEF Remote, Logging
<1>2. PICK rows, done : rows = data[r] /\ done = ran[r]
  OBVIOUS
<1>3. PICK len \in Nat : len = Len(rows) /\ IsSeq(rows)
  BY <1>1, <1>2, WorkingFacts
<1>4. CASE Dynamic
  <2>1. Permuted(len, done, <<>>)
    BY <1>1, <1>2, <1>3, <1>4 DEF LogAt
  <2>2. Lists(done, 1 .. len) /\ Len(done) = len
    BY <2>1, PermutedEnd
  <2>3. Reorder([q \in DOMAIN done |-> LogProb(rows[done[q]].response)], ReverseIdx(done)) = Logs(rows)
    BY <1>3, <2>2, ReorderedLogs
  <2> QED
    BY <1>2, <1>4, <2>3 DEF LogProbs
<1>5. CASE ~Dynamic
  <2>1. PICK k \in Nat \ {0} : k = conf.micro
    BY <1>1, <1>5, ConfFacts DEF Dynamic
  <2>2. Taken(len, k, done, <<>>)
    BY <1>1, <1>2, <1>3, <1>5, <2>1 DEF LogAt
  <2>3. done = Identity(len)
    BY <2>2, TakenEnd
  <2>4. [q \in DOMAIN done |-> LogProb(rows[done[q]].response)] = [i \in 1 .. len |-> LogProb(rows[i].response)]
    BY <2>3 DEF Identity
  <2> QED
    BY <1>2, <1>3, <1>5, <2>4 DEF LogProbs, Logs
<1> QED
  BY <1>4, <1>5

LEMMA ReturnInv ==
    ASSUME IInv, NEW r \in Ranks, Return(r)
    PROVE  IInv'
<1>1. /\ UNCHANGED driver /\ Remote /\ ~Generating /\ todo' = todo /\ at[r] \in {"gathered", "running"}
      /\ at' = [at EXCEPT ![r] = "finished"] /\ minis' = [minis EXCEPT ![r] = <<>>]
      /\ ran' = [ran EXCEPT ![r] = <<>>]
  BY DEF Return, Remote, Generating
<1>2. DOMAIN at = Ranks /\ DOMAIN minis = Ranks /\ DOMAIN ran = Ranks /\ DOMAIN data = Ranks
  BY DEF IInv, Typed
<1>3. \E x : data' = [data EXCEPT ![r] = x]
  BY DEF Return
<1>4. Typed'
  BY <1>1, <1>2, <1>3, SameCall DEF IInv, Typed, driver, Places
<1>5. ASSUME NEW q \in Ranks, q # r
      PROVE  at'[q] = at[q] /\ data'[q] = data[q] /\ minis'[q] = minis[q] /\ todo'[q] = todo[q] /\ ran'[q] = ran[q]
  BY <1>1, <1>2, <1>3, <1>5
<1>6. at'[r] = "finished"
  BY <1>1, <1>2
<1>7. DataAt(r) /\ conf \in Configs /\ IsSeq(Sent) /\ data[r] = Ours(r) /\ CanChunk(Sent, conf.world)
  BY <1>1, InvFacts, WorkingFacts
<1>8. ASSUME stage # "update_actor" PROVE data'[r] = Final(r)
  <2>1. Logging /\ at[r] = "running" /\ todo[r] = <<>> /\ data'[r] = Share(LogProbs(r), r)
    BY <1>2, <1>8 DEF Return, Logging
  <2>2. LogProbs(r) = Logs(Ours(r))
    BY <1>7, <2>1, LogProbsFacts
  <2>3. PICK s \in Nat \ {0}, e \in Nat, j \in Nat :
              /\ s = GroupSize /\ e = Each /\ j = r \div GroupSize
              /\ s * e \in Nat /\ (j + 1) * (s * e) <= Len(Sent)
              /\ Len(Sent) \in Nat
    BY <1>7, GroupShare, Zenon
  <2>4. PICK m \in Nat : m = s * e /\ m = GroupSize * Each /\ (j + 1) * m <= Len(Sent)
    BY <2>3, Zenon
  <2>5. Logs(Part(Sent, m, j)) = Part(Logs(Sent), m, j)
    BY <1>7, <2>4, LogsOfPart
  <2>6. Ours(r) = Part(Sent, m, j)
    BY <2>3, <2>4, Zenon DEF Ours
  <2>7. Logs(Sent) = Result /\ Times = 1 /\ m * 1 = m
    BY <1>1 DEF Result, Times
  <2>8. LogProbs(r) = Part(Result, (GroupSize * Each) * Times, r \div GroupSize)
    <3>1. LogProbs(r) = Part(Result, m, j)
      BY <2>2, <2>5, <2>6, <2>7, Zenon
    <3>2. (GroupSize * Each) * Times = m
      BY <2>4, <2>7, Zenon
    <3> QED
      BY <2>3, <3>1, <3>2, Zenon
  <2>9. Share(LogProbs(r), r) = Final(r)
    BY <1>7, <2>8, ShareFinal, Zenon
  <2> QED
    BY <2>1, <2>9
<1>9. ASSUME NEW q \in Ranks PROVE DataAt(q)'
  <2>1. CASE q = r
    BY <1>1, <1>6, <1>7, <1>8, <2>1, SameCall DEF DataAt
  <2>2. CASE q # r
    BY <1>1, <1>5, <2>2, InvFacts, DataKept
  <2> QED
    BY <2>1, <2>2
<1>10. ASSUME Logging, NEW q \in Ranks PROVE LogAt(q)'
  <2>1. CASE q = r
    BY <1>6, <2>1 DEF LogAt
  <2>2. CASE q # r
    BY <1>1, <1>5, <1>10, <2>2, InvFacts, LogKept
  <2> QED
    BY <2>1, <2>2
<1>11. at[r] # "idle"
  BY <1>1
<1> QED
  BY <1>1, <1>4, <1>9, <1>10, <1>11, WorkerInv

--------------------------------------------------------------------------------
(* The steps of the driver *)

\* At the beginning of a call no rank has anything.
LEMMA IdleInv ==
    ASSUME IInv, conf' = conf, stage' \in Stages, ready' \in BOOLEAN,
           DOMAIN at' = Ranks, at' = [r \in Ranks |-> "idle"],
           DOMAIN data' = Ranks, DOMAIN minis' = Ranks, DOMAIN todo' = Ranks, DOMAIN ran' = Ranks,
           BatchInv', ScoredInv'
    PROVE  IInv'
<1>1. Ranks' = Ranks
  BY DEF Ranks
<1>2. Typed'
  BY <1>1 DEF IInv, Typed, Places
<1>3. Uncalled' /\ DataInv' /\ LogInv'
  BY <1>1 DEF Uncalled, DataInv, LogInv, DataAt, LogAt
<1> QED
  BY <1>2, <1>3 DEF IInv

LEMMA InitInv ==
    ASSUME Init
    PROVE  IInv
<1>1. /\ conf \in Configs /\ stage = "validate" /\ batch = [p \in 1 .. conf.batch |-> NewRow(p)]
      /\ scored = None /\ ready = FALSE /\ at = [r \in Ranks |-> "idle"]
      /\ data = [r \in Ranks |-> <<>>] /\ minis = [r \in Ranks |-> <<>>]
      /\ todo = [r \in Ranks |-> <<>>] /\ ran = [r \in Ranks |-> <<>>]
  BY DEF Init
<1>2. Typed
  BY <1>1 DEF Typed, Stages, Places
<1>3. Uncalled /\ DataInv /\ LogInv
  BY <1>1 DEF Uncalled, DataInv, LogInv, DataAt, LogAt
<1>4. BatchInv
  <2>1. PICK n \in Nat : n = conf.batch
    BY <1>1, ConfFacts
  <2>2. IsSeq(batch) /\ Len(batch) = n
    <3>1. batch = [p \in 1 .. n |-> batch[p]]
      BY <1>1, <2>1
    <3> QED
      BY <3>1, FunctionIsSeq
  <2>3. \A p : Aligned(NewRow(p))
    BY DEF Aligned, NewRow, Columns, None
  <2>4. \A i \in 1 .. Len(batch) : Aligned(batch[i])
    BY <1>1, <2>1, <2>2, <2>3
  <2>5. Generating
    BY <1>1 DEF Generating
  <2> QED
    BY <1>1, <2>2, <2>4, <2>5 DEF BatchInv
<1>5. ScoredInv
  BY <1>1 DEF ScoredInv
<1> QED
  BY <1>2, <1>3, <1>4, <1>5 DEF IInv

LEMMA DispatchInv ==
    ASSUME IInv, Dispatch
    PROVE  IInv'
<1>1. Remote /\ ~(stage = "generate" /\ conf.offline)
  BY DEF Dispatch
<1>2. CASE ~CanChunk(Sent, conf.world)
  BY <1>2, RaiseInv DEF Dispatch
<1>3. CASE CanChunk(Sent, conf.world)
  <2>1. /\ UNCHANGED driver /\ minis' = minis /\ todo' = todo /\ ran' = ran
        /\ at' = [r \in Ranks |-> "called"] /\ data' = [r \in Ranks |-> Chunk(Sent, conf.world, r)]
    BY <1>3 DEF Dispatch
  <2>2. Typed'
    BY <2>1, SameCall DEF IInv, Typed, driver, Places
  <2>3. ASSUME NEW q \in Ranks PROVE DataAt(q)'
    <3>1. at'[q] = "called" /\ data'[q] = Mine(q)
      BY <2>1 DEF Chunk, Mine, Part, Each
    <3> QED
      BY <1>3, <2>1, <3>1, SameCall DEF DataAt
  <2>4. ASSUME NEW q \in Ranks PROVE LogAt(q)'
    BY <2>1 DEF LogAt
  <2>5. Uncalled'
    <3>1. Remote' /\ ~(stage' = "generate" /\ conf'.offline)
      BY <1>1, <2>1, SameCall
    <3>2. stage' # "raised"
      BY <3>1 DEF Remote, Generating
    <3> QED
      BY <3>1, <3>2 DEF Uncalled
  <2>6. BatchInv' /\ ScoredInv' /\ DataInv' /\ LogInv'
    BY <2>1, <2>3, <2>4, SameCall DEF IInv, DataInv, LogInv
  <2> QED
    BY <2>2, <2>5, <2>6 DEF IInv
<1> QED
  BY <1>2, <1>3

\* What the driver collects is the result of all rows.
LEMMA CollectedFacts ==
    ASSUME IInv, NEW s \in {"validate", "generate", "old_log_prob", "ref_log_prob"}, Collect(s)
    PROVE  Collected = Result /\ CanChunk(Sent, conf.world)
<1>1. stage = s /\ Remote /\ stage # "update_actor"
  BY DEF Collect, Remote, Generating
<1>2. \A r \in Ranks : DataAt(r) /\ at[r] = "finished"
  BY <1>1, InvFacts DEF Collect
<1>3. \A r \in Ranks : data[r] = Final(r)
  BY <1>1, <1>2 DEF DataAt
<1>4. CanChunk(Sent, conf.world)
  <2>1. at[0] # "idle" /\ DataAt(0)
    BY <1>2, InvFacts
  <2> QED
    BY <2>1 DEF DataAt
<1> QED
  BY <1>3, <1>4, InvFacts, CollectedResult

\* What is returned of a row that is generated from: a response to its prompt.
LEMMA AnswerFacts ==
    ASSUME conf \in Configs, NEW rows, IsSeq(rows), NEW k, k = ResponsesToPrompt,
           NEW i \in 1 .. Len(rows) * k
    PROVE  \E y : Responses(rows)[i] = [response |-> y] /\ y[1] = Repeat(rows, k)[i].prompt
<1>1. Responses(rows)[i] = [response |-> <<Repeat(rows, k)[i].prompt, ((i - 1) % k) + 1>>]
  BY ResponsesFacts
<1> QED
  BY <1>1

LEMMA ValidatedInv ==
    ASSUME IInv, Validated
    PROVE  IInv'
<1>1. /\ Collect("validate") /\ stage = "validate" /\ Generating /\ conf' = conf /\ stage' = "generate"
      /\ batch' = batch /\ reward' = reward /\ ready' = ready
      /\ at' = [r \in Ranks |-> "idle"] /\ data' = [r \in Ranks |-> <<>>]
      /\ minis' = minis /\ todo' = todo /\ ran' = ran
      /\ scored' = Union(ValRows, Unpad(Collected, PadSize(ValRows, conf.world)))
  BY DEF Validated, Collect, Generating
<1>2. conf \in Configs /\ IsSeq(batch) /\ IsSeq(Sent)
  BY InvFacts
<1>3. Collected = Responses(Sent) /\ ResponsesToPrompt = 1
  BY <1>1, CollectedFacts DEF Result, ResponsesToPrompt
<1>4. PICK v \in Nat, p \in Nat :
          /\ v = Len(ValRows) /\ p = PadSize(ValRows, conf.world) /\ Len(Sent) = v + p
          /\ \A i \in 1 .. v : Sent[i] = ValRows[i]
  <2>1. IsSeq(ValRows)
    BY <1>2, ValRowsFacts
  <2>2. Len(ValRows) \in Nat
    BY <2>1, SeqFacts
  <2> QED
    BY <1>1, <1>2, <2>2, SentFacts
<1>5. PICK out : out = Responses(Sent) /\ IsSeq(out) /\ Len(out) = v + p
  <2>1. IsSeq(Responses(Sent)) /\ Len(Responses(Sent)) = Len(Sent) * 1
    BY <1>2, <1>3, ResponsesFacts
  <2> QED
    BY <1>4, <2>1
<1>6. PICK kept : kept = Unpad(out, p) /\ \A i \in 1 .. v : kept[i] = out[i]
  <2>1. Unpad(out, p) = Slice(out, 0, v)
    <3>1. (v + p) - p = v /\ 0 + 1 = 1
      OBVIOUS
    <3> QED
      BY <1>5, <3>1 DEF Unpad, Slice
  <2>2. \A i \in 1 .. v - 0 : Slice(out, 0, v)[i] = out[0 + i]
    <3>1. 0 \in Nat /\ 0 <= v /\ v <= Len(out)
      BY <1>5
    <3> QED
      BY <1>5, <3>1, SliceFacts
  <2>3. \A i \in 1 .. v : Slice(out, 0, v)[i] = out[i]
    <3> SUFFICES ASSUME NEW i \in 1 .. v PROVE Slice(out, 0, v)[i] = out[i]
      OBVIOUS
    <3>1. i \in 1 .. v - 0 /\ 0 + i = i
      OBVIOUS
    <3> QED
      BY <2>2, <3>1
  <2> QED
    BY <2>1, <2>3
<1>7. IsSeq(scored') /\ Len(scored') = v /\ \A i \in 1 .. v : scored'[i] = Joined(ValRows[i], kept[i])
  <2>1. IsSeq(ValRows)
    BY <1>2, ValRowsFacts
  <2>2. scored' = Union(ValRows, kept)
    BY <1>1, <1>3, <1>4, <1>5, <1>6
  <2> QED
    BY <1>4, <2>1, <2>2, UnionFacts
<1>8. ASSUME NEW i \in 1 .. v PROVE scored'[i].response[1] = scored'[i].prompt
  <2>1. PICK x : ValRows[i] = NewRow(x)
    BY <1>2, <1>4, ValRowsFacts
  <2>2. PICK y : out[i] = [response |-> y] /\ y[1] = Repeat(Sent, 1)[i].prompt
    <3>1. i \in 1 .. Len(Sent) * 1
      BY <1>4
    <3>2. PICK k : k = ResponsesToPrompt /\ k = 1 /\ i \in 1 .. Len(Sent) * k
      BY <1>3, <3>1
    <3>3. \E y : Responses(Sent)[i] = [response |-> y] /\ y[1] = Repeat(Sent, k)[i].prompt
      BY <1>2, <3>2, AnswerFacts
    <3> QED
      BY <1>5, <3>2, <3>3
  <2>3. Repeat(Sent, 1)[i] = Sent[i]
    <3>1. Repeat(Sent, 1) = [j \in 1 .. Len(Sent) * 1 |-> Sent[((j - 1) \div 1) + 1]]
      BY DEF Repeat
    <3>2. i \in 1 .. Len(Sent) * 1 /\ ((i - 1) \div 1) + 1 = i
      BY <1>4
    <3> QED
      BY <3>1, <3>2
  <2>4. y[1] = x
    BY <1>4, <2>1, <2>2, <2>3 DEF NewRow
  <2>5. scored'[i] = [NewRow(x) EXCEPT !.response = y]
    <3>1. DOMAIN NewRow(x) = Columns
      BY DEF NewRow, Columns
    <3>2. Joined(NewRow(x), [response |-> y]) = [NewRow(x) EXCEPT !.response = y]
      BY <3>1, JoinedFacts
    <3> QED
      BY <1>6, <1>7, <2>1, <2>2, <3>2
  <2> QED
    BY <2>4, <2>5 DEF NewRow
<1>9. ScoredInv'
  <2>1. v = conf.val * conf.valN
    BY <1>2, <1>4, ValRowsFacts
  <2> QED
    BY <1>1, <1>7, <1>8, <2>1 DEF ScoredInv
<1>10. BatchInv'
  BY <1>1 DEF IInv, BatchInv, Generating
<1>11. ready' \in BOOLEAN /\ stage' \in Stages
  BY <1>1 DEF IInv, Typed, Stages
<1>12. DOMAIN at' = Ranks /\ DOMAIN data' = Ranks /\ DOMAIN minis' = Ranks /\ DOMAIN todo' = Ranks /\ DOMAIN ran' = Ranks
  BY <1>1 DEF IInv, Typed
<1> QED
  BY <1>1, <1>9, <1>10, <1>11, <1>12, IdleInv

\* The prompts, repeated: as many rows as there will be responses, each aligned.
LEMMA RepeatedFacts ==
    ASSUME IInv, Generating
    PROVE  LET rows == Repeat(batch, conf.n)
           IN  /\ IsSeq(rows) /\ Len(rows) = conf.batch * conf.n /\ conf.batch * conf.n \in Nat
               /\ Len(batch) = conf.batch
               /\ \A i \in 1 .. Len(rows) : \E p : rows[i] = NewRow(p)
<1>1. PICK b \in Nat \ {0}, n \in Nat \ {0} : b = conf.batch /\ n = conf.n
  BY InvFacts, ConfFacts
<1>2. batch = [p \in 1 .. b |-> NewRow(p)]
  BY <1>1 DEF IInv, BatchInv
<1>3. IsSeq(batch) /\ Len(batch) = b
  <2>1. batch = [p \in 1 .. b |-> batch[p]]
    BY <1>2
  <2> QED
    BY <2>1, FunctionIsSeq
<1>4. Repeats(batch, n, b)
  BY <1>3, RepeatFacts
<1>5. IsSeq(Repeat(batch, n)) /\ Len(Repeat(batch, n)) = b * n /\ b * n \in Nat
  BY <1>4 DEF Repeats
<1>6. ASSUME NEW i \in 1 .. b * n PROVE \E p : Repeat(batch, n)[i] = NewRow(p)
  <2>1. PICK j \in 1 .. b : Repeat(batch, n)[i] = batch[j]
    BY <1>4, Zenon DEF Repeats
  <2> QED
    BY <1>2, <2>1
<1> QED
  BY <1>1, <1>3, <1>5, <1>6

\* With one response to every row, the batch keeps its columns in their rows.
LEMMA ResponsesInv ==
    ASSUME IInv, Generating, NEW out, WithResponses(out), Len(out) = conf.batch * conf.n,
           \A i \in 1 .. conf.batch * conf.n :
              \E y : out[i] = [response |-> y] /\ y[1] = Repeat(batch, conf.n)[i].prompt
    PROVE  /\ BatchInv' /\ ScoredInv' /\ conf' = conf /\ stage' = "old_log_prob" /\ ready' \in BOOLEAN
<1>1. PICK len \in Nat : /\ len = conf.batch * conf.n /\ IsSeq(Repeat(batch, conf.n))
                         /\ Len(Repeat(batch, conf.n)) = len
                         /\ \A i \in 1 .. len : \E p : Repeat(batch, conf.n)[i] = NewRow(p)
  BY RepeatedFacts
<1>2. PICK rows : rows = Repeat(batch, conf.n)
  OBVIOUS
<1>3. CanUnion(rows, out)
  BY <1>1, <1>2 DEF CanUnion
<1>4. /\ batch' \in Balanced(Union(rows, out))
      /\ reward' = [i \in DOMAIN batch' |-> <<batch'[i].prompt, batch'[i].response>>]
      /\ ready' = ~conf.async /\ stage' = "old_log_prob" /\ conf' = conf /\ scored' = scored
  BY <1>2, <1>3 DEF WithResponses
<1>5. PICK joined : /\ joined = Union(rows, out) /\ IsSeq(joined) /\ Len(joined) = len
                    /\ \A i \in 1 .. len : joined[i] = Joined(rows[i], out[i])
  BY <1>1, <1>2, UnionFacts
<1>6. ASSUME NEW i \in 1 .. len PROVE Aligned(joined[i])
  <2>1. PICK p : rows[i] = NewRow(p)
    BY <1>1, <1>2
  <2>2. PICK y : out[i] = [response |-> y] /\ y[1] = rows[i].prompt
    BY <1>1, <1>2
  <2>3. DOMAIN NewRow(p) = Columns /\ rows[i].prompt = p
    BY <2>1 DEF NewRow, Columns
  <2>4. joined[i] = [NewRow(p) EXCEPT !.response = y]
    <3>1. Joined(NewRow(p), [response |-> y]) = [NewRow(p) EXCEPT !.response = y]
      BY <2>3, JoinedFacts
    <3> QED
      BY <1>5, <2>1, <2>2, <3>1
  <2> QED
    BY <2>2, <2>3, <2>4 DEF NewRow, Aligned, Columns, None
<1>7. /\ IsSeq(batch') /\ Len(batch') = len
      /\ \A i \in 1 .. len : \E j \in 1 .. len : batch'[i] = joined[j]
  BY <1>4, <1>5, InvFacts, BalancedFacts
<1>8. \A i \in 1 .. Len(batch') : Aligned(batch'[i])
  BY <1>6, <1>7
<1>9. \A i \in 1 .. Len(batch') : reward'[i] = <<batch'[i].prompt, batch'[i].response>>
  BY <1>4, <1>7, SeqFacts
<1>10. BatchInv'
  BY <1>1, <1>4, <1>7, <1>8, <1>9 DEF BatchInv, Generating
<1>11. ScoredInv'
  BY <1>4 DEF IInv, ScoredInv
<1>12. ready' \in BOOLEAN
  BY <1>4, InvFacts, ConfFacts
<1> QED
  BY <1>4, <1>10, <1>11, <1>12

\* Generation returns a response to every row.
LEMMA GeneratedFacts ==
    ASSUME IInv, Collect("generate")
    PROVE  /\ Generating /\ Len(Collected) = conf.batch * conf.n
           /\ \A i \in 1 .. conf.batch * conf.n :
                 \E y : Collected[i] = [response |-> y] /\ y[1] = Repeat(batch, conf.n)[i].prompt
<1>1. stage = "generate" /\ Generating
  BY DEF Collect, Generating
<1>2. Collected = Responses(batch) /\ ResponsesToPrompt = conf.n /\ conf \in Configs /\ IsSeq(batch)
  BY <1>1, InvFacts, CollectedFacts, SentFacts DEF Result, ResponsesToPrompt
<1>3. Len(batch) = conf.batch
  BY <1>1, RepeatedFacts
<1>4. Len(Responses(batch)) = conf.batch * conf.n
  BY <1>2, <1>3, ResponsesFacts
<1>5. \A i \in 1 .. conf.batch * conf.n :
         \E y : Responses(batch)[i] = [response |-> y] /\ y[1] = Repeat(batch, conf.n)[i].prompt
  BY <1>2, <1>3, AnswerFacts
<1> QED
  BY <1>1, <1>2, <1>4, <1>5

LEMMA GeneratedInv ==
    ASSUME IInv, Generated
    PROVE  IInv' /\ stage' # "raised"
<1>1. /\ Collect("generate") /\ WithResponses(Collected)
      /\ at' = [r \in Ranks |-> "idle"] /\ data' = [r \in Ranks |-> <<>>]
      /\ minis' = minis /\ todo' = todo /\ ran' = ran
  BY DEF Generated, Collect
<1>2. BatchInv' /\ ScoredInv' /\ conf' = conf /\ stage' = "old_log_prob" /\ ready' \in BOOLEAN
  BY <1>1, GeneratedFacts, ResponsesInv
<1>3. DOMAIN at' = Ranks /\ DOMAIN data' = Ranks /\ DOMAIN minis' = Ranks /\ DOMAIN todo' = Ranks /\ DOMAIN ran' = Ranks
  BY <1>1 DEF IInv, Typed
<1>4. stage' \in Stages
  BY <1>2 DEF Stages
<1> QED
  BY <1>1, <1>2, <1>3, <1>4, IdleInv

LEMMA OfflineInv ==
    ASSUME IInv, OfflineResponses
    PROVE  IInv' /\ (stage' = "raised" => conf' = conf /\ conf.offline /\ conf.n > 1)
<1>1. stage = "generate" /\ conf.offline /\ Generating /\ UNCHANGED workers
  BY DEF OfflineResponses, Generating
<1>2. PICK out : out = [i \in DOMAIN batch |-> [response |-> <<batch[i].prompt, 1>>]] /\ WithResponses(out)
  BY DEF OfflineResponses
<1>3. PICK b \in Nat \ {0}, n \in Nat \ {0} : b = conf.batch /\ n = conf.n
  BY InvFacts, ConfFacts
<1>4. IsSeq(batch) /\ Len(batch) = b /\ DOMAIN batch = 1 .. b /\ Len(Repeat(batch, n)) = b * n
  BY <1>1, <1>3, InvFacts, RepeatedFacts, SeqFacts
<1>5. Len(out) = b
  <2>1. out = [i \in 1 .. b |-> out[i]]
    BY <1>2, <1>4
  <2> QED
    BY <2>1, FunctionIsSeq
<1>6. CASE ~CanUnion(Repeat(batch, conf.n), out)
  <2>1. Raise
    BY <1>2, <1>6 DEF WithResponses
  <2>2. n # 1
    <3> SUFFICES ASSUME n = 1 PROVE FALSE
      OBVIOUS
    <3>1. b * n = b
      OBVIOUS
    <3> QED
      BY <1>3, <1>4, <1>5, <1>6, <3>1 DEF CanUnion
  <2> QED
    BY <1>1, <1>3, <2>1, <2>2, RaiseInv DEF Raise
<1>7. CASE CanUnion(Repeat(batch, conf.n), out)
  <2>1. b * n = b
    BY <1>3, <1>4, <1>5, <1>7 DEF CanUnion
  <2>2. n = 1
    <3> SUFFICES ASSUME n # 1 PROVE FALSE
      OBVIOUS
    <3>1. PICK d \in Nat : n = d + 2
      <4>1. n - 2 \in Nat /\ n = (n - 2) + 2
        OBVIOUS
      <4> QED
        BY <4>1
    <3>2. b * n = b * d + b + b /\ b * d \in Nat
      BY <3>1
    <3> QED
      BY <2>1, <3>2
  <2>3. ASSUME NEW i \in 1 .. b * n
        PROVE  \E y : out[i] = [response |-> y] /\ y[1] = Repeat(batch, n)[i].prompt
    <3>1. i \in 1 .. b /\ ((i - 1) \div 1) + 1 = i
      BY <2>1
    <3>2. Repeat(batch, n)[i] = batch[i]
      <4>1. Repeat(batch, 1) = [j \in 1 .. Len(batch) * 1 |-> batch[((j - 1) \div 1) + 1]]
        BY DEF Repeat
      <4>2. i \in 1 .. Len(batch) * 1
        BY <1>4, <3>1
      <4> QED
        BY <2>2, <3>1, <4>1, <4>2
    <3>3. out[i] = [response |-> <<batch[i].prompt, 1>>]
      BY <1>2, <1>4, <3>1
    <3> QED
      BY <3>2, <3>3
  <2>4. Len(out) = conf.batch * conf.n
    BY <1>3, <1>5, <2>1
  <2>5. \A i \in 1 .. conf.batch * conf.n :
           \E y : out[i] = [response |-> y] /\ y[1] = Repeat(batch, conf.n)[i].prompt
    BY <1>3, <2>3
  <2>6. BatchInv' /\ ScoredInv' /\ conf' = conf /\ stage' = "old_log_prob" /\ ready' \in BOOLEAN
    BY <1>1, <1>2, <2>4, <2>5, ResponsesInv
  <2>7. \A r \in Ranks : at[r] = "idle"
    BY <1>1 DEF IInv, Uncalled
  <2>8. at' = [r \in Ranks |-> "idle"] /\ DOMAIN at' = Ranks
    BY <1>1, <2>7 DEF IInv, Typed, workers
  <2>9. DOMAIN data' = Ranks /\ DOMAIN minis' = Ranks /\ DOMAIN todo' = Ranks /\ DOMAIN ran' = Ranks
    BY <1>1 DEF IInv, Typed, workers
  <2>10. stage' \in Stages
    BY <2>6 DEF Stages
  <2>11. IInv'
    BY <2>6, <2>8, <2>9, <2>10, IdleInv
  <2> QED
    BY <2>6, <2>11
<1> QED
  BY <1>6, <1>7

\* Both log probabilities are put in the rows whose responses they are of.
LEMMA LogProbsInv ==
    ASSUME IInv, NEW s \in {"old_log_prob", "ref_log_prob"}, Collect(s),
           batch' = Union(batch, Collected), stage' \in {"ref_log_prob", "adv"},
           conf' = conf, scored' = scored, reward' = reward, ready' = ready
    PROVE  IInv'
<1>1. /\ stage = s /\ ~Generating /\ stage # "raised"
      /\ at' = [r \in Ranks |-> "idle"] /\ data' = [r \in Ranks |-> <<>>]
      /\ minis' = minis /\ todo' = todo /\ ran' = ran
  BY DEF Collect, Generating
<1>2. PICK len \in Nat : /\ len = Len(batch) /\ IsSeq(batch)
                         /\ \A i \in 1 .. len : Aligned(batch[i])
                         /\ len = conf.batch * conf.n
                         /\ \A i \in 1 .. len : reward[i] = <<batch[i].prompt, batch[i].response>>
  BY <1>1, SeqFacts DEF IInv, BatchInv
<1>3. Collected = Logs(batch)
  BY <1>1, CollectedFacts, InvFacts, SentFacts DEF Result
<1>4. \A i \in 1 .. len : Collected[i] = LogProb(batch[i].response)
  BY <1>2, <1>3, LogsFacts
<1>5. /\ IsSeq(batch') /\ Len(batch') = len
      /\ \A i \in 1 .. len : batch'[i] = Joined(batch[i], Collected[i])
  BY <1>2, UnionFacts
<1>6. ASSUME NEW i \in 1 .. len
      PROVE  /\ Aligned(batch'[i])
             /\ batch'[i].prompt = batch[i].prompt /\ batch'[i].response = batch[i].response
  <2>1. Aligned(batch[i]) /\ DOMAIN batch[i] = Columns
    BY <1>2 DEF Aligned
  <2>2. PICK y : y = batch[i].response
    OBVIOUS
  <2>3. batch'[i] = [batch[i] EXCEPT !.old = y] \/ batch'[i] = [batch[i] EXCEPT !.ref = y]
    <3>1. Joined(batch[i], [old |-> y]) = [batch[i] EXCEPT !.old = y]
      BY <2>1, JoinedFacts
    <3>2. Joined(batch[i], [ref |-> y]) = [batch[i] EXCEPT !.ref = y]
      BY <2>1, JoinedFacts
    <3>3. Collected[i] \in {[old |-> y], [ref |-> y]}
      BY <1>4, <2>2 DEF LogProb
    <3> QED
      BY <1>5, <3>1, <3>2, <3>3
  <2> QED
    BY <2>1, <2>2, <2>3 DEF Aligned, Columns
<1>7. BatchInv'
  <2>1. \A i \in 1 .. Len(batch') : Aligned(batch'[i])
    BY <1>5, <1>6
  <2>2. \A i \in 1 .. Len(batch') : reward'[i] = <<batch'[i].prompt, batch'[i].response>>
    BY <1>2, <1>5, <1>6
  <2>3. ~Generating'
    BY DEF Generating
  <2> QED
    BY <1>2, <1>5, <2>1, <2>2, <2>3 DEF BatchInv
<1>8. ScoredInv'
  BY DEF IInv, ScoredInv
<1>9. DOMAIN at' = Ranks /\ DOMAIN data' = Ranks /\ DOMAIN minis' = Ranks /\ DOMAIN todo' = Ranks /\ DOMAIN ran' = Ranks
  BY <1>1 DEF IInv, Typed
<1>10. stage' \in Stages /\ ready' \in BOOLEAN
  BY DEF IInv, Typed, Stages
<1> QED
  BY <1>1, <1>7, <1>8, <1>9, <1>10, IdleInv

LEMMA AdvantageInv ==
    ASSUME IInv, Advantage
    PROVE  IInv'
<1>1. /\ stage = "adv" /\ ~Generating /\ ~Remote /\ stage # "raised" /\ stage' = "update_actor"
      /\ batch' = [i \in DOMAIN batch |-> [batch[i] EXCEPT !.score = reward[i]]]
      /\ UNCHANGED <<conf, scored, reward, ready, workers>>
  BY DEF Advantage, Generating, Remote
<1>2. PICK len \in Nat : /\ len = Len(batch) /\ DOMAIN batch = 1 .. len
                         /\ \A i \in 1 .. len : Aligned(batch[i])
                         /\ len = conf.batch * conf.n
                         /\ \A i \in 1 .. len : reward[i] = <<batch[i].prompt, batch[i].response>>
  BY <1>1, SeqFacts DEF IInv, BatchInv
<1>3. /\ IsSeq(batch') /\ Len(batch') = len
      /\ \A i \in 1 .. len : batch'[i] = [batch[i] EXCEPT !.score = reward[i]]
  <2>1. batch' = [i \in 1 .. len |-> batch'[i]]
    BY <1>1, <1>2
  <2>2. IsSeq(batch') /\ Len(batch') = len
    BY <2>1, FunctionIsSeq
  <2> QED
    BY <1>1, <1>2, <2>2
<1>4. ASSUME NEW i \in 1 .. len
      PROVE  /\ Aligned(batch'[i])
             /\ batch'[i].prompt = batch[i].prompt /\ batch'[i].response = batch[i].response
  BY <1>2, <1>3 DEF Aligned, Columns
<1>5. BatchInv'
  <2>1. \A i \in 1 .. Len(batch') : Aligned(batch'[i])
    BY <1>3, <1>4
  <2>2. \A i \in 1 .. Len(batch') : reward'[i] = <<batch'[i].prompt, batch'[i].response>>
    BY <1>1, <1>2, <1>3, <1>4
  <2>3. ~Generating'
    BY <1>1 DEF Generating
  <2> QED
    BY <1>1, <1>2, <1>3, <2>1, <2>2, <2>3 DEF BatchInv
<1>6. ScoredInv'
  BY <1>1 DEF IInv, ScoredInv
<1>7. \A r \in Ranks : at[r] = "idle"
  BY <1>1 DEF IInv, Uncalled
<1>8. at' = [r \in Ranks |-> "idle"] /\ DOMAIN at' = Ranks
  BY <1>1, <1>7 DEF IInv, Typed, workers
<1>9. DOMAIN data' = Ranks /\ DOMAIN minis' = Ranks /\ DOMAIN todo' = Ranks /\ DOMAIN ran' = Ranks
  BY <1>1 DEF IInv, Typed, workers
<1>10. stage' \in Stages /\ ready' \in BOOLEAN
  BY <1>1 DEF IInv, Typed, Stages
<1> QED
  BY <1>1, <1>5, <1>6, <1>8, <1>9, <1>10, IdleInv

LEMMA UpdatedInv ==
    ASSUME IInv, Updated
    PROVE  IInv'
<1>1. /\ stage = "update_actor" /\ stage' = "done"
      /\ UNCHANGED <<conf, batch, scored, reward, ready>>
      /\ at' = [r \in Ranks |-> "idle"] /\ data' = [r \in Ranks |-> <<>>]
      /\ minis' = minis /\ todo' = todo /\ ran' = ran
  BY DEF Updated, Collect
<1>2. BatchInv' /\ ScoredInv'
  BY <1>1 DEF IInv, BatchInv, ScoredInv, Generating
<1>3. DOMAIN at' = Ranks /\ DOMAIN data' = Ranks /\ DOMAIN minis' = Ranks /\ DOMAIN todo' = Ranks /\ DOMAIN ran' = Ranks
  BY <1>1 DEF IInv, Typed
<1>4. stage' \in Stages /\ ready' \in BOOLEAN
  BY <1>1 DEF IInv, Typed, Stages
<1> QED
  BY <1>1, <1>2, <1>3, <1>4, IdleInv

\* The steps that change neither the call nor the ranks.
LEMMA QuietInv ==
    ASSUME IInv, UNCHANGED <<conf, stage, batch, scored, reward, workers>>, ready' \in BOOLEAN
    PROVE  IInv'
<1>1. Typed' /\ Uncalled'
  BY DEF IInv, Typed, Uncalled, workers, Ranks, Remote, Generating
<1>2. BatchInv' /\ ScoredInv'
  BY DEF IInv, BatchInv, ScoredInv, Generating
<1>3. \A r : DataAt(r)' = DataAt(r)
  BY DEF workers, DataAt, CanChunk, Mine, Ours, Final, Each, Result, Responses, Logs, LogProb, Times,
         GroupSize, Sent, ValRows, Computing, Remote, Generating, PromptCopies, ResponsesToPrompt, Part
<1>4. \A r : LogAt(r)' = LogAt(r)
  BY DEF workers, LogAt, Dynamic
<1>5. DataInv' /\ LogInv'
  BY <1>3, <1>4 DEF IInv, DataInv, LogInv, Remote, Generating, Logging, Ranks
<1> QED
  BY <1>1, <1>2, <1>5 DEF IInv

--------------------------------------------------------------------------------
(* The invariant of the specification *)

LEMMA NextInv ==
    ASSUME IInv, [Next]_vars
    PROVE  IInv'
<1>1. CASE Dispatch
  BY <1>1, DispatchInv
<1>2. CASE Validated
  BY <1>2, ValidatedInv
<1>3. CASE Generated
  BY <1>3, GeneratedInv
<1>4. CASE OfflineResponses
  BY <1>4, OfflineInv
<1>5. CASE OldLogProbs
  BY <1>5, LogProbsInv DEF OldLogProbs
<1>6. CASE RefLogProbs
  BY <1>6, LogProbsInv DEF RefLogProbs
<1>7. CASE Advantage
  BY <1>7, AdvantageInv
<1>8. CASE Updated
  BY <1>8, UpdatedInv
<1>9. CASE Rearrange
  BY <1>9, RearrangeInv
<1>10. CASE Forward
  BY <1>10, ForwardInv
<1>11. CASE OptimizerStep
  BY <1>11, OptimizerStepInv
<1>12. ASSUME NEW r \in Ranks, Gather(r)
       PROVE  IInv'
  BY <1>12, GatherInv
<1>13. ASSUME NEW r \in Ranks, Generate(r)
       PROVE  IInv'
  <2>1. CASE PromptCopies = ResponsesToPrompt
    BY <1>13, <2>1, GenerateInv
  <2>2. CASE PromptCopies # ResponsesToPrompt
    BY <1>13, <2>2, RaiseInv DEF Generate
  <2> QED
    BY <2>1, <2>2
<1>14. ASSUME NEW r \in Ranks, Split(r)
       PROVE  IInv'
  BY <1>14, SplitInv
<1>15. ASSUME NEW r \in Ranks, Return(r)
       PROVE  IInv'
  BY <1>15, ReturnInv
<1>16. CASE RewardComputed
  BY <1>16, QuietInv DEF RewardComputed
<1>17. CASE UNCHANGED vars
  <2>1. UNCHANGED <<conf, stage, batch, scored, reward, workers>> /\ ready' = ready
    BY <1>17 DEF vars, driver
  <2>2. ready' \in BOOLEAN
    BY <2>1 DEF IInv, Typed
  <2> QED
    BY <2>1, <2>2, QuietInv
<1> QED
  BY <1>1, <1>2, <1>3, <1>4, <1>5, <1>6, <1>7, <1>8, <1>9, <1>10, <1>11, <1>12, <1>13, <1>14,
     <1>15, <1>16, <1>17, Zenon DEF Next, Driver, Worker

\* The invariant of the steps: the rows a rank has are those it was sent, its group's or the
\* results for them, whatever micro-batches they were cut into, and the driver's batch has
\* every column in its row.
THEOREM Invariant == Spec => []IInv
BY InitInv, NextInv, PTL DEF Spec

LEMMA AlignedRows ==
    ASSUME IInv
    PROVE  RowsAligned
<1>1. DOMAIN batch = 1 .. Len(batch) /\ \A i \in 1 .. Len(batch) : Aligned(batch[i])
  BY SeqFacts DEF IInv, BatchInv
<1>2. \A i \in DOMAIN batch :
          /\ batch[i].response # None => batch[i].response[1] = batch[i].prompt
          /\ batch[i].old # None => batch[i].old = batch[i].response
          /\ batch[i].ref # None => batch[i].ref = batch[i].response
          /\ batch[i].score # None => batch[i].score = <<batch[i].prompt, batch[i].response>>
  BY <1>1, Zenon DEF Aligned
<1>3. ASSUME scored # None
      PROVE  /\ Len(scored) = conf.val * conf.valN
             /\ \A i \in DOMAIN scored : scored[i].response[1] = scored[i].prompt
  <2>1. /\ IsSeq(scored) /\ Len(scored) = conf.val * conf.valN
        /\ \A i \in 1 .. Len(scored) : scored[i].response[1] = scored[i].prompt
    BY <1>3, Zenon DEF IInv, ScoredInv
  <2>2. DOMAIN scored = 1 .. Len(scored)
    BY <2>1, SeqFacts
  <2> QED
    BY <2>1, <2>2
<1> QED
  BY <1>2, <1>3, Zenon DEF RowsAligned

\* Whatever the ranks, the groups, the responses to a prompt and the splits into
\* micro-batches: what union puts next to a prompt (protocol.py:104-125) is its response, and
\* next to a response its log probabilities and its score; and validation scores the rows of
\* the test set, each with an answer to its prompt.
THEOREM RowsStayAligned == Spec => []RowsAligned
<1>1. IInv => RowsAligned
  BY AlignedRows
<1> QED
  BY <1>1, Invariant, PTL

--------------------------------------------------------------------------------
(* What makes a step fail *)

\* chunk fails for the batch to generate from only.
LEMMA DispatchRaises ==
    ASSUME IInv, Dispatch, stage' = "raised"
    PROVE  conf' = conf /\ ~conf.offline /\ conf.batch % conf.world # 0
<1>1. Remote /\ ~(stage = "generate" /\ conf.offline) /\ stage # "raised"
  BY DEF Dispatch, Remote, Generating
<1>2. ~CanChunk(Sent, conf.world) /\ Raise
  BY <1>1 DEF Dispatch, driver
<1>3. conf \in Configs /\ IsSeq(batch)
  BY InvFacts
<1>4. stage # "validate" /\ Sent = batch
  BY <1>2, <1>3, SentFacts
<1>5. Len(batch) % conf.world # 0
  BY <1>2, <1>4 DEF CanChunk
<1>6. Generating
  <2>1. SUFFICES ASSUME ~Generating PROVE FALSE
    OBVIOUS
  <2>2. Len(batch) = conf.batch * conf.n
    BY <1>1, <2>1 DEF IInv, BatchInv
  <2>3. (conf.batch * conf.n) % conf.world = 0
    BY <1>3, ConfFacts
  <2> QED
    BY <1>5, <2>2, <2>3, Zenon
<1>7. Len(batch) = conf.batch
  BY <1>6, RepeatedFacts
<1>8. stage = "generate"
  BY <1>4, <1>6 DEF Generating
<1> QED
  BY <1>1, <1>2, <1>5, <1>7, <1>8 DEF Raise

\* Prompts and responses differ in number in sampled validation only.
LEMMA GenerateRaises ==
    ASSUME IInv, NEW r \in Ranks, Generate(r), stage' = "raised"
    PROVE  conf' = conf /\ conf.n > 1 /\ conf.sampled
<1>1. PromptCopies # ResponsesToPrompt /\ Raise
  BY DEF Generate, driver, Generating
<1>2. conf.n \in Nat \ {0}
  BY InvFacts, ConfFacts
<1>3. conf.n # 1 /\ conf.sampled
  BY <1>1 DEF PromptCopies, ResponsesToPrompt
<1> QED
  BY <1>1, <1>2, <1>3 DEF Raise

LEMMA NextRaises ==
    ASSUME IInv, OnlyTheseRaise, [Next]_vars
    PROVE  OnlyTheseRaise'
<1>1. SUFFICES ASSUME stage' = "raised"
               PROVE  /\ conf' = conf
                      /\ \/ ~conf.offline /\ conf.batch % conf.world # 0
                         \/ conf.n > 1 /\ (conf.sampled \/ conf.offline)
  BY DEF OnlyTheseRaise
<1>2. CASE Dispatch
  BY <1>1, <1>2, DispatchRaises
<1>3. CASE Generated
  BY <1>1, <1>3, GeneratedInv
<1>4. CASE OfflineResponses
  BY <1>1, <1>4, OfflineInv
<1>5. ASSUME NEW r \in Ranks, Generate(r)
      PROVE  conf' = conf /\ conf.n > 1 /\ conf.sampled
  BY <1>1, <1>5, GenerateRaises
<1>6. CASE Validated \/ OldLogProbs \/ RefLogProbs \/ Advantage \/ Updated
  BY <1>1, <1>6 DEF Validated, OldLogProbs, RefLogProbs, Advantage, Updated
<1>7. CASE Rearrange \/ Forward \/ OptimizerStep \/ \E r \in Ranks : Gather(r) \/ Split(r) \/ Return(r)
  <2>1. UNCHANGED driver /\ stage # "raised"
    BY <1>7 DEF Rearrange, Forward, OptimizerStep, Gather, Split, Return, Computing, Remote, Generating
  <2> QED
    BY <1>1, <2>1 DEF driver
<1>8. CASE RewardComputed \/ UNCHANGED vars
  BY <1>1, <1>8 DEF OnlyTheseRaise, RewardComputed, vars, driver
<1> QED
  BY <1>2, <1>3, <1>4, <1>5, <1>6, <1>7, <1>8, Zenon DEF Next, Driver, Worker

\* Of a configuration that the code accepts, a step fails at an assertion in two ways only:
\* chunk finds that the batch to generate from does not fall into equal parts
\* (protocol.py:676-681), or there are n copies of a prompt for the one response to it.
THEOREM RaisesExplained == Spec => []OnlyTheseRaise
<1>1. Init => OnlyTheseRaise
  BY DEF Init, OnlyTheseRaise
<1>2. IInv /\ OnlyTheseRaise /\ [Next]_vars => OnlyTheseRaise'
  BY NextRaises
<1> QED
  BY <1>1, <1>2, Invariant, PTL DEF Spec

--------------------------------------------------------------------------------
(* The ranks of a group *)

\* The parts of GroupInv for one rank.
SameWork(r) ==
    \A q \in Group(r) :
        /\ at[r] \in {"gathered", "running"} /\ at[q] \in {"gathered", "running"} =>
              minis[q] = minis[r]
        /\ at[r] = "running" /\ at[q] = "running" => todo[q] = todo[r]

Fresh(r) ==
    ~Dynamic /\ at[r] = "running" /\ (\E x \in Ranks : at[x] \in {"called", "gathered"}) =>
        todo[r] = Micros(r, Pieces(Len(Batch(r)), conf.micro))

LEMMA GroupParts ==
    /\ GroupInv <=> (Computing => \A r \in Ranks : SameWork(r) /\ Fresh(r))
    /\ GroupInv' <=> (Computing' => \A r \in Ranks' : SameWork(r)' /\ Fresh(r)')
<1>1. GroupInv <=> (Computing => \A r \in Ranks : SameWork(r) /\ Fresh(r))
  BY Zenon DEF GroupInv, SameWork, Fresh
<1>2. GroupInv' <=> (Computing' => \A r \in Ranks' : SameWork(r)' /\ Fresh(r)')
  BY Zenon DEF GroupInv, SameWork, Fresh
<1> QED
  BY <1>1, <1>2

\* With all ranks idle there is nothing to compare.
LEMMA GroupIdle ==
    ASSUME Ranks' = Ranks, \A r \in Ranks : at'[r] \in {"idle", "called"}
    PROVE  GroupInv'
<1>1. ASSUME NEW r \in Ranks
      PROVE  SameWork(r)' /\ Fresh(r)'
  BY <1>1 DEF SameWork, Fresh
<1> QED
  BY <1>1, GroupParts

LEMMA SameRows ==
    ASSUME IInv, Remote, NEW r \in Ranks, NEW q \in Group(r),
           at[r] \in {"gathered", "running"}, at[q] \in {"gathered", "running"}
    PROVE  data[q] = data[r]
<1>1. q \in Ranks /\ q \div GroupSize = r \div GroupSize
  BY InvFacts, GroupFacts, Zenon
<1>2. data[r] = Ours(r) /\ data[q] = Ours(q)
  BY <1>1, InvFacts DEF DataAt
<1>3. Ours(q) = Ours(r)
  BY <1>1, Zenon DEF Ours
<1> QED
  BY <1>2, <1>3

LEMMA GroupGather ==
    ASSUME IInv, GroupInv, NEW r \in Ranks, Gather(r)
    PROVE  GroupInv'
<1>1. /\ UNCHANGED driver /\ todo' = todo /\ Remote
      /\ \A q \in Group(r) : at[q] = "called"
      /\ \A q \in Ranks : /\ q \in Group(r) => at'[q] = "gathered"
                          /\ q \notin Group(r) => at'[q] = at[q] /\ minis'[q] = minis[q]
  BY DEF Gather
<1>2. Computing => \A q \in Group(r) : minis'[q] = MiniBatches(Len(Gathered(q)))
  BY Zenon DEF Gather, Computing, Group
<1>3. Computing' = Computing /\ Ranks' = Ranks /\ Dynamic' = Dynamic /\ conf' = conf
      /\ \A p : Group(p)' = Group(p)
  BY <1>1, SameCall
<1>4. SUFFICES ASSUME Computing, NEW p \in Ranks
               PROVE  SameWork(p)' /\ Fresh(p)'
  BY <1>3, GroupParts
<1>5. \A q \in Ranks : /\ q \in Group(q)
                       /\ \A x \in Group(q) : x \in Ranks /\ x \div GroupSize = q \div GroupSize
                                              /\ Group(x) = Group(q)
  BY InvFacts, GroupFacts, Zenon
<1>6. \A q \in Group(r) : Gathered(q) = Gathered(r)
  <2> SUFFICES ASSUME NEW q \in Group(r)
               PROVE  Gathered(q) = Gathered(r)
    OBVIOUS
  <2>1. First(q) = First(r)
    BY <1>5, Zenon DEF First
  <2> QED
    BY <2>1 DEF Gathered
<1>7. SameWork(p) /\ Fresh(p)
  BY <1>4, GroupParts
<1>8. CASE p \in Group(r)
  <2>1. Group(p) = Group(r)
    BY <1>5, <1>8
  <2>2. \A q \in Group(r) : minis'[q] = MiniBatches(Len(Gathered(r)))
    BY <1>2, <1>4, <1>6
  <2>3. \A q \in Group(r) : q \in Ranks /\ at'[q] = "gathered"
    BY <1>1, <1>5
  <2> QED
    BY <1>3, <1>8, <2>1, <2>2, <2>3 DEF SameWork, Fresh
<1>9. CASE p \notin Group(r)
  <2>1. \A q \in Group(p) : q \in Ranks /\ q \notin Group(r)
    <3> SUFFICES ASSUME NEW q \in Group(p), q \in Group(r)
                 PROVE  FALSE
      BY <1>5
    <3> QED
      BY <1>5, <1>9
  <2>2. \A q \in Group(p) : at'[q] = at[q] /\ minis'[q] = minis[q] /\ todo'[q] = todo[q]
    BY <1>1, <2>1
  <2>3. SameWork(p)'
    BY <1>3, <1>5, <1>7, <2>2 DEF SameWork
  <2>4. Fresh(p)'
    <3>1. SUFFICES ASSUME ~Dynamic, at[p] = "running", NEW x \in Ranks, at'[x] \in {"called", "gathered"}
                   PROVE  todo'[p] = Micros(p, Pieces(Len(Batch(p)), conf.micro))'
      BY <1>3, <1>5, <2>2 DEF Fresh
    <3>2. at[x] \in {"called", "gathered"}
      BY <1>1, <3>1
    <3>3. todo[p] = Micros(p, Pieces(Len(Batch(p)), conf.micro))
      BY <1>7, <3>1, <3>2 DEF Fresh
    <3>4. Batch(p)' = Batch(p)
      BY <1>5, <2>2 DEF Batch
    <3> QED
      BY <1>1, <1>3, <3>3, <3>4 DEF Micros, Pieces
  <2> QED
    BY <2>3, <2>4
<1> QED
  BY <1>8, <1>9

LEMMA GroupSplit ==
    ASSUME IInv, GroupInv, NEW r \in Ranks, Split(r)
    PROVE  GroupInv'
<1>1. /\ UNCHANGED driver /\ Computing /\ Remote /\ ~Dynamic /\ at[r] = "gathered"
      /\ minis' = minis /\ at' = [at EXCEPT ![r] = "running"]
      /\ todo' = [todo EXCEPT ![r] = Micros(r, Pieces(Len(Batch(r)), conf.micro))]
  BY DEF Split, Computing
<1>2. DOMAIN at = Ranks /\ DOMAIN todo = Ranks
  BY DEF IInv, Typed
<1>3. /\ Computing' = Computing /\ Ranks' = Ranks /\ Dynamic' = Dynamic /\ conf' = conf
      /\ \A p : Group(p)' = Group(p)
  BY <1>1, SameCall
<1>4. \A q \in Ranks : at'[q] = IF q = r THEN "running" ELSE at[q]
  BY <1>1, <1>2
<1>5. \A q \in Ranks : todo'[q] = IF q = r THEN Micros(r, Pieces(Len(Batch(r)), conf.micro)) ELSE todo[q]
  BY <1>1, <1>2, Zenon
<1>6. \A q \in Ranks : SameWork(q) /\ Fresh(q)
  BY <1>1, GroupParts
<1>7. \A q \in Ranks : \A x \in Group(q) : x \in Ranks /\ q \in Group(x)
  BY InvFacts, GroupFacts, Zenon
<1>8. \A q : Micros(q, Pieces(Len(Batch(q)), conf.micro))' = Micros(q, Pieces(Len(Batch(q)), conf.micro))
  BY <1>1, <1>3 DEF Micros, Pieces, Batch
\* What r starts with is what a rank of its group that has started has left.
<1>9. ASSUME NEW q \in Ranks, NEW x \in Group(q), at'[q] = "running", at'[x] = "running"
      PROVE  todo'[x] = todo'[q]
  <2>1. ASSUME NEW y \in Group(r), at[y] = "running"
        PROVE  todo[y] = Micros(r, Pieces(Len(Batch(r)), conf.micro))
    <3>1. minis[y] = minis[r] /\ y \in Ranks
      BY <1>1, <1>6, <1>7, <2>1 DEF SameWork
    <3>2. todo[y] = Micros(y, Pieces(Len(Batch(y)), conf.micro))
      BY <1>1, <1>6, <2>1, <3>1 DEF Fresh
    <3> QED
      BY <3>1, <3>2 DEF Micros, Batch
  <2>2. CASE q = r /\ x = r
    BY <2>2
  <2>3. CASE q = r /\ x # r
    BY <1>4, <1>5, <1>7, <1>9, <2>1, <2>3
  <2>4. CASE q # r /\ x = r
    BY <1>4, <1>5, <1>7, <1>9, <2>1, <2>4
  <2>5. CASE q # r /\ x # r
    BY <1>4, <1>5, <1>6, <1>7, <1>9, <2>5 DEF SameWork
  <2> QED
    BY <2>2, <2>3, <2>4, <2>5
<1>10. ASSUME NEW q \in Ranks
       PROVE  SameWork(q)' /\ Fresh(q)'
  <2>1. SameWork(q)'
    <3>1. \A x \in Group(q) :
              at'[q] \in {"gathered", "running"} /\ at'[x] \in {"gathered", "running"} => minis'[x] = minis'[q]
      BY <1>1, <1>4, <1>6, <1>7, <1>10 DEF SameWork
    <3> QED
      BY <1>3, <1>9, <1>10, <3>1 DEF SameWork
  <2>2. Fresh(q)'
    <3>1. SUFFICES ASSUME at'[q] = "running", NEW x \in Ranks, at'[x] \in {"called", "gathered"}
                   PROVE  todo'[q] = Micros(q, Pieces(Len(Batch(q)), conf.micro))
      BY <1>3, <1>8 DEF Fresh
    <3>2. at[x] \in {"called", "gathered"}
      BY <1>4, <3>1
    <3>3. CASE q = r
      BY <1>5, <3>3
    <3>4. CASE q # r
      BY <1>1, <1>4, <1>5, <1>6, <1>10, <3>1, <3>2, <3>4 DEF Fresh
    <3> QED
      BY <3>3, <3>4
  <2> QED
    BY <2>1, <2>2
<1> QED
  BY <1>3, <1>10, GroupParts

LEMMA GroupRearrange ==
    ASSUME IInv, GroupInv, Rearrange
    PROVE  GroupInv'
<1>1. /\ UNCHANGED driver /\ Computing /\ Remote /\ Dynamic /\ minis' = minis
      /\ \A r \in Ranks : at[r] = "gathered"
      /\ at' = [r \in Ranks |-> "running"]
  BY DEF Rearrange, Computing
<1>2. PICK split : todo' = [r \in Ranks |-> Micros(r, split[Rows(r, Batch(r))])]
  BY DEF Rearrange
<1>3. /\ Computing' = Computing /\ Ranks' = Ranks /\ Dynamic' = Dynamic
      /\ \A p : Group(p)' = Group(p)
  BY <1>1, SameCall
<1>4. ASSUME NEW r \in Ranks
      PROVE  SameWork(r)' /\ Fresh(r)'
  <2>1. ASSUME NEW q \in Group(r)
        PROVE  minis'[q] = minis'[r] /\ todo'[q] = todo'[r]
    <3>1. q \in Ranks
      BY InvFacts, GroupFacts, Zenon
    <3>2. minis[q] = minis[r]
      BY <1>1, <3>1, GroupParts DEF SameWork
    <3>3. data[q] = data[r]
      BY <1>1, <3>1, SameRows
    <3>4. Batch(q) = Batch(r)
      BY <3>2 DEF Batch
    <3>5. Rows(q, Batch(q)) = Rows(r, Batch(r))
      BY <3>3, <3>4 DEF Rows
    <3>6. Micros(q, split[Rows(q, Batch(q))]) = Micros(r, split[Rows(r, Batch(r))])
      BY <3>4, <3>5 DEF Micros
    <3>7. todo'[q] = Micros(q, split[Rows(q, Batch(q))]) /\ todo'[r] = Micros(r, split[Rows(r, Batch(r))])
      BY <1>2, <1>4, <3>1, Zenon
    <3> QED
      BY <1>1, <3>2, <3>6, <3>7
  <2>2. SameWork(r)'
    BY <1>3, <2>1 DEF SameWork
  <2>3. Fresh(r)'
    BY <1>1, <1>3 DEF Fresh
  <2> QED
    BY <2>2, <2>3
<1> QED
  BY <1>3, <1>4, GroupParts

LEMMA GroupForward ==
    ASSUME IInv, GroupInv, Forward
    PROVE  GroupInv'
<1>1. /\ UNCHANGED driver /\ Computing /\ at' = at /\ minis' = minis
      /\ \A r \in Ranks : at[r] = "running"
      /\ todo' = [r \in Ranks |-> Tail(todo[r])]
  BY DEF Forward
<1>2. /\ Computing' = Computing /\ Ranks' = Ranks /\ Dynamic' = Dynamic
      /\ \A p : Group(p)' = Group(p)
  BY <1>1, SameCall
<1>3. ASSUME NEW r \in Ranks
      PROVE  SameWork(r)' /\ Fresh(r)'
  <2>1. SameWork(r)
    BY <1>1, GroupParts
  <2>2. ASSUME NEW q \in Group(r)
        PROVE  minis'[q] = minis'[r] /\ todo'[q] = todo'[r]
    <3>1. q \in Ranks
      BY InvFacts, GroupFacts, Zenon
    <3>2. minis[q] = minis[r] /\ todo[q] = todo[r]
      BY <1>1, <2>1, <3>1 DEF SameWork
    <3> QED
      BY <1>1, <3>1, <3>2
  <2>3. SameWork(r)'
    BY <1>2, <2>2 DEF SameWork
  <2>4. Fresh(r)'
    BY <1>1, <1>2 DEF Fresh
  <2> QED
    BY <2>3, <2>4
<1> QED
  BY <1>2, <1>3, GroupParts

LEMMA GroupOptimizerStep ==
    ASSUME IInv, GroupInv, OptimizerStep
    PROVE  GroupInv'
<1>1. /\ UNCHANGED driver /\ Computing
      /\ \A r \in Ranks : at[r] = "running"
      /\ at' = [r \in Ranks |-> "gathered"] /\ minis' = [r \in Ranks |-> Tail(minis[r])]
  BY DEF OptimizerStep, Computing, Remote, Generating
<1>2. /\ Computing' = Computing /\ Ranks' = Ranks
      /\ \A p : Group(p)' = Group(p)
  BY <1>1, SameCall
<1>3. ASSUME NEW r \in Ranks
      PROVE  SameWork(r)' /\ Fresh(r)'
  <2>1. SameWork(r)
    BY <1>1, GroupParts
  <2>2. ASSUME NEW q \in Group(r)
        PROVE  minis'[q] = minis'[r] /\ at'[q] = "gathered"
    <3>1. q \in Ranks
      BY InvFacts, GroupFacts, Zenon
    <3>2. minis[q] = minis[r]
      BY <1>1, <2>1, <3>1 DEF SameWork
    <3> QED
      BY <1>1, <3>1, <3>2
  <2>3. SameWork(r)'
    BY <1>2, <2>2 DEF SameWork
  <2>4. Fresh(r)'
    BY <1>1 DEF Fresh
  <2> QED
    BY <2>3, <2>4
<1> QED
  BY <1>2, <1>3, GroupParts

LEMMA GroupReturn ==
    ASSUME IInv, GroupInv, NEW r \in Ranks, Return(r)
    PROVE  GroupInv'
<1>1. /\ UNCHANGED driver /\ Computing /\ todo' = todo
      /\ at' = [at EXCEPT ![r] = "finished"] /\ minis' = [minis EXCEPT ![r] = <<>>]
  BY DEF Return, Computing, Remote, Generating
<1>2. /\ Computing' = Computing /\ Ranks' = Ranks /\ Dynamic' = Dynamic /\ conf' = conf
      /\ \A p : Group(p)' = Group(p)
  BY <1>1, SameCall
<1>3. \A q \in Ranks : /\ q = r => at'[q] = "finished"
                       /\ q # r => at'[q] = at[q] /\ minis'[q] = minis[q]
  BY <1>1 DEF IInv, Typed
<1>4. ASSUME NEW p \in Ranks
      PROVE  SameWork(p)' /\ Fresh(p)'
  <2>1. SameWork(p) /\ Fresh(p)
    BY <1>1, GroupParts
  <2>2. \A q \in Group(p) : q \in Ranks
    BY InvFacts, GroupFacts, Zenon
  <2>3. SameWork(p)'
    BY <1>1, <1>2, <1>3, <2>1, <2>2 DEF SameWork
  <2>4. Fresh(p)'
    <3>1. SUFFICES ASSUME ~Dynamic, at'[p] = "running", NEW x \in Ranks, at'[x] \in {"called", "gathered"}
                   PROVE  todo'[p] = Micros(p, Pieces(Len(Batch(p)), conf.micro))'
      BY <1>2 DEF Fresh
    <3>2. at[x] \in {"called", "gathered"} /\ at[p] = "running" /\ minis'[p] = minis[p]
      BY <1>3, <3>1
    <3>3. todo[p] = Micros(p, Pieces(Len(Batch(p)), conf.micro))
      BY <2>1, <3>1, <3>2 DEF Fresh
    <3>4. Batch(p)' = Batch(p)
      BY <3>2 DEF Batch
    <3> QED
      BY <1>1, <1>2, <3>3, <3>4 DEF Micros, Pieces
  <2> QED
    BY <2>3, <2>4
<1> QED
  BY <1>2, <1>4, GroupParts

LEMMA NextGroup ==
    ASSUME IInv, GroupInv, [Next]_vars
    PROVE  GroupInv'
<1>1. CASE Dispatch
  <2>1. Ranks' = Ranks
    BY <1>1 DEF Dispatch, Raise, driver, Ranks
  <2>2. CASE stage' = "raised"
    BY <2>2, GroupParts DEF Computing, Remote, Generating
  <2>3. CASE stage' # "raised"
    BY <1>1, <2>1, <2>3, GroupIdle DEF Dispatch, Raise
  <2> QED
    BY <2>2, <2>3
<1>2. CASE Validated \/ Generated \/ OldLogProbs \/ RefLogProbs \/ Updated
  <2>1. conf' = conf /\ at' = [r \in Ranks |-> "idle"]
    BY <1>2 DEF Validated, Generated, OldLogProbs, RefLogProbs, Updated, Collect, WithResponses, Raise
  <2>2. Ranks' = Ranks /\ \A r \in Ranks : at'[r] = "idle"
    BY <2>1 DEF Ranks
  <2> QED
    BY <2>2, GroupIdle
<1>3. CASE OfflineResponses \/ Advantage
  <2>1. conf' = conf /\ at' = at /\ ~(Remote /\ ~(stage = "generate" /\ conf.offline)) /\ stage # "raised"
    BY <1>3 DEF OfflineResponses, WithResponses, Raise, Advantage, workers, Remote, Generating
  <2>2. \A r \in Ranks : at[r] = "idle"
    BY <2>1 DEF IInv, Uncalled
  <2> QED
    BY <2>1, <2>2, GroupIdle DEF Ranks
<1>4. CASE Rearrange
  BY <1>4, GroupRearrange
<1>5. CASE Forward
  BY <1>5, GroupForward
<1>6. CASE OptimizerStep
  BY <1>6, GroupOptimizerStep
<1>7. ASSUME NEW r \in Ranks, Gather(r)
      PROVE  GroupInv'
  BY <1>7, GroupGather
<1>8. ASSUME NEW r \in Ranks, Generate(r)
      PROVE  GroupInv'
  <2>1. ~Computing'
    BY <1>8 DEF Generate, Raise, driver, Computing, Remote, Generating
  <2> QED
    BY <2>1, GroupParts
<1>9. ASSUME NEW r \in Ranks, Split(r)
      PROVE  GroupInv'
  BY <1>9, GroupSplit
<1>10. ASSUME NEW r \in Ranks, Return(r)
       PROVE  GroupInv'
  BY <1>10, GroupReturn
<1>11. CASE RewardComputed \/ UNCHANGED vars
  <2>1. UNCHANGED <<conf, stage, workers>>
    BY <1>11 DEF RewardComputed, vars, driver
  <2>2. Computing' = Computing /\ Ranks' = Ranks /\ Dynamic' = Dynamic /\ GroupSize' = GroupSize
    BY <2>1 DEF Computing, Remote, Generating, Ranks, Dynamic, GroupSize
  <2>3. \A r : /\ Group(r)' = Group(r)
               /\ Micros(r, Pieces(Len(Batch(r)), conf.micro))' = Micros(r, Pieces(Len(Batch(r)), conf.micro))
    BY <2>1, <2>2 DEF Group, Micros, Pieces, Batch, workers
  <2>4. \A r : (SameWork(r) /\ Fresh(r))' = (SameWork(r) /\ Fresh(r))
    BY <2>1, <2>2, <2>3 DEF SameWork, Fresh, workers
  <2> QED
    BY <2>2, <2>4, GroupParts
<1> QED
  BY <1>1, <1>2, <1>3, <1>4, <1>5, <1>6, <1>7, <1>8, <1>9, <1>10, <1>11, Zenon
  DEF Next, Driver, Worker

LEMMA GroupsAtWork ==
    ASSUME IInv, GroupInv
    PROVE  GroupsAgree
<1>1. SUFFICES ASSUME Computing, \A r \in Ranks : at[r] = "running", NEW r \in Ranks, NEW q \in Group(r)
               PROVE  todo[q] = todo[r] /\ data[q] = data[r]
  BY DEF GroupsAgree, Rows
<1>2. q \in Ranks
  BY InvFacts, GroupFacts, Zenon
<1> QED
  BY <1>1, <1>2, SameRows DEF GroupInv, Computing

\* The ranks of a sequence parallel group run the same rows in the same micro-batches,
\* whenever all of them compute: with a fixed size, as each cuts equal mini-batches by itself
\* and none runs before the last has (dp_actor.py), with a dynamic one, as the split depends
\* on the rows alone (rearrange_micro_batches).
THEOREM GroupsWorkAlike == Spec => []GroupsAgree
<1>1. Init => GroupInv
  BY DEF Init, GroupInv, Computing, Remote, Generating
<1>2. IInv /\ GroupInv /\ [Next]_vars => GroupInv'
  BY NextGroup
<1>3. IInv /\ GroupInv => GroupsAgree
  BY GroupsAtWork
<1> QED
  BY <1>1, <1>2, <1>3, Invariant, PTL DEF Spec

--------------------------------------------------------------------------------
(* Bags of rows *)

\* Where a sequence has x.
Spots(s, x) == {i \in DOMAIN s : s[i] = x}

\* The bag of what a sequence lists.
BagOf(s) == [x \in Range(s) |-> Cardinality(Spots(s, x))]

LEMMA BagOfNothing == BagOf(<<>>) = EmptyBag
<1>1. DOMAIN <<>> = {} /\ Range(<<>>) = {}
  BY DEF Range
<1> QED
  BY <1>1 DEF BagOf, EmptyBag, SetToBag

LEMMA SpotsFacts ==
    ASSUME NEW s, IsSeq(s), NEW x
    PROVE  /\ IsFiniteSet(Spots(s, x)) /\ Cardinality(Spots(s, x)) \in Nat
           /\ Spots(s, x) \in SUBSET (1 .. Len(s))
           /\ x \in Range(s) <=> Cardinality(Spots(s, x)) # 0
<1>1. PICK n \in Nat : n = Len(s) /\ DOMAIN s = 1 .. n
  BY SeqFacts
<1>2. Spots(s, x) \in SUBSET (1 .. n)
  BY <1>1 DEF Spots
<1>3. IsFiniteSet(1 .. n)
  BY FS_Interval
<1>4. IsFiniteSet(Spots(s, x))
  BY <1>2, <1>3, FS_Subset
<1>5. x \in Range(s) <=> Spots(s, x) # {}
  BY DEF Range, Spots
<1> QED
  BY <1>1, <1>2, <1>4, <1>5, FS_CardinalityType, FS_EmptySet

LEMMA SpotsJoined ==
    ASSUME NEW s, NEW t, IsSeq(s), IsSeq(t), NEW x
    PROVE  Cardinality(Spots(s \o t, x)) = Cardinality(Spots(s, x)) + Cardinality(Spots(t, x))
<1>1. PICK a \in Nat, b \in Nat : a = Len(s) /\ b = Len(t) /\ DOMAIN s = 1 .. a /\ DOMAIN t = 1 .. b
  BY SeqFacts
<1>2. PICK u : /\ u = s \o t /\ DOMAIN u = 1 .. a + b
               /\ \A i \in 1 .. a : u[i] = s[i]
               /\ \A i \in 1 .. b : u[a + i] = t[i]
  <2>1. PICK u : u = s \o t
    OBVIOUS
  <2>2. /\ IsSeq(u) /\ Len(u) = Len(s) + Len(t)
        /\ \A i \in 1 .. Len(s) : u[i] = s[i]
        /\ \A i \in 1 .. Len(t) : u[Len(s) + i] = t[i]
    BY <2>1, ConcatFacts
  <2>3. DOMAIN u = 1 .. Len(u)
    BY <2>2, SeqFacts
  <2> QED
    BY <1>1, <2>1, <2>2, <2>3
<1> DEFINE S == Spots(s, x)
           T == Spots(t, x)
           M == {a + j : j \in T}
<1>3. S \subseteq 1 .. a /\ T \subseteq 1 .. b
  BY <1>1 DEF Spots
<1>4. Spots(u, x) = S \cup M
  <2>1. ASSUME NEW i \in Spots(u, x) PROVE i \in S \cup M
    <3>1. i \in 1 .. a + b /\ u[i] = x
      BY <1>2 DEF Spots
    <3>2. CASE i <= a
      <4>1. i \in 1 .. a
        BY <3>1, <3>2
      <4> QED
        BY <1>1, <1>2, <3>1, <4>1 DEF Spots
    <3>3. CASE ~(i <= a)
      <4>1. i - a \in 1 .. b /\ i = a + (i - a)
        BY <3>1, <3>3
      <4>2. i - a \in T
        BY <1>1, <1>2, <3>1, <4>1 DEF Spots
      <4> QED
        BY <4>1, <4>2
    <3> QED
      BY <3>2, <3>3
  <2>2. ASSUME NEW i \in S PROVE i \in Spots(u, x)
    <3>1. i \in 1 .. a /\ s[i] = x /\ i \in 1 .. a + b
      BY <1>1 DEF Spots
    <3> QED
      BY <1>2, <3>1 DEF Spots
  <2>3. ASSUME NEW j \in T PROVE a + j \in Spots(u, x)
    <3>1. j \in 1 .. b /\ t[j] = x /\ a + j \in 1 .. a + b
      BY <1>1 DEF Spots
    <3> QED
      BY <1>2, <3>1 DEF Spots
  <2> QED
    BY <2>1, <2>2, <2>3
<1>5. S \cap M = {}
  BY <1>3
<1>6. IsFiniteSet(S) /\ IsFiniteSet(T) /\ Cardinality(S) \in Nat /\ Cardinality(T) \in Nat
  BY SpotsFacts
<1>7. IsFiniteSet(M) /\ Cardinality(M) = Cardinality(T)
  <2> DEFINE f == [j \in T |-> a + j]
  <2>1. f \in [T -> M] /\ \A j, l \in T : f[j] = f[l] => j = l
    BY <1>3
  <2>2. \A m \in M : \E j \in T : f[j] = m
    OBVIOUS
  <2>3. f \in Bijection(T, M)
    <3> HIDE DEF f, T, M
    <3> QED
      BY <2>1, <2>2, Fun_IsBij
  <2>4. ExistsBijection(T, M)
    BY <2>3 DEF ExistsBijection
  <2> HIDE DEF f, T, M
  <2> QED
    BY <1>6, <2>4, FS_Bijection
<1>8. Cardinality(S \cup M) = Cardinality(S) + Cardinality(M) - Cardinality(S \cap M)
  <2> HIDE DEF S, T, M
  <2> QED
    BY <1>6, <1>7, FS_Union
<1>9. Cardinality(S \cap M) = 0
  <2> HIDE DEF S, T, M
  <2> QED
    BY <1>5, FS_EmptySet
<1> HIDE DEF S, T, M
<1>10. Cardinality(S \cup M) = Cardinality(S) + Cardinality(T)
  BY <1>6, <1>7, <1>8, <1>9
<1> QED
  BY <1>2, <1>4, <1>10 DEF S, T

LEMMA BagJoined ==
    ASSUME NEW s, NEW t, IsSeq(s), IsSeq(t)
    PROVE  BagOf(s) (+) BagOf(t) = BagOf(s \o t)
<1>1. PICK f, g, h : f = BagOf(s) /\ g = BagOf(t) /\ h = BagOf(s \o t)
  OBVIOUS
<1>2. Range(s \o t) = Range(s) \cup Range(t) /\ IsSeq(s \o t)
  BY ConcatFacts
<1>3. /\ DOMAIN f = Range(s) /\ DOMAIN g = Range(t) /\ DOMAIN h = Range(s) \cup Range(t)
      /\ h = [x \in Range(s) \cup Range(t) |-> h[x]]
  BY <1>1, <1>2 DEF BagOf
<1>4. ASSUME NEW x \in Range(s) \cup Range(t)
      PROVE  h[x] = (IF x \in DOMAIN f THEN f[x] ELSE 0) + (IF x \in DOMAIN g THEN g[x] ELSE 0)
  <2>1. PICK a \in Nat, b \in Nat : /\ a = Cardinality(Spots(s, x)) /\ b = Cardinality(Spots(t, x))
                                    /\ x \in Range(s) <=> a # 0
                                    /\ x \in Range(t) <=> b # 0
    BY SpotsFacts
  <2>2. h[x] = a + b
    BY <1>1, <1>2, <2>1, SpotsJoined DEF BagOf
  <2>3. (x \in Range(s) => f[x] = a) /\ (x \in Range(t) => g[x] = b)
    BY <1>1, <2>1 DEF BagOf
  <2> QED
    BY <1>3, <2>1, <2>2, <2>3
<1>5. f (+) g = [x \in (DOMAIN f) \cup (DOMAIN g) |->
                    (IF x \in DOMAIN f THEN f[x] ELSE 0) + (IF x \in DOMAIN g THEN g[x] ELSE 0)]
  BY DEF (+)
<1>6. f (+) g = h
  BY <1>3, <1>4, <1>5
<1> QED
  BY <1>1, <1>6

\* A bag has as many elements as the sequence has entries.
LEMMA BagSize ==
    ASSUME NEW s, IsSeq(s)
    PROVE  Cardinality(Terms(BagOf(s))) = Len(s)
<1>1. PICK n \in Nat : n = Len(s) /\ DOMAIN s = 1 .. n
  BY SeqFacts
<1> DEFINE T == Terms(BagOf(s))
           order(x) == InOrder(Spots(s, x))
           f == [t \in T |-> order(t[1])[t[2]]]
<1>2. ASSUME NEW x
      PROVE  /\ Lists(order(x), Spots(s, x)) /\ Len(order(x)) = Cardinality(Spots(s, x))
             /\ Spots(s, x) \subseteq 1 .. n /\ \A i \in Spots(s, x) : s[i] = x
  <2>1. Spots(s, x) \in SUBSET (1 .. n) /\ Cardinality(Spots(s, x)) \in Nat
    BY <1>1, SpotsFacts
  <2>2. Lists(order(x), Spots(s, x))
    BY <2>1, InOrderFacts
  <2>3. PICK c \in Nat : c = Cardinality(Spots(s, x))
    BY <2>1
  <2>4. DOMAIN InOrder(Spots(s, x)) = 1 .. Cardinality(Spots(s, x))
    BY DEF InOrder
  <2>5. Len(order(x)) = c
    <3>1. Len(order(x)) \in Nat /\ DOMAIN order(x) = 1 .. Len(order(x))
      <4> HIDE DEF order
      <4> QED
        BY <2>2, SeqFacts DEF Lists
    <3>2. 1 .. Len(order(x)) = 1 .. c
      BY <2>3, <2>4, <3>1
    <3> HIDE DEF order
    <3> QED
      BY <2>3, <3>1, <3>2
  <2>6. \A i \in Spots(s, x) : s[i] = x
    BY DEF Spots
  <2> HIDE DEF order
  <2> QED
    BY <1>1, <2>1, <2>2, <2>3, <2>5, <2>6
<1>3. \A t : t \in T <=> \E x \in Range(s) : \E c \in 1 .. Cardinality(Spots(s, x)) : t = <<x, c>>
  BY DEF Terms, BagOf
<1> HIDE DEF order, T
<1>4. \A t \in T : /\ t[1] \in Range(s) /\ t[2] \in 1 .. Cardinality(Spots(s, t[1])) /\ t = <<t[1], t[2]>>
                   /\ order(t[1])[t[2]] \in Spots(s, t[1])
  <2> SUFFICES ASSUME NEW t \in T
               PROVE  /\ t[1] \in Range(s) /\ t[2] \in 1 .. Cardinality(Spots(s, t[1])) /\ t = <<t[1], t[2]>>
                      /\ order(t[1])[t[2]] \in Spots(s, t[1])
    OBVIOUS
  <2>1. PICK x \in Range(s) : \E c \in 1 .. Cardinality(Spots(s, x)) : t = <<x, c>>
    BY <1>3
  <2>2. PICK c \in 1 .. Cardinality(Spots(s, x)) : t = <<x, c>>
    BY <2>1
  <2>3. order(x)[c] \in Spots(s, x)
    BY <1>2 DEF Lists
  <2> QED
    BY <2>1, <2>2, <2>3
<1>5. f \in [T -> 1 .. n]
  BY <1>2, <1>4
<1>6. ASSUME NEW t \in T, NEW u \in T, f[t] = f[u] PROVE t = u
  <2>1. order(t[1])[t[2]] = order(u[1])[u[2]]
    BY <1>6
  <2>2. t[1] = u[1]
    BY <1>2, <1>4, <2>1
  <2>3. t[2] = u[2]
    BY <1>2, <1>4, <2>1, <2>2 DEF Lists
  <2> QED
    BY <1>4, <2>2, <2>3
<1>7. ASSUME NEW i \in 1 .. n PROVE \E t \in T : f[t] = i
  <2>1. PICK x : x = s[i] /\ x \in Range(s) /\ i \in Spots(s, x)
    BY <1>1 DEF Spots, Range
  <2>2. PICK c \in 1 .. Cardinality(Spots(s, x)) : order(x)[c] = i
    BY <1>2, <2>1 DEF Lists
  <2>3. <<x, c>> \in T
    BY <1>3, <2>1, <2>2
  <2>4. f[<<x, c>>] = order(x)[c]
    BY <2>3
  <2> QED
    BY <2>2, <2>3, <2>4
<1>8. f \in Injection(T, 1 .. n) /\ f \in Surjection(T, 1 .. n)
  <2> HIDE DEF f
  <2> QED
    BY <1>5, <1>6, <1>7, Fun_IsInj, Fun_IsSurj
<1>9. IsFiniteSet(1 .. n) /\ Cardinality(1 .. n) = n
  BY FS_Interval
<1>10. Cardinality(T) = Cardinality(1 .. n)
  <2> HIDE DEF f
  <2> QED
    BY <1>8, <1>9, FS_Injection
<1> QED
  BY <1>1, <1>9, <1>10 DEF T

LEMMA TermsFacts ==
    ASSUME NEW s
    PROVE  \A t : t \in Terms(BagOf(s)) <=>
                     \E x \in Range(s) : \E c \in 1 .. Cardinality(Spots(s, x)) : t = <<x, c>>
BY DEF Terms, BagOf

\* A response that one entry has makes one term; one that no entry has makes none.
LEMMA OneTerm ==
    ASSUME NEW s, IsSeq(s), NEW y
    PROVE  /\ (\A i \in 1 .. Len(s) : s[i].response # y) =>
                 \A t \in Terms(BagOf(s)) : t[1].response # y
           /\ \A d \in 1 .. Len(s) :
                 s[d].response = y /\ (\A i \in 1 .. Len(s) : s[i].response = y => i = d) =>
                    /\ <<s[d], 1>> \in Terms(BagOf(s))
                    /\ \A t \in Terms(BagOf(s)) : t[1].response = y => t = <<s[d], 1>>
<1>1. DOMAIN s = 1 .. Len(s)
  BY SeqFacts
<1>2. \A t \in Terms(BagOf(s)) :
         \E i \in 1 .. Len(s) : \E c \in 1 .. Cardinality(Spots(s, s[i])) : t = <<s[i], c>>
  BY <1>1, TermsFacts DEF Range
<1>3. ASSUME \A i \in 1 .. Len(s) : s[i].response # y, NEW t \in Terms(BagOf(s))
      PROVE  t[1].response # y
  BY <1>2, <1>3
<1>4. ASSUME NEW d \in 1 .. Len(s), s[d].response = y,
             \A i \in 1 .. Len(s) : s[i].response = y => i = d
      PROVE  /\ <<s[d], 1>> \in Terms(BagOf(s))
             /\ \A t \in Terms(BagOf(s)) : t[1].response = y => t = <<s[d], 1>>
  <2>1. Spots(s, s[d]) = {d}
    BY <1>1, <1>4 DEF Spots
  <2>2. Cardinality(Spots(s, s[d])) = 1
    BY <2>1, FS_Singleton
  <2>3. <<s[d], 1>> \in Terms(BagOf(s))
    BY <1>1, <2>2, TermsFacts DEF Range
  <2>4. ASSUME NEW t \in Terms(BagOf(s)), t[1].response = y PROVE t = <<s[d], 1>>
    <3>1. PICK i \in 1 .. Len(s) : \E c \in 1 .. Cardinality(Spots(s, s[i])) : t = <<s[i], c>>
      BY <1>2
    <3>2. PICK c \in 1 .. Cardinality(Spots(s, s[i])) : t = <<s[i], c>>
      BY <3>1
    <3>3. i = d
      BY <1>4, <2>4, <3>2
    <3> QED
      BY <2>2, <3>2, <3>3
  <2> QED
    BY <2>3, <2>4
<1> QED
  BY <1>3, <1>4

--------------------------------------------------------------------------------
(* The mini-batches of the update *)

\* Piece g has k rows or what is left of the rows.
Runs(piece, len, k, g) ==
    \E a \in Nat, b \in Nat :
        /\ a = (g - 1) * k /\ a < len /\ a + k = g * k /\ b = Smaller(a + k, len) /\ a <= b
        /\ piece = [i \in 1 .. b - a |-> a + i]

LEMMA PieceEntries ==
    ASSUME NEW len \in Nat, NEW k \in Nat \ {0}, NEW g \in 1 .. PieceCount(len, k)
    PROVE  Runs(Pieces(len, k)[g], len, k, g)
<1>1. PICK all \in Nat : /\ all = PieceCount(len, k) /\ \A c \in Nat : c < all => c * k < len
  BY PieceCountFacts
<1>2. g - 1 \in Nat /\ g - 1 < all
  BY <1>1
<1>3. PICK a \in Nat : a = (g - 1) * k /\ a < len /\ a + k = g * k
  <2>1. (g - 1) * k \in Nat /\ (g - 1) * k < len
    BY <1>1, <1>2
  <2>2. (g - 1) * k + k = g * k
    OBVIOUS
  <2> QED
    BY <2>1, <2>2
<1>4. IsPiece(Pieces(len, k)[g], len, k, g)
  BY PiecesFacts
<1>5. PICK c \in 0 .. len, b \in 0 .. len :
         /\ c = Smaller((g - 1) * k, len) /\ b = Smaller(g * k, len) /\ c <= b
         /\ Pieces(len, k)[g] = [i \in 1 .. b - c |-> c + i]
  BY <1>4 DEF IsPiece
<1>6. c = a
  BY <1>3, <1>5 DEF Smaller
<1>7. b = Smaller(a + k, len)
  BY <1>3, <1>5
<1>8. Pieces(len, k)[g] = [i \in 1 .. b - a |-> a + i]
  BY <1>5, <1>6
<1>9. b \in Nat /\ a <= b
  BY <1>5, <1>6
<1> QED
  BY <1>3, <1>7, <1>8, <1>9 DEF Runs

\* The pieces have every row, once.
LEMMA PiecesPermuted ==
    ASSUME NEW len \in Nat, NEW k \in Nat \ {0}
    PROVE  Permuted(len, <<>>, Pieces(len, k))
<1>1. PICK all \in Nat : /\ all = PieceCount(len, k) /\ IsSeq(Pieces(len, k)) /\ Len(Pieces(len, k)) = all
  BY PiecesFacts
<1>2. PICK ps : ps = Pieces(len, k)
  OBVIOUS
<1>3. ASSUME NEW g \in 1 .. all
      PROVE  /\ IsSeq(ps[g]) /\ Len(ps[g]) \in Nat
             /\ \A i \in 1 .. Len(ps[g]) :
                   \E v \in 1 .. len : v = ps[g][i] /\ (v - 1) \div k = g - 1 /\ (v - 1) % k = i - 1
  <2>1. PICK a \in Nat, b \in Nat :
           /\ a = (g - 1) * k /\ a < len /\ b = Smaller(a + k, len) /\ a <= b
           /\ ps[g] = [i \in 1 .. b - a |-> a + i]
    <3>1. Runs(ps[g], len, k, g)
      BY <1>1, <1>2, PieceEntries
    <3> QED
      BY <3>1 DEF Runs
  <2>2. b - a \in Nat /\ b <= len /\ b - a <= k
    BY <2>1 DEF Smaller
  <2>3. IsSeq(ps[g]) /\ Len(ps[g]) = b - a
    <3>1. ps[g] = [i \in 1 .. b - a |-> ps[g][i]]
      BY <2>1
    <3> QED
      BY <2>2, <3>1, FunctionIsSeq
  <2>4. ASSUME NEW i \in 1 .. b - a
        PROVE  \E v \in 1 .. len : v = ps[g][i] /\ (v - 1) \div k = g - 1 /\ (v - 1) % k = i - 1
    <3>1. a + i \in 1 .. len /\ ps[g][i] = a + i
      BY <2>1, <2>2
    <3>2. i - 1 \in 0 .. k - 1 /\ g - 1 \in Int /\ (a + i) - 1 = (g - 1) * k + (i - 1)
      BY <2>1, <2>2
    <3>3. ((g - 1) * k + (i - 1)) \div k = g - 1 /\ ((g - 1) * k + (i - 1)) % k = i - 1
      BY <3>2, Quotient
    <3>4. ((a + i) - 1) \div k = g - 1 /\ ((a + i) - 1) % k = i - 1
      BY <3>2, <3>3, Zenon
    <3>5. PICK v \in 1 .. len : v = a + i
      BY <3>1
    <3>6. (v - 1) \div k = g - 1 /\ (v - 1) % k = i - 1
      BY <3>4, <3>5, Zenon
    <3> QED
      BY <3>1, <3>5, <3>6
  <2> QED
    BY <2>2, <2>3, <2>4
<1>4. ASSUME NEW p \in 1 .. len
      PROVE  \E g \in 1 .. all : \E i \in 1 .. Len(ps[g]) : ps[g][i] = p
  <2>1. PICK q \in Nat, t \in 0 .. k - 1 : p - 1 = q * k + t
    <3>1. p - 1 \in Nat
      OBVIOUS
    <3>2. PICK q \in Nat : \E t \in 0 .. k - 1 : p - 1 = q * k + t
      BY <3>1, Division
    <3> QED
      BY <3>2
  <2>2. PICK m \in Nat : m = q * k /\ p = m + (t + 1)
    BY <2>1
  <2>3. q < all
    <3>1. all * k >= len
      BY <1>1, PieceCountFacts
    <3>2. all <= q => all * k <= q * k
      OBVIOUS
    <3>3. all * k \in Nat
      OBVIOUS
    <3> QED
      BY <2>2, <3>1, <3>2, <3>3
  <2>4. PICK g \in 1 .. all : g = q + 1
    BY <2>3
  <2>5. PICK a \in Nat, b \in Nat :
           /\ a = (g - 1) * k /\ a < len /\ b = Smaller(a + k, len) /\ a <= b
           /\ ps[g] = [i \in 1 .. b - a |-> a + i]
    <3>1. Runs(ps[g], len, k, g)
      BY <1>1, <1>2, PieceEntries
    <3> QED
      BY <3>1 DEF Runs
  <2>6. a = m
    <3>1. g - 1 = q
      BY <2>4
    <3> QED
      BY <2>2, <2>5, <3>1
  <2>7. t + 1 \in 1 .. b - a
    BY <2>2, <2>5, <2>6 DEF Smaller
  <2>8. b - a \in Nat /\ ps[g] = [i \in 1 .. b - a |-> ps[g][i]]
    BY <2>5
  <2>9. Len(ps[g]) = b - a
    BY <2>8, FunctionIsSeq
  <2>10. ps[g][t + 1] = p
    BY <2>2, <2>5, <2>6, <2>7
  <2> QED
    BY <2>7, <2>9, <2>10
<1>5. ASSUME NEW g \in 1 .. all, NEW h \in 1 .. all, NEW i \in 1 .. Len(ps[g]), NEW j \in 1 .. Len(ps[h]),
             ps[g][i] = ps[h][j]
      PROVE  g = h /\ i = j
  <2>1. g - 1 = h - 1 /\ i - 1 = j - 1
    <3>1. PICK v \in 1 .. len : v = ps[g][i] /\ (v - 1) \div k = g - 1 /\ (v - 1) % k = i - 1
      BY <1>3
    <3>2. PICK w \in 1 .. len : w = ps[h][j] /\ (w - 1) \div k = h - 1 /\ (w - 1) % k = j - 1
      BY <1>3
    <3>3. v = w
      BY <1>5, <3>1, <3>2
    <3> QED
      BY <3>1, <3>2, <3>3, Zenon
  <2>2. i \in Int /\ j \in Int
    BY <1>3
  <2> QED
    BY <2>1, <2>2
<1>6. IsSeq(<<>>) /\ Len(<<>>) = 0
  BY DEF IsSeq, Range
<1>7. \A g \in 1 .. all : \A i \in 1 .. Len(ps[g]) : ps[g][i] \in 1 .. len
  BY <1>3
<1> QED
  <2> HIDE DEF Pieces
  <2> QED
    BY <1>1, <1>2, <1>3, <1>4, <1>5, <1>6, <1>7 DEF Permuted

\* All pieces but the last are full, and the last is if the rows fall into full pieces.
LEMMA FullPieces ==
    ASSUME NEW len \in Nat, NEW k \in Nat \ {0}, NEW g \in 1 .. PieceCount(len, k),
           g < PieceCount(len, k) \/ len % k = 0
    PROVE  Len(Pieces(len, k)[g]) = k
<1>1. PICK all \in Nat : all = PieceCount(len, k) /\ \A c \in Nat : c < all => c * k < len
  BY PieceCountFacts
<1>2. PICK a \in Nat, b \in Nat :
         /\ a = (g - 1) * k /\ a < len /\ a + k = g * k /\ b = Smaller(a + k, len) /\ a <= b
         /\ Pieces(len, k)[g] = [i \in 1 .. b - a |-> a + i]
  BY PieceEntries DEF Runs
<1>3. a + k <= len
  <2>1. CASE g < all
    <3>1. g * k < len
      BY <1>1, <2>1
    <3> QED
      BY <1>2, <3>1
  <2>2. CASE len % k = 0
    <3>1. PICK q \in Nat : len = k * q
      BY <2>2, Exact
    <3>2. g <= q
      <4>1. q <= g - 1 => k * q <= (g - 1) * k
        BY <3>1
      <4>2. ~(q <= g - 1)
        BY <1>2, <3>1, <4>1
      <4> QED
        BY <3>1, <4>2
    <3>3. g * k <= k * q
      BY <3>1, <3>2
    <3> QED
      BY <1>2, <3>1, <3>3
  <2> QED
    BY <1>1, <2>1, <2>2
<1>4. b - a = k
  BY <1>2, <1>3 DEF Smaller
<1>5. Pieces(len, k)[g] = [i \in 1 .. k |-> Pieces(len, k)[g][i]]
  BY <1>2, <1>4
<1> QED
  BY <1>5, FunctionIsSeq

\* The pieces of all epochs.
Epochs(len, k, epochs) == FlattenSeq([e \in 1 .. epochs |-> Pieces(len, k)])

\* Entry i of the mini-batches of some epochs is a piece; it is the last of its epoch if all
\* divides i.
EpochsAre(seq, pieces, all, epochs) ==
    /\ IsSeq(seq) /\ Len(seq) = epochs * all
    /\ \A e \in 0 .. epochs - 1 : \A g \in 1 .. all : seq[e * all + g] = pieces[g]

LEMMA EpochsJoined ==
    ASSUME NEW pieces, IsSeq(pieces), NEW n \in Nat, NEW all \in Nat, Len(pieces) = all,
           NEW seq, EpochsAre(seq, pieces, all, n)
    PROVE  EpochsAre(seq \o pieces, pieces, all, n + 1)
<1>1. PICK m \in Nat : m = n * all /\ (n + 1) * all = m + all
  OBVIOUS
<1>2. PICK u : u = seq \o pieces
  OBVIOUS
<1>3. /\ IsSeq(u) /\ Len(u) = m + all
      /\ \A i \in 1 .. m : u[i] = seq[i]
      /\ \A g \in 1 .. all : u[m + g] = pieces[g]
  <2>1. IsSeq(seq) /\ Len(seq) = m
    BY <1>1 DEF EpochsAre
  <2>2. /\ IsSeq(seq \o pieces) /\ Len(seq \o pieces) = Len(seq) + Len(pieces)
        /\ \A i \in 1 .. Len(seq) : (seq \o pieces)[i] = seq[i]
        /\ \A i \in 1 .. Len(pieces) : (seq \o pieces)[Len(seq) + i] = pieces[i]
    BY <2>1, ConcatFacts
  <2> QED
    BY <1>2, <2>1, <2>2
<1>4. ASSUME NEW e \in 0 .. n, NEW g \in 1 .. all
      PROVE  u[e * all + g] = pieces[g]
  <2>1. CASE e = n
    BY <1>1, <1>3, <2>1
  <2>2. CASE e # n
    <3>1. e \in 0 .. n - 1 /\ e + 1 <= n
      BY <2>2
    <3>2. PICK a \in Nat : a = e * all /\ a + all <= m
      <4>1. (e + 1) * all <= n * all
        BY <3>1
      <4>2. (e + 1) * all = e * all + all /\ e * all \in Nat
        OBVIOUS
      <4> QED
        BY <1>1, <4>1, <4>2
    <3>3. a + g \in 1 .. m
      BY <3>2
    <3>4. seq[a + g] = pieces[g]
      BY <3>1, <3>2 DEF EpochsAre
    <3> QED
      BY <1>3, <3>2, <3>3, <3>4
  <2> QED
    BY <2>1, <2>2
<1> QED
  <2>1. (n + 1) - 1 = n
    OBVIOUS
  <2> QED
    BY <1>1, <1>2, <1>3, <1>4, <2>1 DEF EpochsAre

LEMMA EpochsFacts ==
    ASSUME NEW len \in Nat, NEW k \in Nat \ {0}, NEW epochs \in Nat
    PROVE  EpochsAre(Epochs(len, k, epochs), Pieces(len, k), PieceCount(len, k), epochs)
<1>a. PICK ps : ps = Pieces(len, k)
  OBVIOUS
<1>1. PICK all \in Nat : all = PieceCount(len, k) /\ ps = Pieces(len, k) /\ IsSeq(ps) /\ Len(ps) = all
  BY <1>a, PiecesFacts
<1>2. PICK seqs : seqs = [e \in 1 .. epochs |-> ps]
  OBVIOUS
<1>3. Len(seqs) = epochs
  <2>1. seqs = [e \in 1 .. epochs |-> seqs[e]]
    BY <1>2
  <2> QED
    BY <2>1, FunctionIsSeq
<1>4. Epochs(len, k, epochs) = FlattenSeq(seqs)
  BY <1>1, <1>2 DEF Epochs
<1>5. CASE epochs = 0
  <2>1. seqs = <<>>
    BY <1>2, <1>5
  <2>2. FlattenSeq(seqs) = <<>>
    BY <1>3, <1>5, <2>1 DEF FlattenSeq
  <2>3. IsSeq(<<>>) /\ Len(<<>>) = 0 /\ 0 * all = 0
    BY DEF IsSeq, Range
  <2> QED
    BY <1>1, <1>4, <1>5, <2>2, <2>3 DEF EpochsAre
<1>6. CASE epochs # 0
  <2>1. PICK F : /\ F[1] = seqs[1]
                 /\ \A i \in 1 .. epochs : i > 1 => F[i] = F[i - 1] \o seqs[i]
                 /\ FlattenSeq(seqs) = F[epochs]
    <3>1. epochs \in Nat \ {0}
      BY <1>6
    <3> QED
      BY <1>3, <3>1, FlattenSteps
  <2> DEFINE Good == {i \in 1 .. epochs : EpochsAre(F[i], ps, all, i)}
  <2>2. 1 \in Good
    <3>1. F[1] = ps
      BY <1>2, <1>6, <2>1
    <3>2. 1 * all = all /\ \A e \in 0 .. 1 - 1 : e * all = 0
      OBVIOUS
    <3>3. EpochsAre(ps, ps, all, 1)
      <4>1. \A e \in 0 .. 1 - 1 : \A g \in 1 .. all : e * all + g = g
        OBVIOUS
      <4> QED
        BY <1>1, <3>2, <4>1 DEF EpochsAre
    <3> QED
      BY <1>6, <3>1, <3>3
  <2>3. ASSUME NEW i \in 1 .. epochs, i > 1, i - 1 \in Good PROVE i \in Good
    <3>1. EpochsAre(F[i - 1], ps, all, i - 1) /\ i - 1 \in Nat
      BY <2>3
    <3>2. F[i] = F[i - 1] \o ps
      BY <1>2, <2>1, <2>3
    <3>3. EpochsAre(F[i - 1] \o ps, ps, all, (i - 1) + 1)
      BY <1>1, <3>1, EpochsJoined
    <3>4. (i - 1) + 1 = i
      OBVIOUS
    <3> QED
      BY <3>2, <3>3, <3>4
  <2>4. 1 .. epochs \subseteq Good
    <3> HIDE DEF Good
    <3> QED
      BY <2>2, <2>3, Upwards
  <2>5. epochs \in Good
    BY <1>6, <2>4
  <2> QED
    BY <1>1, <1>4, <2>1, <2>5
<1> QED
  BY <1>5, <1>6

\* The number of the piece that a mini-batch is.
Nth(i, all) == ((i - 1) % all) + 1

LEMMA EpochEntry ==
    ASSUME NEW pieces, NEW all \in Nat, NEW epochs \in Nat, NEW seq, EpochsAre(seq, pieces, all, epochs),
           NEW i \in 1 .. Len(seq)
    PROVE  /\ Nth(i, all) \in 1 .. all /\ seq[i] = pieces[Nth(i, all)]
           /\ i % all # 0 => Nth(i, all) < all
<1>1. PICK m \in Nat : m = epochs * all /\ i \in 1 .. m
  BY DEF EpochsAre
<1>2. all # 0
  BY <1>1
<1>3. PICK e \in Nat : \E t \in 0 .. all - 1 : t = (i - 1) % all /\ i - 1 = e * all + t
  <2>1. i - 1 \in Nat
    BY <1>1
  <2> QED
    BY <1>2, <2>1, Division
<1>4. PICK t \in 0 .. all - 1 : t = (i - 1) % all /\ i - 1 = e * all + t
  BY <1>3
<1>5. Nth(i, all) = t + 1 /\ t + 1 \in 1 .. all
  BY <1>4 DEF Nth
<1>6. PICK a \in Nat : a = e * all /\ i = a + (t + 1)
  BY <1>1, <1>4
<1>7. e < epochs
  <2>1. epochs <= e => epochs * all <= e * all
    OBVIOUS
  <2> QED
    BY <1>1, <1>6, <2>1
<1>8. seq[i] = pieces[t + 1]
  <2>1. e \in 0 .. epochs - 1
    BY <1>7
  <2>2. seq[e * all + (t + 1)] = pieces[t + 1]
    BY <1>5, <2>1 DEF EpochsAre
  <2> QED
    BY <1>6, <2>2
<1>9. ASSUME t + 1 = all PROVE i % all = 0
  <2>1. i = (e + 1) * all + 0
    BY <1>6, <1>9
  <2>2. e + 1 \in Int /\ 0 \in 0 .. all - 1
    BY <1>2
  <2>3. ((e + 1) * all + 0) % all = 0
    BY <1>2, <2>2, Quotient
  <2> QED
    BY <2>1, <2>3, Zenon
<1> QED
  BY <1>5, <1>8, <1>9

--------------------------------------------------------------------------------
(* The gradients of the update *)

\* A gradient of the rows at the given positions of a mini-batch, each once, and each of
\* the same weight if the mini-batch is full.
Summed(grad, rows, mini, done, weight, full) ==
    \E ys :
        /\ IsSeq(ys) /\ Len(ys) = Len(done) /\ grad = BagOf(ys)
        /\ \A i \in 1 .. Len(done) :
              /\ ys[i].response = rows[mini[done[i]]].response
              /\ full => ys[i].weight = weight

LEMMA EmptyIsSeq == IsSeq(<<>>) /\ Len(<<>>) = 0
BY DEF IsSeq, Range

LEMMA SummedNothing ==
    ASSUME NEW rows, NEW mini, NEW weight, NEW full
    PROVE  Summed(EmptyBag, rows, mini, <<>>, weight, full)
<1>1. IsSeq(<<>>) /\ Len(<<>>) = 0 /\ EmptyBag = BagOf(<<>>)
  BY EmptyIsSeq, BagOfNothing
<1> QED
  BY <1>1 DEF Summed

LEMMA SummedJoined ==
    ASSUME NEW rows, NEW mini, NEW weight, NEW full, NEW f, NEW g, NEW s, NEW t, IsSeq(s), IsSeq(t),
           Summed(f, rows, mini, s, weight, full), Summed(g, rows, mini, t, weight, full)
    PROVE  Summed(f (+) g, rows, mini, s \o t, weight, full)
<1>1. PICK ys : /\ IsSeq(ys) /\ Len(ys) = Len(s) /\ f = BagOf(ys)
                /\ \A i \in 1 .. Len(s) :
                      /\ ys[i].response = rows[mini[s[i]]].response
                      /\ full => ys[i].weight = weight
  BY DEF Summed
<1>2. PICK zs : /\ IsSeq(zs) /\ Len(zs) = Len(t) /\ g = BagOf(zs)
                /\ \A i \in 1 .. Len(t) :
                      /\ zs[i].response = rows[mini[t[i]]].response
                      /\ full => zs[i].weight = weight
  BY DEF Summed
<1>3. PICK a \in Nat, b \in Nat : a = Len(s) /\ b = Len(t)
  BY SeqFacts
<1>4. PICK u, v : u = s \o t /\ v = ys \o zs
  OBVIOUS
<1>5. /\ Len(u) = a + b
      /\ \A i \in 1 .. a : u[i] = s[i]
      /\ \A i \in 1 .. b : u[a + i] = t[i]
  BY <1>3, <1>4, ConcatFacts
<1>6. /\ IsSeq(v) /\ Len(v) = a + b
      /\ \A i \in 1 .. a : v[i] = ys[i]
      /\ \A i \in 1 .. b : v[a + i] = zs[i]
  <2>1. IsSeq(ys) /\ IsSeq(zs) /\ Len(ys) = a /\ Len(zs) = b
    BY <1>1, <1>2, <1>3
  <2>2. /\ IsSeq(ys \o zs) /\ Len(ys \o zs) = Len(ys) + Len(zs)
        /\ \A i \in 1 .. Len(ys) : (ys \o zs)[i] = ys[i]
        /\ \A i \in 1 .. Len(zs) : (ys \o zs)[Len(ys) + i] = zs[i]
    BY <2>1, ConcatFacts
  <2> QED
    BY <1>4, <2>1, <2>2
<1>7. f (+) g = BagOf(v)
  <2>1. BagOf(ys) (+) BagOf(zs) = BagOf(ys \o zs)
    BY <1>1, <1>2, BagJoined
  <2> QED
    BY <1>1, <1>2, <1>4, <2>1
<1>8. ASSUME NEW i \in 1 .. a + b
      PROVE  /\ v[i].response = rows[mini[u[i]]].response
             /\ full => v[i].weight = weight
  <2>1. CASE i \in 1 .. a
    BY <1>1, <1>3, <1>5, <1>6, <2>1
  <2>2. CASE i \notin 1 .. a
    <3>1. PICK j \in 1 .. b : i = a + j
      <4>1. i - a \in 1 .. b /\ i = a + (i - a)
        BY <1>8, <2>2
      <4> QED
        BY <4>1
    <3> QED
      BY <1>2, <1>3, <1>5, <1>6, <3>1
  <2> QED
    BY <2>1, <2>2
<1>9. /\ IsSeq(v) /\ Len(v) = Len(u) /\ f (+) g = BagOf(v)
      /\ \A i \in 1 .. Len(u) :
            /\ v[i].response = rows[mini[u[i]]].response
            /\ full => v[i].weight = weight
  BY <1>5, <1>6, <1>7, <1>8
<1>10. Summed(f (+) g, rows, mini, u, weight, full)
  BY <1>9, Zenon DEF Summed
<1> QED
  BY <1>4, <1>10

\* What the number of rows of a full mini-batch is.
LEMMA MiniRowsFacts ==
    ASSUME conf \in Configs
    PROVE  \E m \in Nat \ {0}, groups \in Nat \ {0} :
              /\ m = MiniRows /\ groups = conf.world \div conf.sp
              /\ m * groups <= conf.mini * conf.n /\ conf.mini * conf.n < (m + 1) * groups
              /\ conf.micro # 0 => m % conf.micro = 0
<1>1. /\ conf.world \in Nat \ {0} /\ conf.sp \in Nat \ {0} /\ conf.world % conf.sp = 0
      /\ conf.mini \in Nat /\ conf.n \in Nat \ {0} /\ conf.micro \in Nat
  BY ConfFacts
<1>2. PICK groups \in Nat : groups = conf.world \div conf.sp /\ conf.world = conf.sp * groups
  BY <1>1, Exact
<1>3. groups # 0
  <2>1. groups = 0 => conf.sp * groups = 0
    BY <1>1
  <2> QED
    BY <1>1, <1>2, <2>1
<1>4. PICK x \in Nat : x = conf.mini * conf.n
  BY <1>1
<1>5. PICK m \in Nat : \E t \in 0 .. groups - 1 : m = x \div groups /\ x = m * groups + t
  BY <1>3, Division
<1>6. m * groups <= x /\ x < (m + 1) * groups
  <2>1. PICK t \in 0 .. groups - 1 : x = m * groups + t
    BY <1>5
  <2>2. m * groups \in Nat /\ (m + 1) * groups = m * groups + groups
    OBVIOUS
  <2> QED
    BY <2>1, <2>2
<1>7. m = MiniRows
  BY <1>2, <1>4, <1>5 DEF MiniRows
<1>8. MiniRows > 0 /\ (conf.micro > 0 => MiniRows % conf.micro = 0)
  BY ConfigsAssumption DEF ConfigAssumption, MiniRows
<1>9. m # 0 /\ (conf.micro # 0 => m % conf.micro = 0)
  BY <1>1, <1>7, <1>8
<1> QED
  BY <1>2, <1>3, <1>4, <1>6, <1>7, <1>9

\* The gradient of a micro-batch has its rows, each once; a row counts for as much as in any
\* other micro-batch if micro-batches have the fixed size or their weight is of the rows.
LEMMA GradientFacts ==
    ASSUME conf \in Configs, NEW r, NEW mini, NEW piece, IsSeq(piece),
           NEW ps, ps = [i \in DOMAIN piece |-> mini[piece[i]]],
           NEW full, full => Dynamic \/ Len(piece) = conf.micro
    PROVE  Summed(Gradient(r, ps), data[r], mini, piece, MiniRows, full)
<1>1. PICK n \in Nat : n = Len(piece) /\ DOMAIN piece = 1 .. n
  BY SeqFacts
<1>2. DOMAIN ps = 1 .. n /\ Len(ps) = n
  <2>1. ps = [i \in 1 .. n |-> ps[i]]
    BY <1>1
  <2> QED
    BY <2>1, FunctionIsSeq
<1> DEFINE part(i) == [response |-> Rows(r, ps)[i].response, weight |-> Weight(Len(ps))]
           ys == [i \in 1 .. n |-> part(i)]
<1>3. IsSeq(ys) /\ Len(ys) = n /\ DOMAIN ys = 1 .. n
  <2>1. ys = [i \in 1 .. n |-> ys[i]]
    OBVIOUS
  <2> HIDE DEF ys
  <2> QED
    BY <2>1, FunctionIsSeq
<1>4. Gradient(r, ps) = BagOf(ys)
  <2>1. Gradient(r, ps) = [x \in {part(i) : i \in 1 .. n} |-> Cardinality({i \in 1 .. n : part(i) = x})]
    BY <1>2 DEF Gradient
  <2> HIDE DEF part
  <2>2. Range(ys) = {part(i) : i \in 1 .. n}
    BY DEF Range
  <2>3. \A x : Spots(ys, x) = {i \in 1 .. n : part(i) = x}
    BY DEF Spots
  <2> QED
    BY <2>1, <2>2, <2>3 DEF BagOf
<1>5. ASSUME full PROVE Weight(Len(ps)) = MiniRows
  <2>1. CASE Dynamic
    BY <2>1 DEF Weight
  <2>2. CASE ~Dynamic
    <3>1. PICK m \in Nat : m = MiniRows /\ (conf.micro # 0 => m % conf.micro = 0)
      BY MiniRowsFacts
    <3>2. conf.micro \in Nat \ {0}
      BY <2>2, ConfFacts DEF Dynamic
    <3>3. m = conf.micro * (m \div conf.micro)
      BY <3>1, <3>2, Exact
    <3>4. Len(ps) = conf.micro
      BY <1>1, <1>2, <1>5, <2>2
    <3>5. Weight(Len(ps)) = Len(ps) * (MiniRows \div conf.micro)
      BY <2>2 DEF Weight
    <3> QED
      BY <3>1, <3>3, <3>4, <3>5, Zenon
  <2> QED
    BY <2>1, <2>2
<1>6. ASSUME NEW i \in 1 .. n
      PROVE  /\ ys[i].response = data[r][mini[piece[i]]].response
             /\ full => ys[i].weight = MiniRows
  <2>1. Rows(r, ps)[i] = data[r][mini[piece[i]]]
    BY <1>1, <1>2 DEF Rows
  <2>2. ys[i] = part(i)
    OBVIOUS
  <2>3. part(i).response = Rows(r, ps)[i].response /\ part(i).weight = Weight(Len(ps))
    OBVIOUS
  <2> HIDE DEF ys, part
  <2> QED
    BY <1>5, <2>1, <2>2, <2>3
<1> HIDE DEF ys
<1> QED
  BY <1>1, <1>3, <1>4, <1>6 DEF Summed

--------------------------------------------------------------------------------
(* The invariant of the update *)

\* The mini-batches of the update.
Updates == Epochs(GroupSize * Each, MiniRows, conf.epochs)

IsFull(mini) == Len(mini) = MiniRows

\* No two rows have the same response.
Distinct(rows) == \A i, j \in 1 .. Len(rows) : rows[i].response = rows[j].response => i = j

\* A rank at a mini-batch has in its gradient what it has run of it.
RunAt(r) ==
    \E done, left :
        /\ Permuted(Len(Batch(r)), done, left) /\ todo[r] = Micros(r, left)
        /\ Summed(grads[r], Ours(r), Batch(r), done, MiniRows, IsFull(Batch(r)))
        /\ ~Dynamic /\ IsFull(Batch(r)) => \A g \in 1 .. Len(left) : Len(left[g]) = conf.micro

\* Every rank has as many mini-batches left as there are steps to take.
UpdateAt(r) ==
    /\ at[r] \in {"gathered", "running"} => minis[r] = Left(Updates, Len(steps))
    /\ at[r] = "running" => Len(steps) < Len(Updates) /\ RunAt(r)
    /\ at[r] # "running" => grads[r] = EmptyBag
    /\ at[r] \in {"idle", "called"} => steps = <<>>
    /\ at[r] = "finished" => Len(steps) = Len(Updates)

\* The gradient of a rank in step k has every row of mini-batch k.
StepAt(k, r) ==
    \E done :
        /\ Lists(done, 1 .. Len(Updates[k])) /\ Len(done) = Len(Updates[k])
        /\ Summed(steps[k][r], Ours(r), Updates[k], done, MiniRows, IsFull(Updates[k]))

StepsInv ==
    /\ IsSeq(steps) /\ Len(steps) <= Len(Updates)
    /\ \A k \in 1 .. Len(steps) : \A r \in Ranks : StepAt(k, r)

Updating == stage \in {"update_actor", "done"}

TrainInv ==
    /\ ~Generating /\ stage # "raised" => Distinct(batch)
    /\ ~Updating /\ stage # "raised" => steps = <<>> /\ \A r \in Ranks : grads[r] = EmptyBag
    /\ stage = "update_actor" => \A r \in Ranks : UpdateAt(r)
    /\ Updating => StepsInv
    /\ stage = "done" => Len(steps) = Len(Updates)

\* The rows of a group are cut into mini-batches in the same way in every epoch.
LEMMA UpdatesFacts ==
    ASSUME IInv, Updating
    PROVE  /\ Sent = batch /\ GroupSize = conf.sp /\ CanChunk(Sent, conf.world)
           /\ IsSeq(Updates)
           /\ \E len \in Nat \ {0}, m \in Nat \ {0}, all \in Nat :
                 /\ len = GroupSize * Each /\ m = MiniRows /\ all = PieceCount(len, m)
                 /\ EpochsAre(Updates, Pieces(len, m), all, conf.epochs)
<1>1. conf \in Configs /\ IsSeq(batch) /\ IsSeq(Sent)
  BY InvFacts
<1>2. ~Generating /\ stage # "raised"
  BY DEF Updating, Generating
<1>3. Sent = batch /\ GroupSize = conf.sp
  BY <1>2 DEF Sent, Generating, GroupSize
<1>4. PICK x \in Nat \ {0} : /\ x = conf.batch * conf.n /\ Len(batch) = x /\ x % conf.world = 0
  <2>1. conf.batch * conf.n \in Nat \ {0}
    BY <1>1, ConfFacts
  <2>2. Len(batch) = conf.batch * conf.n
    BY <1>2 DEF IInv, BatchInv
  <2>3. (conf.batch * conf.n) % conf.world = 0
    BY <1>1, ConfFacts
  <2> QED
    BY <2>1, <2>2, <2>3
<1>5. CanChunk(Sent, conf.world)
  BY <1>3, <1>4 DEF CanChunk
<1>6. PICK e \in Nat, w \in Nat \ {0}, s \in Nat \ {0} :
         e = Each /\ w = conf.world /\ s = GroupSize /\ Len(Sent) = w * e
  BY <1>1, <1>5, EachFacts, ConfFacts, GroupFacts
<1>7. PICK len \in Nat \ {0} : len = GroupSize * Each
  <2>1. e # 0
    <3>1. e = 0 => w * e = 0
      OBVIOUS
    <3> QED
      BY <1>3, <1>4, <1>6, <3>1
  <2>2. s * e \in Nat \ {0}
    BY <2>1
  <2> QED
    BY <1>6, <2>2
<1>8. PICK m \in Nat \ {0} : m = MiniRows
  BY <1>1, MiniRowsFacts
<1>9. PICK all \in Nat : all = PieceCount(len, m)
  BY PieceCountFacts
<1>10. EpochsAre(Updates, Pieces(len, m), PieceCount(len, m), conf.epochs)
  <2>1. conf.epochs \in Nat
    BY <1>1, ConfFacts
  <2>2. Updates = Epochs(len, m, conf.epochs)
    BY <1>7, <1>8 DEF Updates
  <2> QED
    BY <2>1, <2>2, EpochsFacts
<1>11. IsSeq(Updates)
  BY <1>10 DEF EpochsAre
<1> QED
  BY <1>3, <1>5, <1>7, <1>8, <1>9, <1>10, <1>11

\* A mini-batch has positions of rows.
LEMMA MiniFacts ==
    ASSUME IInv, Updating, NEW k \in 1 .. Len(Updates)
    PROVE  IsSeq(Updates[k]) /\ Len(Updates[k]) \in Nat
<1>a. PICK len \in Nat \ {0}, m \in Nat \ {0}, all \in Nat :
         /\ all = PieceCount(len, m) /\ EpochsAre(Updates, Pieces(len, m), all, conf.epochs)
  BY UpdatesFacts
<1>1. PICK ps : ps = Pieces(len, m) /\ EpochsAre(Updates, ps, all, conf.epochs)
  BY <1>a
<1>2. conf.epochs \in Nat
  BY InvFacts, ConfFacts
<1>3. Nth(k, all) \in 1 .. all /\ Updates[k] = ps[Nth(k, all)]
  BY <1>1, <1>2, EpochEntry
<1>4. Permuted(len, <<>>, ps) /\ Len(ps) = all
  BY <1>a, <1>1, PiecesPermuted, PiecesFacts
<1>5. IsSeq(Updates[k])
  BY <1>3, <1>4 DEF Permuted
<1> QED
  BY <1>5, SeqFacts

\* The call stays what it is from the update to the end.
LEMMA SameUpdate ==
    ASSUME conf' = conf, batch' = batch, Updating, Updating'
    PROVE  /\ Ranks' = Ranks /\ Updates' = Updates /\ MiniRows' = MiniRows /\ Dynamic' = Dynamic
           /\ GroupSize' = GroupSize /\ Distinct(batch)' = Distinct(batch)
           /\ \A r : Ours(r)' = Ours(r)
           /\ \A mini : IsFull(mini)' = IsFull(mini)
<1>1. ~Generating /\ ~Generating'
  BY DEF Updating, Generating
<1>2. /\ Ranks' = Ranks /\ MiniRows' = MiniRows /\ Dynamic' = Dynamic
      /\ Distinct(batch)' = Distinct(batch)
  BY DEF Ranks, MiniRows, Dynamic, Distinct
<1>3. GroupSize' = GroupSize
  BY <1>1 DEF GroupSize
<1>4. Sent' = Sent
  BY <1>1 DEF Sent, Generating
<1>5. Each' = Each
  BY <1>4 DEF Each
<1>6. Updates' = Updates
  BY <1>2, <1>3, <1>5 DEF Updates
<1>7. \A r : Ours(r)' = Ours(r)
  BY <1>3, <1>4, <1>5 DEF Ours, Part
<1>8. \A mini : IsFull(mini)' = IsFull(mini)
  BY <1>2 DEF IsFull
<1> QED
  BY <1>2, <1>3, <1>6, <1>7, <1>8

LEMMA StepsKept ==
    ASSUME conf' = conf, batch' = batch, Updating, Updating', steps' = steps, StepsInv
    PROVE  StepsInv'
<1>1. Ranks' = Ranks /\ Updates' = Updates /\ \A k, r : StepAt(k, r)' = StepAt(k, r)
  BY SameUpdate DEF StepAt
<1> QED
  BY <1>1 DEF StepsInv

\* A step of the ranks that takes no optimizer step.
LEMMA WorkerTrain ==
    ASSUME TrainInv, UNCHANGED driver, steps' = steps,
           stage # "update_actor" => \A r \in Ranks : grads'[r] = grads[r],
           stage = "update_actor" => \A r \in Ranks : UpdateAt(r)'
    PROVE  TrainInv'
<1>1. /\ conf' = conf /\ batch' = batch /\ stage' = stage /\ Ranks' = Ranks /\ Generating' = Generating
      /\ Updating' = Updating /\ Distinct(batch)' = Distinct(batch)
  BY SameCall DEF Updating, Distinct
<1>2. Updating => StepsInv' /\ Updates' = Updates
  BY <1>1, StepsKept, SameUpdate DEF TrainInv
<1>3. ~Updating => stage # "update_actor"
  BY DEF Updating
<1>4. stage = "done" => Updating
  BY DEF Updating
<1> QED
  BY <1>1, <1>2, <1>3, <1>4 DEF TrainInv

\* A rank that is left alone.
LEMMA UpdateKept ==
    ASSUME UNCHANGED driver, Updating, steps' = steps, NEW q, UpdateAt(q), at'[q] = at[q],
           minis'[q] = minis[q], todo'[q] = todo[q], grads'[q] = grads[q]
    PROVE  UpdateAt(q)'
<1>1. conf' = conf /\ batch' = batch /\ Updating'
  BY SameCall DEF Updating
<1>2. /\ Updates' = Updates /\ MiniRows' = MiniRows /\ Dynamic' = Dynamic /\ Ours(q)' = Ours(q)
      /\ \A mini : IsFull(mini)' = IsFull(mini)
  BY <1>1, SameUpdate
<1>3. Batch(q)' = Batch(q) /\ \A left : Micros(q, left)' = Micros(q, left)
  BY DEF Batch, Micros
<1>4. RunAt(q)' = RunAt(q)
  BY <1>1, <1>2, <1>3 DEF RunAt
<1> QED
  BY <1>2, <1>4 DEF UpdateAt

--------------------------------------------------------------------------------
(* The steps of the ranks in the update *)

LEMMA LeftNone ==
    ASSUME NEW s, IsSeq(s)
    PROVE  Left(s, 0) = s
<1>1. PICK n \in Nat : n = Len(s) /\ s = [i \in 1 .. n |-> s[i]]
  BY SeqFacts
<1>2. Left(s, 0) = [h \in 1 .. n - 0 |-> s[h + 0]]
  BY <1>1 DEF Left
<1>3. [h \in 1 .. n - 0 |-> s[h + 0]] = [h \in 1 .. n |-> s[h]]
  OBVIOUS
<1> QED
  BY <1>1, <1>2, <1>3

\* Something is left of the mini-batches as long as there are steps to take.
LEMMA LeftOfUpdates ==
    ASSUME NEW s, IsSeq(s), NEW i \in Nat, i <= Len(s)
    PROVE  Left(s, i) # <<>> <=> i < Len(s)
<1>1. PICK n \in Nat : n = Len(s)
  BY SeqFacts
<1>2. ASSUME i < n PROVE Left(s, i) # <<>>
  <2>1. i + 1 \in 1 .. Len(s) /\ (i + 1) - 1 = i
    BY <1>1, <1>2
  <2> QED
    BY <2>1, LeftFacts
<1>3. ASSUME ~(i < n) PROVE Left(s, i) = <<>>
  <2>1. i = Len(s)
    BY <1>1, <1>3
  <2> QED
    BY <2>1, NothingLeft
<1> QED
  BY <1>1, <1>2, <1>3

\* The mini-batch that a rank is at.
LEMMA AtBatch ==
    ASSUME IInv, TrainInv, stage = "update_actor", NEW r \in Ranks,
           at[r] = "running" \/ (at[r] = "gathered" /\ minis[r] # <<>>)
    PROVE  /\ Len(steps) \in Nat /\ Len(steps) < Len(Updates) /\ Len(Updates) \in Nat
           /\ Len(steps) + 1 \in 1 .. Len(Updates)
           /\ Batch(r) = Updates[Len(steps) + 1]
           /\ Tail(minis[r]) = Left(Updates, Len(steps) + 1)
           /\ IsSeq(Batch(r)) /\ Len(Batch(r)) \in Nat
<1>1. Updating /\ UpdateAt(r) /\ StepsInv
  BY DEF TrainInv, Updating
<1>2. IsSeq(Updates)
  BY <1>1, UpdatesFacts
<1>3. PICK n \in Nat, u \in Nat : n = Len(steps) /\ u = Len(Updates) /\ n <= u
  BY <1>1, <1>2, SeqFacts DEF StepsInv
<1>4. minis[r] = Left(Updates, n)
  BY <1>1, <1>3 DEF UpdateAt
<1>5. n < u
  <2>1. CASE at[r] = "running"
    BY <1>1, <1>3, <2>1 DEF UpdateAt
  <2>2. CASE minis[r] # <<>>
    BY <1>2, <1>3, <1>4, <2>2, LeftOfUpdates
  <2> QED
    BY <2>1, <2>2
<1>6. PICK k \in 1 .. Len(Updates) : k = n + 1 /\ k - 1 = n
  BY <1>3, <1>5
<1>7. Head(minis[r]) = Updates[k] /\ Tail(minis[r]) = Left(Updates, k)
  BY <1>2, <1>4, <1>6, LeftFacts
<1>8. IsSeq(Updates[k]) /\ Len(Updates[k]) \in Nat
  BY <1>1, MiniFacts
<1> QED
  BY <1>3, <1>5, <1>6, <1>7, <1>8 DEF Batch

LEMMA GatherTrain ==
    ASSUME IInv, TrainInv, NEW r \in Ranks, Gather(r)
    PROVE  TrainInv'
<1>1. UNCHANGED driver /\ Remote /\ todo' = todo /\ steps' = steps /\ grads' = grads
  BY DEF Gather
<1>2. r \in Group(r) /\ \A q \in Group(r) : q \in Ranks /\ at[q] = "called" /\ Group(q) = Group(r)
  BY InvFacts, GroupFacts, Zenon DEF Gather
<1>3. at' = [q \in Ranks |-> IF q \in Group(r) THEN "gathered" ELSE at[q]]
  BY DEF Gather
<1>4. minis' = [q \in Ranks |->
           IF q \notin Group(r) THEN minis[q]
           ELSE IF Generating THEN <<>> ELSE MiniBatches(Len(Gathered(q)))]
  BY DEF Gather
<1>5. ASSUME stage = "update_actor", NEW q \in Ranks PROVE UpdateAt(q)'
  <2>1. Updating /\ UpdateAt(q) /\ conf' = conf /\ batch' = batch /\ Updating' /\ ~Generating
    BY <1>1, <1>5, SameCall DEF TrainInv, Updating, Generating
  <2>2. CASE q \in Group(r)
    <3>1. \A x \in Group(q) : x \in Ranks /\ DataAt(x) /\ at[x] = "called"
      BY <1>1, <1>2, <2>2, InvFacts
    <3>2. \A x \in Group(q) : data[x] = Mine(x)
      BY <3>1 DEF DataAt
    <3>3. CanChunk(Sent, conf.world) /\ IsSeq(Updates)
      BY <2>1, UpdatesFacts
    <3>4. Gathered(q) = Ours(q)
      BY <3>2, <3>3, InvFacts, GatheredOurs
    <3>5. Len(Gathered(q)) = GroupSize * Each
      BY <3>3, <3>4, InvFacts, OursFacts
    <3>6. minis'[q] = MiniBatches(Len(Gathered(q))) /\ at'[q] = "gathered"
      BY <1>3, <1>4, <2>1, <2>2
    <3>7. minis'[q] = Updates
      BY <1>5, <3>5, <3>6 DEF MiniBatches, Updates, Epochs
    <3>8. steps = <<>> /\ grads[q] = EmptyBag
      BY <1>2, <2>1, <2>2 DEF UpdateAt
    <3>9. minis'[q] = Left(Updates, Len(steps))
      BY <3>3, <3>7, <3>8, EmptyIsSeq, LeftNone
    <3>10. Updates' = Updates
      BY <2>1, SameUpdate
    <3> QED
      BY <1>1, <3>6, <3>8, <3>9, <3>10 DEF UpdateAt
  <2>3. CASE q \notin Group(r)
    <3>1. at'[q] = at[q] /\ minis'[q] = minis[q] /\ todo'[q] = todo[q] /\ grads'[q] = grads[q]
      BY <1>1, <1>3, <1>4, <2>3
    <3> QED
      BY <1>1, <2>1, <3>1, UpdateKept
  <2> QED
    BY <2>2, <2>3
<1> QED
  BY <1>1, <1>5, WorkerTrain

\* A rank begins with a mini-batch.
LEMMA BeginTrain ==
    ASSUME IInv, TrainInv, stage = "update_actor", UNCHANGED driver, steps' = steps, NEW r \in Ranks,
           at[r] = "gathered", minis[r] # <<>>, at'[r] = "running", minis'[r] = minis[r],
           grads'[r] = grads[r], NEW left, todo'[r] = Micros(r, left),
           Permuted(Len(Batch(r)), <<>>, left),
           ~Dynamic /\ IsFull(Batch(r)) => \A g \in 1 .. Len(left) : Len(left[g]) = conf.micro
    PROVE  UpdateAt(r)'
<1>1. Updating /\ UpdateAt(r) /\ conf' = conf /\ batch' = batch /\ Updating'
  BY SameCall DEF TrainInv, Updating
<1>2. /\ Updates' = Updates /\ MiniRows' = MiniRows /\ Dynamic' = Dynamic /\ Ours(r)' = Ours(r)
      /\ \A mini : IsFull(mini)' = IsFull(mini)
  BY <1>1, SameUpdate
<1>3. Batch(r)' = Batch(r) /\ Micros(r, left)' = Micros(r, left)
  BY DEF Batch, Micros
<1>4. grads'[r] = EmptyBag /\ minis'[r] = Left(Updates, Len(steps)) /\ Len(steps) < Len(Updates)
  BY <1>1, AtBatch DEF UpdateAt
<1>5. Summed(grads'[r], Ours(r), Batch(r), <<>>, MiniRows, IsFull(Batch(r)))
  BY <1>4, SummedNothing
<1>6. RunAt(r)'
  <2>1. /\ Permuted(Len(Batch(r)'), <<>>, left) /\ todo'[r] = Micros(r, left)'
        /\ Summed(grads'[r], Ours(r)', Batch(r)', <<>>, MiniRows', IsFull(Batch(r))')
    BY <1>2, <1>3, <1>5
  <2>2. ~Dynamic' /\ IsFull(Batch(r))' => \A g \in 1 .. Len(left) : Len(left[g]) = conf'.micro
    BY <1>1, <1>2, <1>3
  <2> QED
    BY <2>1, <2>2 DEF RunAt
<1> QED
  BY <1>1, <1>2, <1>4, <1>6 DEF UpdateAt

LEMMA SplitTrain ==
    ASSUME IInv, TrainInv, NEW r \in Ranks, Split(r)
    PROVE  TrainInv'
<1>1. /\ UNCHANGED driver /\ ~Dynamic /\ minis' = minis /\ steps' = steps /\ grads' = grads
      /\ at[r] = "gathered" /\ minis[r] # <<>> /\ at' = [at EXCEPT ![r] = "running"]
      /\ todo' = [todo EXCEPT ![r] = Micros(r, Pieces(Len(Batch(r)), conf.micro))]
  BY DEF Split
<1>2. DOMAIN at = Ranks /\ DOMAIN todo = Ranks
  BY DEF IInv, Typed
<1>3. ASSUME stage = "update_actor", NEW q \in Ranks PROVE UpdateAt(q)'
  <2>1. CASE q = r
    <3>1. PICK len \in Nat : len = Len(Batch(r))
      BY <1>1, <1>3, AtBatch
    <3>2. PICK k \in Nat \ {0} : k = conf.micro
      BY <1>1, InvFacts, ConfFacts DEF Dynamic
    <3>3. PICK left : left = Pieces(len, k) /\ todo'[r] = Micros(r, left)
      BY <1>1, <1>2, <3>1, <3>2, Zenon
    <3>4. Permuted(len, <<>>, left)
      BY <3>3, PiecesPermuted
    <3>5. ASSUME IsFull(Batch(r)) PROVE \A g \in 1 .. Len(left) : Len(left[g]) = k
      <4>1. PICK m \in Nat : m = MiniRows /\ (conf.micro # 0 => m % conf.micro = 0)
        BY InvFacts, MiniRowsFacts
      <4>2. len % k = 0
        BY <3>1, <3>2, <3>5, <4>1 DEF IsFull
      <4>3. Len(left) = PieceCount(len, k)
        BY <3>3, PiecesFacts
      <4> QED
        BY <3>3, <4>2, <4>3, FullPieces
    <3>6. at'[r] = "running" /\ minis'[r] = minis[r] /\ grads'[r] = grads[r]
      BY <1>1, <1>2
    <3>7. ~Dynamic /\ IsFull(Batch(r)) => \A g \in 1 .. Len(left) : Len(left[g]) = conf.micro
      BY <3>2, <3>5
    <3>8. Permuted(Len(Batch(r)), <<>>, left)
      BY <3>1, <3>4
    <3> QED
      BY <1>1, <1>3, <2>1, <3>3, <3>6, <3>7, <3>8, BeginTrain
  <2>2. CASE q # r
    <3>1. at'[q] = at[q] /\ minis'[q] = minis[q] /\ todo'[q] = todo[q] /\ grads'[q] = grads[q]
      BY <1>1, <1>2, <2>2
    <3>2. Updating /\ UpdateAt(q)
      BY <1>3 DEF TrainInv, Updating
    <3> QED
      BY <1>1, <3>1, <3>2, UpdateKept
  <2> QED
    BY <2>1, <2>2
<1> QED
  BY <1>1, <1>3, WorkerTrain

LEMMA RearrangeTrain ==
    ASSUME IInv, TrainInv, Rearrange
    PROVE  TrainInv'
<1>1. /\ UNCHANGED driver /\ Dynamic /\ minis' = minis /\ steps' = steps /\ grads' = grads
      /\ \A r \in Ranks : at[r] = "gathered" /\ minis[r] # <<>>
      /\ at' = [r \in Ranks |-> "running"]
  BY DEF Rearrange
<1> DEFINE rows(r) == Rows(r, Batch(r))
           all == {rows(r) : r \in Ranks}
           len == Len(Batch(0))
<1>2. PICK split \in [all -> UNION {Splits(len, m) : m \in 1 .. len}] :
          todo' = [r \in Ranks |-> Micros(r, split[rows(r)])]
  BY DEF Rearrange
<1>3. 0 \in Ranks
  BY InvFacts
<1>4. ASSUME stage = "update_actor", NEW r \in Ranks PROVE UpdateAt(r)'
  <2>1. PICK l \in Nat : l = len /\ Len(Batch(r)) = l
    <3>1. Batch(0) = Updates[Len(steps) + 1] /\ Len(Batch(0)) \in Nat
      BY <1>1, <1>3, <1>4, AtBatch
    <3>2. Batch(r) = Updates[Len(steps) + 1]
      BY <1>1, <1>4, AtBatch
    <3> QED
      BY <3>1, <3>2
  <2>2. rows(r) \in all
    OBVIOUS
  <2>3. PICK s : s = split[rows(r)]
    OBVIOUS
  <2>4. PICK m \in 1 .. l : s \in Splits(l, m)
    <3> HIDE DEF all, rows
    <3>1. split[rows(r)] \in UNION {Splits(len, m) : m \in 1 .. len}
      BY <2>2
    <3>2. s \in UNION {Splits(l, m) : m \in 1 .. l}
      BY <2>1, <2>3, <3>1
    <3> QED
      BY <3>2
  <2>5. Permuted(Len(Batch(r)), <<>>, s)
    <3>1. m \in Nat
      OBVIOUS
    <3> QED
      BY <2>1, <2>4, <3>1, SplitFacts
  <2>6. todo'[r] = Micros(r, s)
    <3> HIDE DEF rows
    <3> QED
      BY <1>2, <2>3
  <2>7. at'[r] = "running" /\ minis'[r] = minis[r] /\ grads'[r] = grads[r]
    BY <1>1
  <2> QED
    BY <1>1, <1>4, <2>5, <2>6, <2>7, BeginTrain
<1> QED
  BY <1>1, <1>4, WorkerTrain

LEMMA MicrosFacts ==
    ASSUME NEW r, NEW left, IsSeq(left)
    PROVE  /\ Micros(r, left) # <<>> <=> left # <<>>
           /\ left # <<>> =>
                 /\ Head(Micros(r, left)) = [i \in DOMAIN Head(left) |-> Batch(r)[Head(left)[i]]]
                 /\ Tail(Micros(r, left)) = Micros(r, Tail(left))
<1>1. PICK n \in Nat : n = Len(left) /\ DOMAIN left = 1 .. n /\ (n = 0 <=> left = <<>>)
  BY SeqFacts
<1>2. PICK ms : /\ ms = Micros(r, left) /\ DOMAIN ms = 1 .. n
                /\ \A g \in 1 .. n : ms[g] = [i \in DOMAIN left[g] |-> Batch(r)[left[g][i]]]
  <2>1. /\ DOMAIN Micros(r, left) = 1 .. n
        /\ \A g \in 1 .. n : Micros(r, left)[g] = [i \in DOMAIN left[g] |-> Batch(r)[left[g][i]]]
    BY <1>1 DEF Micros
  <2>2. PICK ms : ms = Micros(r, left)
    OBVIOUS
  <2> QED
    BY <2>1, <2>2
<1>3. IsSeq(ms) /\ Len(ms) = n
  <2>1. ms = [g \in 1 .. n |-> ms[g]]
    <3>1. Micros(r, left) = [g \in 1 .. n |-> [i \in DOMAIN left[g] |-> Batch(r)[left[g][i]]]]
      BY <1>1 DEF Micros
    <3> QED
      BY <1>2, <3>1
  <2> QED
    BY <2>1, FunctionIsSeq
<1>4. ms # <<>> <=> left # <<>>
  <2>1. ms = <<>> <=> n = 0
    BY <1>3, SeqFacts
  <2> QED
    BY <1>1, <2>1
<1>5. ASSUME left # <<>>
      PROVE  /\ Head(ms) = [i \in DOMAIN Head(left) |-> Batch(r)[Head(left)[i]]]
             /\ Tail(ms) = Micros(r, Tail(left))
  <2>1. /\ IsSeq(Tail(left)) /\ n \in Nat \ {0} /\ Len(Tail(left)) = n - 1
        /\ Head(left) = left[1] /\ \A i \in 1 .. n - 1 : Tail(left)[i] = left[i + 1]
    BY <1>1, <1>5, TailFacts
  <2>2. /\ IsSeq(Tail(ms)) /\ Len(Tail(ms)) = n - 1
        /\ Head(ms) = ms[1] /\ \A i \in 1 .. n - 1 : Tail(ms)[i] = ms[i + 1]
    BY <1>3, <1>4, <1>5, TailFacts
  <2>3. Head(ms) = [i \in DOMAIN Head(left) |-> Batch(r)[Head(left)[i]]]
    <3>1. 1 \in 1 .. n
      BY <2>1
    <3> QED
      BY <1>2, <2>1, <2>2, <3>1
  <2>4. PICK t : t = Tail(left) /\ DOMAIN t = 1 .. n - 1
    BY <2>1, SeqFacts
  <2>5. PICK u : u = Tail(ms) /\ u = [g \in 1 .. n - 1 |-> u[g]]
    BY <2>2, SeqFacts
  <2>6. \A g \in 1 .. n - 1 : u[g] = [i \in DOMAIN t[g] |-> Batch(r)[t[g][i]]]
    <3> SUFFICES ASSUME NEW g \in 1 .. n - 1
                 PROVE  u[g] = [i \in DOMAIN t[g] |-> Batch(r)[t[g][i]]]
      OBVIOUS
    <3>1. g + 1 \in 1 .. n /\ t[g] = left[g + 1] /\ u[g] = ms[g + 1]
      BY <1>1, <2>1, <2>2, <2>4, <2>5
    <3> QED
      BY <1>2, <3>1
  <2>7. u = [g \in DOMAIN t |-> [i \in DOMAIN t[g] |-> Batch(r)[t[g][i]]]]
    BY <2>4, <2>5, <2>6
  <2> QED
    BY <2>3, <2>4, <2>5, <2>7 DEF Micros
<1> QED
  BY <1>2, <1>4, <1>5

\* One micro-batch more.
LEMMA RunStep ==
    ASSUME IInv, TrainInv, Forward, stage = "update_actor", NEW r \in Ranks
    PROVE  RunAt(r)'
<1>1. /\ UNCHANGED driver /\ Remote /\ minis' = minis /\ at[r] = "running" /\ todo[r] # <<>>
      /\ todo'[r] = Tail(todo[r]) /\ grads'[r] = grads[r] (+) Gradient(r, Head(todo[r]))
  BY DEF Forward, Computing
<1>2. Updating /\ UpdateAt(r) /\ conf' = conf /\ batch' = batch /\ Updating' /\ conf \in Configs
  BY <1>1, SameCall, InvFacts DEF TrainInv, Updating
<1>3. /\ MiniRows' = MiniRows /\ Dynamic' = Dynamic /\ Ours(r)' = Ours(r)
      /\ \A mini : IsFull(mini)' = IsFull(mini)
  BY <1>2, SameUpdate
<1>4. PICK done, left :
         /\ Permuted(Len(Batch(r)), done, left) /\ todo[r] = Micros(r, left)
         /\ Summed(grads[r], Ours(r), Batch(r), done, MiniRows, IsFull(Batch(r)))
         /\ ~Dynamic /\ IsFull(Batch(r)) => \A g \in 1 .. Len(left) : Len(left[g]) = conf.micro
  BY <1>1, <1>2 DEF UpdateAt, RunAt
<1>5. Len(Batch(r)) \in Nat
  BY <1>1, AtBatch
<1>6. IsSeq(done) /\ IsSeq(left) /\ \A g \in 1 .. Len(left) : IsSeq(left[g])
  BY <1>4 DEF Permuted
<1>7. left # <<>>
  BY <1>1, <1>4, <1>6, MicrosFacts
<1>8. /\ Head(todo[r]) = [i \in DOMAIN Head(left) |-> Batch(r)[Head(left)[i]]]
      /\ todo'[r] = Micros(r, Tail(left))
  BY <1>1, <1>4, <1>6, <1>7, MicrosFacts
<1>9. PICK n \in Nat \ {0} :
         /\ n = Len(left) /\ IsSeq(Tail(left)) /\ Len(Tail(left)) = n - 1
         /\ Head(left) = left[1] /\ \A i \in 1 .. n - 1 : Tail(left)[i] = left[i + 1]
  BY <1>6, <1>7, TailFacts
<1>10. IsSeq(Head(left)) /\ (IsFull(Batch(r)) => Dynamic \/ Len(Head(left)) = conf.micro)
  <2>1. 1 \in 1 .. Len(left)
    BY <1>9
  <2> QED
    BY <1>4, <1>6, <1>9, <2>1
<1>11. Permuted(Len(Batch(r)), done \o Head(left), Tail(left))
  BY <1>4, <1>5, <1>7, PermutedStep
<1>12. data[r] = Ours(r)
  BY <1>1, WorkingFacts
<1>13. Summed(Gradient(r, Head(todo[r])), Ours(r), Batch(r), Head(left), MiniRows, IsFull(Batch(r)))
  BY <1>2, <1>8, <1>10, <1>12, GradientFacts
<1>14. Summed(grads'[r], Ours(r), Batch(r), done \o Head(left), MiniRows, IsFull(Batch(r)))
  BY <1>1, <1>4, <1>6, <1>10, <1>13, SummedJoined
<1>15. ~Dynamic /\ IsFull(Batch(r)) => \A g \in 1 .. Len(Tail(left)) : Len(Tail(left)[g]) = conf.micro
  <2> SUFFICES ASSUME ~Dynamic, IsFull(Batch(r)), NEW g \in 1 .. Len(Tail(left))
               PROVE  Len(Tail(left)[g]) = conf.micro
    OBVIOUS
  <2>1. g + 1 \in 1 .. Len(left) /\ Tail(left)[g] = left[g + 1]
    BY <1>9
  <2> QED
    BY <1>4, <2>1
<1>16. Batch(r)' = Batch(r) /\ \A s : Micros(r, s)' = Micros(r, s)
  BY <1>1 DEF Batch, Micros
<1>17. /\ Permuted(Len(Batch(r)'), done \o Head(left), Tail(left)) /\ todo'[r] = Micros(r, Tail(left))'
       /\ Summed(grads'[r], Ours(r)', Batch(r)', done \o Head(left), MiniRows', IsFull(Batch(r))')
       /\ ~Dynamic' /\ IsFull(Batch(r))' =>
             \A g \in 1 .. Len(Tail(left)) : Len(Tail(left)[g]) = conf'.micro
  BY <1>2, <1>3, <1>8, <1>11, <1>14, <1>15, <1>16
<1> QED
  BY <1>17 DEF RunAt

LEMMA ForwardTrain ==
    ASSUME IInv, TrainInv, Forward
    PROVE  TrainInv'
<1>1. /\ UNCHANGED driver /\ at' = at /\ minis' = minis /\ steps' = steps
      /\ \A r \in Ranks : at[r] = "running"
  BY DEF Forward
<1>2. ASSUME stage # "update_actor" PROVE \A r \in Ranks : grads'[r] = grads[r]
  BY <1>2 DEF Forward
<1>3. ASSUME stage = "update_actor", NEW r \in Ranks PROVE UpdateAt(r)'
  <2>1. Updating /\ UpdateAt(r) /\ conf' = conf /\ batch' = batch /\ Updating'
    BY <1>1, <1>3, SameCall DEF TrainInv, Updating
  <2>2. Updates' = Updates
    BY <2>1, SameUpdate
  <2>3. RunAt(r)'
    BY <1>3, RunStep
  <2> QED
    BY <1>1, <2>1, <2>2, <2>3 DEF UpdateAt
<1> QED
  BY <1>1, <1>2, <1>3, WorkerTrain

LEMMA AppendFacts ==
    ASSUME NEW s, IsSeq(s), NEW x
    PROVE  /\ IsSeq(Append(s, x)) /\ Len(Append(s, x)) = Len(s) + 1
           /\ \A i \in 1 .. Len(s) : Append(s, x)[i] = s[i]
           /\ Append(s, x)[Len(s) + 1] = x
<1> DEFINE S == Range(s) \cup {x}
<1>1. s \in Seq(S) /\ x \in S
  <2>1. s \in Seq(S)
    BY SeqMonotonic DEF IsSeq
  <2> QED
    BY <2>1
<1> HIDE DEF S
<1>2. /\ Append(s, x) \in Seq(S) /\ Len(Append(s, x)) = Len(s) + 1
      /\ \A i \in 1 .. Len(s) : Append(s, x)[i] = s[i]
      /\ Append(s, x)[Len(s) + 1] = x
  BY <1>1, AppendProperties
<1>3. Append(s, x) \in Seq(Range(Append(s, x)))
  <2>1. PICK u : u = Append(s, x) /\ u \in Seq(S)
    BY <1>2
  <2>2. u \in Seq(Range(u))
    BY <2>1, SeqOfRange
  <2> QED
    BY <2>1, <2>2
<1> QED
  BY <1>2, <1>3 DEF IsSeq

LEMMA OptimizerStepTrain ==
    ASSUME IInv, TrainInv, OptimizerStep
    PROVE  TrainInv'
<1>1. /\ UNCHANGED driver /\ stage = "update_actor" /\ steps' = Append(steps, grads)
      /\ \A r \in Ranks : at[r] = "running" /\ todo[r] = <<>>
      /\ grads' = [r \in Ranks |-> EmptyBag] /\ minis' = [r \in Ranks |-> Tail(minis[r])]
      /\ at' = [r \in Ranks |-> "gathered"]
  BY DEF OptimizerStep
<1>2. /\ Updating /\ StepsInv /\ conf' = conf /\ batch' = batch /\ Updating' /\ 0 \in Ranks
      /\ stage' = stage /\ ~Generating /\ Generating' = Generating
  BY <1>1, SameCall, InvFacts DEF TrainInv, Updating, Generating
<1>3. /\ Ranks' = Ranks /\ Updates' = Updates /\ MiniRows' = MiniRows
      /\ Distinct(batch)' = Distinct(batch) /\ \A r : Ours(r)' = Ours(r)
      /\ \A mini : IsFull(mini)' = IsFull(mini)
  BY <1>2, SameUpdate
<1>4. PICK n \in Nat, u \in Nat : n = Len(steps) /\ u = Len(Updates) /\ n + 1 \in 1 .. u
  BY <1>1, <1>2, AtBatch
<1>5. /\ IsSeq(steps') /\ Len(steps') = n + 1
      /\ \A k \in 1 .. n : steps'[k] = steps[k]
      /\ steps'[n + 1] = grads
  <2>1. IsSeq(steps)
    BY <1>2 DEF StepsInv
  <2> QED
    BY <1>1, <1>4, <2>1, AppendFacts
<1>6. ASSUME NEW r \in Ranks PROVE StepAt(n + 1, r)'
  <2>1. UpdateAt(r) /\ at[r] = "running" /\ todo[r] = <<>>
    BY <1>1 DEF TrainInv
  <2>2. PICK done, left :
           /\ Permuted(Len(Batch(r)), done, left) /\ todo[r] = Micros(r, left)
           /\ Summed(grads[r], Ours(r), Batch(r), done, MiniRows, IsFull(Batch(r)))
    BY <2>1 DEF UpdateAt, RunAt
  <2>3. left = <<>>
    <3>1. IsSeq(left)
      BY <2>2 DEF Permuted
    <3> QED
      BY <2>1, <2>2, <3>1, MicrosFacts
  <2>4. Batch(r) = Updates[n + 1] /\ Len(Batch(r)) \in Nat
    BY <1>1, <1>4, <2>1, AtBatch
  <2>5. Lists(done, 1 .. Len(Batch(r))) /\ Len(done) = Len(Batch(r))
    BY <2>2, <2>3, <2>4, PermutedEnd
  <2>6. /\ Lists(done, 1 .. Len(Updates'[n + 1])) /\ Len(done) = Len(Updates'[n + 1])
        /\ Summed(steps'[n + 1][r], Ours(r)', Updates'[n + 1], done, MiniRows', IsFull(Updates[n + 1])')
    BY <1>3, <1>5, <2>2, <2>4, <2>5
  <2> QED
    BY <2>6 DEF StepAt
<1>7. ASSUME NEW k \in 1 .. n, NEW r \in Ranks PROVE StepAt(k, r)'
  <2>1. StepAt(k, r) /\ steps'[k] = steps[k]
    BY <1>2, <1>4, <1>5 DEF StepsInv
  <2> QED
    BY <1>3, <2>1 DEF StepAt
<1>8. StepsInv'
  <2>1. \A k \in 1 .. n + 1 : k \in 1 .. n \/ k = n + 1
    OBVIOUS
  <2>2. \A k \in 1 .. n + 1 : \A r \in Ranks : StepAt(k, r)'
    BY <1>6, <1>7, <2>1
  <2>3. Len(steps') <= Len(Updates')
    BY <1>3, <1>4, <1>5
  <2> QED
    BY <1>3, <1>5, <2>2, <2>3 DEF StepsInv
<1>9. ASSUME NEW r \in Ranks PROVE UpdateAt(r)'
  <2>1. minis'[r] = Left(Updates, n + 1) /\ at'[r] = "gathered" /\ grads'[r] = EmptyBag
    BY <1>1, <1>4, AtBatch
  <2> QED
    BY <1>3, <1>5, <2>1 DEF UpdateAt
<1>10. Distinct(batch)
  BY <1>1, <1>2 DEF TrainInv
<1> QED
  BY <1>1, <1>2, <1>3, <1>8, <1>9, <1>10 DEF TrainInv

LEMMA ReturnTrain ==
    ASSUME IInv, TrainInv, NEW r \in Ranks, Return(r)
    PROVE  TrainInv'
<1>1. /\ UNCHANGED driver /\ todo' = todo /\ steps' = steps /\ grads' = grads
      /\ at' = [at EXCEPT ![r] = "finished"] /\ minis' = [minis EXCEPT ![r] = <<>>]
  BY DEF Return
<1>2. DOMAIN at = Ranks /\ DOMAIN minis = Ranks
  BY DEF IInv, Typed
<1>3. ASSUME stage = "update_actor", NEW q \in Ranks PROVE UpdateAt(q)'
  <2>1. Updating /\ UpdateAt(q) /\ conf' = conf /\ batch' = batch /\ Updating' /\ StepsInv
    BY <1>1, <1>3, SameCall DEF TrainInv, Updating
  <2>2. Updates' = Updates /\ IsSeq(Updates)
    BY <2>1, SameUpdate, UpdatesFacts
  <2>3. CASE q = r
    <3>1. at[q] = "gathered" /\ minis[q] = <<>> /\ at'[q] = "finished"
      BY <1>1, <1>2, <1>3, <2>3 DEF Return
    <3>2. PICK n \in Nat : n = Len(steps) /\ n <= Len(Updates) /\ Len(Updates) \in Nat
      BY <2>1, <2>2, SeqFacts DEF StepsInv
    <3>3. ~(n < Len(Updates))
      BY <2>1, <2>2, <3>1, <3>2, LeftOfUpdates DEF UpdateAt
    <3>4. n = Len(Updates)
      BY <3>2, <3>3
    <3> QED
      BY <1>1, <2>1, <2>2, <3>1, <3>2, <3>4 DEF UpdateAt
  <2>4. CASE q # r
    <3>1. at'[q] = at[q] /\ minis'[q] = minis[q] /\ todo'[q] = todo[q] /\ grads'[q] = grads[q]
      BY <1>1, <1>2, <2>4
    <3> QED
      BY <1>1, <2>1, <3>1, UpdateKept
  <2> QED
    BY <2>3, <2>4
<1> QED
  BY <1>1, <1>3, WorkerTrain

--------------------------------------------------------------------------------
(* The steps of the driver around the update *)

\* _balance_batch leaves every row once.
LEMMA BalancedDistinct ==
    ASSUME conf \in Configs, NEW rows, IsSeq(rows), NEW out \in Balanced(rows), Distinct(rows)
    PROVE  Distinct(out)
<1>1. CASE ~conf.balance
  BY <1>1 DEF Balanced
<1>2. CASE conf.balance
  <2>1. PICK len \in Nat, m \in Nat \ {0} : len = Len(rows) /\ m = conf.world
    BY SeqFacts, ConfFacts
  <2>2. PICK split \in Splits(len, m) : out = Reorder(rows, Concat(split))
    BY <1>2, <2>1 DEF Balanced, EqualSplits
  <2>3. Lists(Concat(split), 1 .. len) /\ Len(Concat(split)) = len
    BY SplitJoined
  <2>4. PICK idx : /\ idx = Concat(split) /\ IsSeq(idx) /\ Len(idx) = len
                   /\ \A i \in 1 .. len : idx[i] \in 1 .. len
                   /\ \A i, j \in 1 .. len : idx[i] = idx[j] => i = j
    BY <2>3 DEF Lists
  <2>5. /\ IsSeq(Reorder(rows, idx)) /\ Len(Reorder(rows, idx)) = len
        /\ \A i \in 1 .. len : Reorder(rows, idx)[i] = rows[idx[i]]
    BY <2>4, ReorderFacts
  <2>6. ASSUME NEW i \in 1 .. len, NEW j \in 1 .. len, out[i].response = out[j].response PROVE i = j
    <3>1. rows[idx[i]].response = rows[idx[j]].response
      BY <2>2, <2>4, <2>5, <2>6
    <3>2. idx[i] = idx[j]
      BY <2>1, <2>4, <3>1 DEF Distinct
    <3> QED
      BY <2>4, <3>2
  <2> QED
    BY <2>2, <2>4, <2>5, <2>6 DEF Distinct
<1> QED
  BY <1>1, <1>2

\* Different answers to the rows make a batch of different responses.
LEMMA ResponsesDistinct ==
    ASSUME IInv, Generating, NEW out, WithResponses(out), stage' # "raised", NEW y,
           \A i \in 1 .. conf.batch * conf.n : out[i] = [response |-> y[i]],
           \A i, j \in 1 .. conf.batch * conf.n : y[i] = y[j] => i = j
    PROVE  Distinct(batch')
<1>a. PICK rows : rows = Repeat(batch, conf.n)
  OBVIOUS
<1>1. PICK len \in Nat :
         /\ len = conf.batch * conf.n /\ IsSeq(rows) /\ Len(rows) = len
         /\ \A i \in 1 .. len : \E p : rows[i] = NewRow(p)
  BY <1>a, RepeatedFacts
<1>2. PICK joined : /\ joined = Union(rows, out) /\ IsSeq(joined) /\ Len(joined) = len
                    /\ \A i \in 1 .. len : joined[i] = Joined(rows[i], out[i])
  BY <1>1, UnionFacts
<1>3. batch' \in Balanced(joined)
  BY <1>a, <1>2 DEF WithResponses, Raise
<1>4. ASSUME NEW i \in 1 .. len PROVE joined[i].response = y[i]
  <2>1. PICK p : rows[i] = NewRow(p)
    BY <1>1
  <2>2. DOMAIN NewRow(p) = Columns
    BY DEF NewRow, Columns
  <2>3. Joined(NewRow(p), [response |-> y[i]]) = [NewRow(p) EXCEPT !.response = y[i]]
    BY <2>2, JoinedFacts
  <2>4. joined[i] = [NewRow(p) EXCEPT !.response = y[i]]
    BY <1>1, <1>2, <2>1, <2>3
  <2> QED
    BY <2>4 DEF NewRow
<1>5. Distinct(joined)
  BY <1>1, <1>2, <1>4 DEF Distinct
<1> QED
  BY <1>2, <1>3, <1>5, InvFacts, BalancedDistinct

LEMMA GeneratedDistinct ==
    ASSUME IInv, Generated
    PROVE  Distinct(batch')
<1>1. Collect("generate") /\ WithResponses(Collected) /\ stage = "generate" /\ Generating
  BY DEF Generated, Collect, Generating
<1>2. Collected = Responses(batch) /\ ResponsesToPrompt = conf.n /\ conf \in Configs /\ IsSeq(batch)
  BY <1>1, InvFacts, CollectedFacts, SentFacts DEF Result, ResponsesToPrompt
<1>3. PICK b \in Nat \ {0}, n \in Nat \ {0} : b = conf.batch /\ n = conf.n
  BY <1>2, ConfFacts
<1>4. batch = [p \in 1 .. b |-> NewRow(p)] /\ Len(batch) = b
  BY <1>1, <1>3, RepeatedFacts DEF IInv, BatchInv
<1>5. Repeats(batch, n, b)
  BY <1>2, <1>4, RepeatFacts
<1>6. b * n \in Nat
  OBVIOUS
<1> DEFINE y == [i \in 1 .. b * n |-> <<((i - 1) \div n) + 1, ((i - 1) % n) + 1>>]
<1>7. ASSUME NEW i \in 1 .. b * n PROVE Collected[i] = [response |-> y[i]]
  <2>1. PICK j \in 1 .. b : j = ((i - 1) \div n) + 1 /\ Repeat(batch, n)[i] = batch[j]
    BY <1>5, Zenon DEF Repeats
  <2>2. Repeat(batch, n)[i].prompt = j
    BY <1>4, <2>1 DEF NewRow
  <2>3. Responses(batch)[i] = [response |-> <<Repeat(batch, n)[i].prompt, ((i - 1) % n) + 1>>]
    BY <1>2, <1>3, <1>4, ResponsesFacts
  <2>4. y[i] = <<((i - 1) \div n) + 1, ((i - 1) % n) + 1>>
    OBVIOUS
  <2> HIDE DEF y
  <2> QED
    BY <1>2, <2>1, <2>2, <2>3, <2>4, Zenon
<1>8. ASSUME NEW i \in 1 .. b * n, NEW j \in 1 .. b * n, y[i] = y[j] PROVE i = j
  <2>1. i - 1 \in Nat /\ j - 1 \in Nat
    OBVIOUS
  <2>2. PICK q \in Nat : \E t \in 0 .. n - 1 : q = (i - 1) \div n /\ t = (i - 1) % n /\ i - 1 = q * n + t
    BY <2>1, Division
  <2>3. PICK t \in 0 .. n - 1 : q = (i - 1) \div n /\ t = (i - 1) % n /\ i - 1 = q * n + t
    BY <2>2
  <2>4. PICK p \in Nat : \E u \in 0 .. n - 1 : p = (j - 1) \div n /\ u = (j - 1) % n /\ j - 1 = p * n + u
    BY <2>1, Division
  <2>5. PICK u \in 0 .. n - 1 : p = (j - 1) \div n /\ u = (j - 1) % n /\ j - 1 = p * n + u
    BY <2>4
  <2>6. y[i] = <<q + 1, t + 1>> /\ y[j] = <<p + 1, u + 1>>
    <3>1. /\ y[i] = <<((i - 1) \div n) + 1, ((i - 1) % n) + 1>>
          /\ y[j] = <<((j - 1) \div n) + 1, ((j - 1) % n) + 1>>
      OBVIOUS
    <3> HIDE DEF y
    <3> QED
      BY <2>3, <2>5, <3>1, Zenon
  <2>7. q + 1 = p + 1 /\ t + 1 = u + 1
    <3> HIDE DEF y
    <3>1. <<q + 1, t + 1>> = <<p + 1, u + 1>>
      BY <1>8, <2>6, Zenon
    <3> QED
      BY <3>1
  <2>8. q = p /\ t = u
    BY <2>7
  <2>9. i - 1 = j - 1
    BY <2>3, <2>5, <2>8, Zenon
  <2> QED
    BY <2>9
<1>9. stage' # "raised"
  BY GeneratedInv
<1> HIDE DEF y
<1>10. /\ \A i \in 1 .. conf.batch * conf.n : Collected[i] = [response |-> y[i]]
       /\ \A i, j \in 1 .. conf.batch * conf.n : y[i] = y[j] => i = j
  BY <1>3, <1>7, <1>8
<1> QED
  BY <1>1, <1>9, <1>10, ResponsesDistinct

LEMMA OfflineDistinct ==
    ASSUME IInv, OfflineResponses, stage' # "raised"
    PROVE  Distinct(batch')
<1>1. stage = "generate" /\ Generating
  BY DEF OfflineResponses, Generating
<1>2. PICK out : out = [i \in DOMAIN batch |-> [response |-> <<batch[i].prompt, 1>>]] /\ WithResponses(out)
  BY DEF OfflineResponses
<1>3. PICK b \in Nat \ {0}, n \in Nat \ {0} : b = conf.batch /\ n = conf.n
  BY InvFacts, ConfFacts
<1>4. /\ batch = [p \in 1 .. b |-> NewRow(p)] /\ DOMAIN batch = 1 .. b
      /\ Len(Repeat(batch, conf.n)) = conf.batch * conf.n
  BY <1>1, <1>3, RepeatedFacts DEF IInv, BatchInv
<1>5. Len(out) = b
  <2>1. out = [i \in 1 .. b |-> out[i]]
    BY <1>2, <1>4
  <2> QED
    BY <2>1, FunctionIsSeq
<1>6. conf.batch * conf.n = b
  BY <1>2, <1>4, <1>5 DEF WithResponses, Raise, CanUnion
<1> DEFINE y == [i \in 1 .. b |-> <<i, 1>>]
<1>7. \A i \in 1 .. b : out[i] = [response |-> y[i]]
  BY <1>2, <1>4 DEF NewRow
<1>8. \A i, j \in 1 .. b : y[i] = y[j] => i = j
  OBVIOUS
<1> HIDE DEF y
<1>9. /\ \A i \in 1 .. conf.batch * conf.n : out[i] = [response |-> y[i]]
      /\ \A i, j \in 1 .. conf.batch * conf.n : y[i] = y[j] => i = j
  BY <1>6, <1>7, <1>8
<1>10. WithResponses(out)
  BY <1>2
<1> QED
  BY <1>1, <1>9, <1>10, ResponsesDistinct

\* Columns other than the response are put in the rows.
LEMMA DistinctKept ==
    ASSUME Distinct(batch), Len(batch') = Len(batch),
           \A i \in 1 .. Len(batch) : batch'[i].response = batch[i].response
    PROVE  Distinct(batch')
BY DEF Distinct

LEMMA LogsDistinct ==
    ASSUME IInv, TrainInv, NEW s \in {"old_log_prob", "ref_log_prob"}, Collect(s),
           batch' = Union(batch, Collected)
    PROVE  Distinct(batch')
<1>1. stage = s /\ ~Generating /\ stage # "raised"
  BY DEF Collect, Generating
<1>2. PICK len \in Nat : len = Len(batch) /\ IsSeq(batch) /\ \A i \in 1 .. len : Aligned(batch[i])
  BY <1>1, SeqFacts DEF IInv, BatchInv
<1>3. Collected = Logs(batch)
  BY <1>1, CollectedFacts, InvFacts, SentFacts DEF Result
<1>4. \A i \in 1 .. len : Collected[i] = LogProb(batch[i].response)
  BY <1>2, <1>3, LogsFacts
<1>5. Len(batch') = len /\ \A i \in 1 .. len : batch'[i] = Joined(batch[i], Collected[i])
  BY <1>2, UnionFacts
<1>6. ASSUME NEW i \in 1 .. len PROVE batch'[i].response = batch[i].response
  <2>1. DOMAIN batch[i] = Columns
    BY <1>2 DEF Aligned
  <2>2. PICK y : y = batch[i].response
    OBVIOUS
  <2>3. batch'[i] = [batch[i] EXCEPT !.old = y] \/ batch'[i] = [batch[i] EXCEPT !.ref = y]
    <3>1. Joined(batch[i], [old |-> y]) = [batch[i] EXCEPT !.old = y]
      BY <2>1, JoinedFacts
    <3>2. Joined(batch[i], [ref |-> y]) = [batch[i] EXCEPT !.ref = y]
      BY <2>1, JoinedFacts
    <3>3. Collected[i] \in {[old |-> y], [ref |-> y]}
      BY <1>4, <2>2 DEF LogProb
    <3> QED
      BY <1>5, <3>1, <3>2, <3>3
  <2> QED
    BY <2>1, <2>3 DEF Columns
<1>7. Distinct(batch)
  BY <1>1 DEF TrainInv
<1> QED
  BY <1>2, <1>5, <1>6, <1>7, DistinctKept

\* Before the update nothing is trained.
LEMMA DriverTrain ==
    ASSUME TrainInv, conf' = conf, steps' = steps, grads' = grads, ~Updating, stage # "raised",
           stage' \in {"generate", "old_log_prob", "ref_log_prob", "adv"},
           stage' # "generate" => Distinct(batch')
    PROVE  TrainInv'
<1>1. Ranks' = Ranks /\ ~Updating' /\ stage' # "raised" /\ (~Generating' => Distinct(batch)')
  BY DEF Ranks, Updating, Generating, Distinct
<1> QED
  BY <1>1 DEF TrainInv, Updating

LEMMA InitTrain ==
    ASSUME Init
    PROVE  TrainInv
BY DEF Init, TrainInv, Updating, Generating

LEMMA DispatchTrain ==
    ASSUME IInv, TrainInv, Dispatch
    PROVE  TrainInv'
<1>1. CASE ~CanChunk(Sent, conf.world)
  BY <1>1 DEF Dispatch, Raise, TrainInv, Updating
<1>2. CASE CanChunk(Sent, conf.world)
  <2>1. /\ UNCHANGED driver /\ minis' = minis /\ todo' = todo /\ steps' = steps /\ grads' = grads
        /\ at' = [r \in Ranks |-> "called"] /\ \A r \in Ranks : at[r] = "idle"
    BY <1>2 DEF Dispatch
  <2>2. ASSUME stage = "update_actor", NEW q \in Ranks PROVE UpdateAt(q)'
    <3>1. UpdateAt(q) /\ at[q] = "idle" /\ at'[q] = "called"
      BY <2>1, <2>2 DEF TrainInv
    <3> QED
      BY <2>1, <3>1 DEF UpdateAt
  <2> QED
    BY <2>1, <2>2, WorkerTrain
<1> QED
  BY <1>1, <1>2

LEMMA UpdatesLen == IInv /\ Updating => Len(Updates) \in Nat
BY UpdatesFacts, SeqFacts

LEMMA AdvantageTrain ==
    ASSUME IInv, TrainInv, Advantage
    PROVE  TrainInv'
<1>1. /\ stage = "adv" /\ ~Generating /\ ~Remote /\ ~Updating /\ stage # "raised"
      /\ stage' = "update_actor" /\ conf' = conf
      /\ batch' = [i \in DOMAIN batch |-> [batch[i] EXCEPT !.score = reward[i]]]
      /\ at' = at /\ steps' = steps /\ grads' = grads
  BY DEF Advantage, Generating, Remote, Updating, workers
<1>2. Ranks' = Ranks
  BY <1>1 DEF Ranks
<1>3. Distinct(batch')
  <2>1. PICK len \in Nat : /\ len = Len(batch) /\ DOMAIN batch = 1 .. len
                           /\ \A i \in 1 .. len : Aligned(batch[i])
    BY <1>1, SeqFacts DEF IInv, BatchInv
  <2>2. Len(batch') = len
    <3>1. batch' = [i \in 1 .. len |-> batch'[i]]
      BY <1>1, <2>1
    <3> QED
      BY <3>1, FunctionIsSeq
  <2>3. \A i \in 1 .. len : batch'[i].response = batch[i].response
    BY <1>1, <2>1 DEF Aligned, Columns
  <2> QED
    BY <1>1, <2>1, <2>2, <2>3, DistinctKept DEF TrainInv
<1>4. steps = <<>> /\ \A r \in Ranks : at[r] = "idle" /\ grads[r] = EmptyBag
  BY <1>1 DEF TrainInv, IInv, Uncalled
<1>5. \A r \in Ranks : UpdateAt(r)'
  BY <1>1, <1>4 DEF UpdateAt
<1>6. StepsInv'
  <2>1. IInv' /\ Updating'
    BY <1>1, AdvantageInv DEF Updating
  <2>2. Len(Updates)' \in Nat
    <3>1. (IInv /\ Updating)' => (Len(Updates) \in Nat)'
      BY UpdatesLen, PTL
    <3> QED
      BY <2>1, <3>1
  <2>3. steps' = <<>> /\ IsSeq(steps') /\ Len(steps') = 0
    BY <1>1, <1>4, EmptyIsSeq
  <2> QED
    BY <2>2, <2>3 DEF StepsInv
<1> QED
  BY <1>1, <1>2, <1>3, <1>5, <1>6 DEF TrainInv, Generating, Updating, Distinct

LEMMA UpdatedTrain ==
    ASSUME IInv, TrainInv, Updated
    PROVE  TrainInv'
<1>1. /\ stage = "update_actor" /\ stage' = "done" /\ conf' = conf /\ batch' = batch
      /\ steps' = steps /\ grads' = grads /\ \A r \in Ranks : at[r] = "finished"
  BY DEF Updated, Collect
<1>2. Updating /\ Updating' /\ StepsInv /\ Distinct(batch)
  BY <1>1 DEF TrainInv, Updating, Generating
<1>3. StepsInv' /\ Updates' = Updates /\ Distinct(batch)'
  BY <1>1, <1>2, StepsKept, SameUpdate
<1>4. Len(steps) = Len(Updates)
  <2>1. 0 \in Ranks
    BY InvFacts
  <2> QED
    BY <1>1, <2>1 DEF TrainInv, UpdateAt
<1> QED
  BY <1>1, <1>2, <1>3, <1>4 DEF TrainInv

\* The steps that change neither the call nor the ranks.
LEMMA QuietTrain ==
    ASSUME TrainInv, UNCHANGED <<conf, stage, batch, workers>>
    PROVE  TrainInv'
<1>1. /\ Ranks' = Ranks /\ Generating' = Generating /\ Updating' = Updating /\ Dynamic' = Dynamic
      /\ MiniRows' = MiniRows /\ GroupSize' = GroupSize /\ Sent' = Sent
  BY DEF Ranks, Generating, Updating, Dynamic, MiniRows, GroupSize, Sent, ValRows
<1>2. Each' = Each
  BY <1>1 DEF Each
<1>3. /\ Updates' = Updates /\ \A r : Ours(r)' = Ours(r) /\ Batch(r)' = Batch(r)
      /\ \A mini : IsFull(mini)' = IsFull(mini)
  BY <1>1, <1>2 DEF Updates, Ours, Part, Batch, IsFull, workers
<1>4. \A r, left : Micros(r, left)' = Micros(r, left)
  BY <1>3 DEF Micros
<1>5. \A r : RunAt(r)' = RunAt(r)
  BY <1>1, <1>3, <1>4 DEF RunAt, workers
<1>6. \A r : UpdateAt(r)' = UpdateAt(r)
  BY <1>3, <1>5 DEF UpdateAt, workers
<1>7. \A k, r : StepAt(k, r)' = StepAt(k, r)
  BY <1>1, <1>3 DEF StepAt, workers
<1>8. StepsInv' = StepsInv
  BY <1>1, <1>3, <1>7 DEF StepsInv, workers
<1> QED
  BY <1>1, <1>3, <1>6, <1>8 DEF TrainInv, Distinct, workers

LEMMA NextTrain ==
    ASSUME IInv, TrainInv, [Next]_vars
    PROVE  TrainInv'
<1>1. CASE Dispatch
  BY <1>1, DispatchTrain
<1>2. CASE Validated
  BY <1>2, DriverTrain DEF Validated, Collect, Updating
<1>3. CASE Generated
  <2>1. /\ stage = "generate" /\ steps' = steps /\ grads' = grads /\ WithResponses(Collected)
        /\ stage' # "raised"
    BY <1>3, GeneratedInv DEF Generated, Collect
  <2>2. conf' = conf /\ stage' = "old_log_prob"
    BY <2>1 DEF WithResponses, Raise
  <2>3. Distinct(batch')
    BY <1>3, GeneratedDistinct
  <2> QED
    BY <2>1, <2>2, <2>3, DriverTrain DEF Updating
<1>4. CASE OfflineResponses
  <2>1. /\ stage = "generate" /\ steps' = steps /\ grads' = grads
        /\ \E out : WithResponses(out)
    BY <1>4 DEF OfflineResponses, workers
  <2>2. CASE stage' = "raised"
    BY <2>2 DEF TrainInv, Updating
  <2>3. CASE stage' # "raised"
    <3>1. conf' = conf /\ stage' = "old_log_prob"
      BY <2>1, <2>3 DEF WithResponses, Raise
    <3>2. Distinct(batch')
      BY <1>4, <2>3, OfflineDistinct
    <3> QED
      BY <2>1, <3>1, <3>2, DriverTrain DEF Updating
  <2> QED
    BY <2>2, <2>3
<1>5. CASE OldLogProbs
  <2>1. Distinct(batch')
    BY <1>5, LogsDistinct DEF OldLogProbs
  <2> QED
    BY <1>5, <2>1, DriverTrain DEF OldLogProbs, Collect, Updating
<1>6. CASE RefLogProbs
  <2>1. Distinct(batch')
    BY <1>6, LogsDistinct DEF RefLogProbs
  <2> QED
    BY <1>6, <2>1, DriverTrain DEF RefLogProbs, Collect, Updating
<1>7. CASE Advantage
  BY <1>7, AdvantageTrain
<1>8. CASE Updated
  BY <1>8, UpdatedTrain
<1>9. CASE Rearrange
  BY <1>9, RearrangeTrain
<1>10. CASE Forward
  BY <1>10, ForwardTrain
<1>11. CASE OptimizerStep
  BY <1>11, OptimizerStepTrain
<1>12. ASSUME NEW r \in Ranks, Gather(r)
       PROVE  TrainInv'
  BY <1>12, GatherTrain
<1>13. ASSUME NEW r \in Ranks, Generate(r)
       PROVE  TrainInv'
  <2>1. CASE PromptCopies # ResponsesToPrompt
    BY <1>13, <2>1 DEF Generate, Raise, TrainInv, Updating
  <2>2. CASE PromptCopies = ResponsesToPrompt
    <3>1. UNCHANGED driver /\ steps' = steps /\ grads' = grads /\ stage # "update_actor"
      BY <1>13, <2>2 DEF Generate, Generating
    <3> QED
      BY <3>1, WorkerTrain
  <2> QED
    BY <2>1, <2>2
<1>14. ASSUME NEW r \in Ranks, Split(r)
       PROVE  TrainInv'
  BY <1>14, SplitTrain
<1>15. ASSUME NEW r \in Ranks, Return(r)
       PROVE  TrainInv'
  BY <1>15, ReturnTrain
<1>16. CASE RewardComputed \/ UNCHANGED vars
  <2>1. UNCHANGED <<conf, stage, batch, workers>>
    BY <1>16 DEF RewardComputed, vars, driver
  <2> QED
    BY <2>1, QuietTrain
<1> QED
  BY <1>1, <1>2, <1>3, <1>4, <1>5, <1>6, <1>7, <1>8, <1>9, <1>10, <1>11, <1>12, <1>13, <1>14,
     <1>15, <1>16, Zenon DEF Next, Driver, Worker

--------------------------------------------------------------------------------
(* What the gradients have *)

\* At the end all steps of all epochs are taken.
LEMMA AtEnd ==
    ASSUME IInv, TrainInv, stage = "done"
    PROVE  \E len \in Nat \ {0}, m \in Nat \ {0}, all \in Nat :
              /\ len = GroupSize * Each /\ m = MiniRows /\ all = PieceCount(len, m)
              /\ EpochsAre(Updates, Pieces(len, m), all, conf.epochs)
              /\ conf.epochs \in Nat
              /\ conf.epochs # 0 => StepsInEpoch = all
              /\ IsSeq(steps) /\ Len(steps) = Len(Updates) /\ DOMAIN steps = 1 .. Len(Updates)
              /\ \A k \in 1 .. Len(Updates) : \A r \in Ranks : StepAt(k, r)
<1>1. Updating /\ StepsInv /\ Len(steps) = Len(Updates)
  BY DEF TrainInv, Updating
<1>2. PICK len \in Nat \ {0}, m \in Nat \ {0}, all \in Nat :
         /\ len = GroupSize * Each /\ m = MiniRows /\ all = PieceCount(len, m)
         /\ EpochsAre(Updates, Pieces(len, m), all, conf.epochs)
  BY <1>1, UpdatesFacts
<1>3. conf.epochs \in Nat
  BY InvFacts, ConfFacts
<1>4. ASSUME conf.epochs # 0 PROVE StepsInEpoch = all
  <2>1. PICK n \in Nat \ {0} : n = conf.epochs
    BY <1>3, <1>4
  <2>2. Len(steps) = n * all
    BY <1>1, <1>2, <2>1 DEF EpochsAre
  <2>3. (n * all) \div n = all
    BY Multiple
  <2> QED
    BY <2>1, <2>2, <2>3, Zenon DEF StepsInEpoch
<1>5. IsSeq(steps) /\ DOMAIN steps = 1 .. Len(Updates)
  BY <1>1, SeqFacts DEF StepsInv
<1> QED
  BY <1>1, <1>2, <1>3, <1>4, <1>5 DEF StepsInv

LEMMA Means ==
    ASSUME IInv, TrainInv
    PROVE  MiniBatchMeans
<1> SUFFICES ASSUME stage = "done", NEW k \in DOMAIN steps, k % StepsInEpoch # 0, NEW r \in Ranks
             PROVE  LET rows == Cardinality(Terms(steps[k][r]))
                        groups == conf.world \div conf.sp
                    IN  /\ rows * groups <= conf.mini * conf.n
                        /\ conf.mini * conf.n < (rows + 1) * groups
                        /\ \A x \in DOMAIN steps[k][r] : x.weight = rows
  BY DEF MiniBatchMeans
<1>1. PICK len \in Nat \ {0}, m \in Nat \ {0}, all \in Nat :
         /\ m = MiniRows /\ all = PieceCount(len, m)
         /\ EpochsAre(Updates, Pieces(len, m), all, conf.epochs)
         /\ conf.epochs \in Nat
         /\ conf.epochs # 0 => StepsInEpoch = all
         /\ k \in 1 .. Len(Updates) /\ StepAt(k, r)
  BY AtEnd
<1>2. PICK n \in Nat : n = conf.epochs
  BY <1>1
<1>3. StepsInEpoch = all
  <2>1. n # 0
    <3>1. n = 0 => n * all = 0
      BY <1>1
    <3> QED
      BY <1>1, <1>2, <3>1 DEF EpochsAre
  <2> QED
    BY <1>1, <1>2, <2>1
<1>4. PICK g \in 1 .. all : g < all /\ Updates[k] = Pieces(len, m)[g]
  <2>1. k % all # 0
    BY <1>3, Zenon
  <2>2. /\ Nth(k, all) \in 1 .. all /\ Updates[k] = Pieces(len, m)[Nth(k, all)]
        /\ k % all # 0 => Nth(k, all) < all
    BY <1>1, <1>2, EpochEntry
  <2> QED
    BY <2>1, <2>2
<1>5. Len(Updates[k]) = m
  BY <1>1, <1>4, FullPieces
<1>6. PICK done : /\ Len(done) = Len(Updates[k])
                  /\ Summed(steps[k][r], Ours(r), Updates[k], done, MiniRows, IsFull(Updates[k]))
  BY <1>1 DEF StepAt
<1>7. PICK ys : /\ IsSeq(ys) /\ Len(ys) = m /\ steps[k][r] = BagOf(ys)
                /\ \A i \in 1 .. m : ys[i].weight = m
  BY <1>1, <1>5, <1>6 DEF Summed, IsFull
<1>8. Cardinality(Terms(steps[k][r])) = m
  BY <1>7, BagSize
<1>9. \A x \in DOMAIN steps[k][r] : x.weight = m
  <2>1. DOMAIN ys = 1 .. m /\ DOMAIN steps[k][r] = Range(ys)
    BY <1>7, SeqFacts DEF BagOf
  <2> QED
    BY <1>7, <2>1 DEF Range
<1>10. PICK groups \in Nat \ {0} :
          /\ groups = conf.world \div conf.sp
          /\ m * groups <= conf.mini * conf.n /\ conf.mini * conf.n < (m + 1) * groups
  BY <1>1, InvFacts, MiniRowsFacts
<1> QED
  BY <1>8, <1>9, <1>10

\* All rows of a mini-batch in a gradient, each once.
Whole(grad, rows, mini, weight, full) ==
    \E done :
        /\ Lists(done, 1 .. Len(mini)) /\ Len(done) = Len(mini)
        /\ Summed(grad, rows, mini, done, weight, full)

\* No row of a mini-batch has response y, or one row.
NoRow(rows, mini, y) == \A l \in 1 .. Len(mini) : rows[mini[l]].response # y
OneRow(rows, mini, y) ==
    \E l \in 1 .. Len(mini) : \A h \in 1 .. Len(mini) : rows[mini[h]].response = y <=> h = l

\* No term of a gradient is of response y, or one term.
NoTermOf(grad, y) == \A t \in Terms(grad) : t[1].response # y
OneTermOf(grad, y) == \E z \in Terms(grad) : \A t \in Terms(grad) : t[1].response = y <=> t = z

LEMMA StepTerms ==
    ASSUME NEW grad, NEW rows, NEW mini, NEW weight, NEW full, Whole(grad, rows, mini, weight, full)
    PROVE  \A y : /\ NoRow(rows, mini, y) => NoTermOf(grad, y)
                  /\ OneRow(rows, mini, y) => OneTermOf(grad, y)
<1> SUFFICES ASSUME NEW y
             PROVE  /\ NoRow(rows, mini, y) => NoTermOf(grad, y)
                    /\ OneRow(rows, mini, y) => OneTermOf(grad, y)
  OBVIOUS
<1>1. PICK done : /\ Lists(done, 1 .. Len(mini)) /\ Len(done) = Len(mini)
                  /\ Summed(grad, rows, mini, done, weight, full)
  BY DEF Whole
<1>2. PICK ys : /\ IsSeq(ys) /\ Len(ys) = Len(mini) /\ grad = BagOf(ys)
                /\ \A i \in 1 .. Len(mini) : ys[i].response = rows[mini[done[i]]].response
  BY <1>1 DEF Summed
<1>3. PICK n \in Nat : n = Len(mini) /\ n = Len(ys)
  BY <1>2, SeqFacts
<1>4. /\ \A i \in 1 .. n : done[i] \in 1 .. n
      /\ \A l \in 1 .. n : \E i \in 1 .. n : done[i] = l
      /\ \A i, j \in 1 .. n : done[i] = done[j] => i = j
  BY <1>1, <1>3 DEF Lists
<1>5. \A i \in 1 .. n : \E l \in 1 .. n : done[i] = l /\ ys[i].response = rows[mini[l]].response
  <2> SUFFICES ASSUME NEW i \in 1 .. n
               PROVE  \E l \in 1 .. n : done[i] = l /\ ys[i].response = rows[mini[l]].response
    OBVIOUS
  <2>1. ys[i].response = rows[mini[done[i]]].response
    BY <1>2, <1>3
  <2> QED
    BY <1>4, <2>1
<1>6. ASSUME NoRow(rows, mini, y) PROVE NoTermOf(grad, y)
  <2>1. \A i \in 1 .. Len(ys) : ys[i].response # y
    <3> SUFFICES ASSUME NEW i \in 1 .. n PROVE ys[i].response # y
      BY <1>3
    <3>1. PICK l \in 1 .. n : ys[i].response = rows[mini[l]].response
      BY <1>5
    <3> QED
      BY <1>3, <1>6, <3>1 DEF NoRow
  <2> QED
    BY <1>2, <2>1, OneTerm DEF NoTermOf
<1>7. ASSUME OneRow(rows, mini, y) PROVE OneTermOf(grad, y)
  <2>1. PICK l \in 1 .. n : \A h \in 1 .. n : rows[mini[h]].response = y <=> h = l
    BY <1>3, <1>7 DEF OneRow
  <2>2. PICK d \in 1 .. n : done[d] = l
    BY <1>4
  <2>3. ys[d].response = y
    BY <1>5, <2>1, <2>2
  <2>4. ASSUME NEW i \in 1 .. n, ys[i].response = y PROVE i = d
    <3>1. PICK h \in 1 .. n : done[i] = h /\ ys[i].response = rows[mini[h]].response
      BY <1>5
    <3>2. h = l
      BY <2>1, <2>4, <3>1
    <3> QED
      BY <1>4, <2>2, <3>1, <3>2
  <2>5. d \in 1 .. Len(ys) /\ \A i \in 1 .. Len(ys) : ys[i].response = y => i = d
    BY <1>3, <2>4
  <2>6. /\ <<ys[d], 1>> \in Terms(BagOf(ys))
        /\ \A t \in Terms(BagOf(ys)) : t[1].response = y => t = <<ys[d], 1>>
    BY <1>2, <2>3, <2>5, OneTerm
  <2>7. PICK z \in Terms(grad) : /\ z[1].response = y
                                 /\ \A t \in Terms(grad) : t[1].response = y => t = z
    <3>1. <<ys[d], 1>>[1] = ys[d]
      OBVIOUS
    <3> QED
      BY <1>2, <2>3, <2>6, <3>1
  <2> QED
    BY <2>7 DEF OneTermOf
<1> QED
  BY <1>6, <1>7

\* A row of the batch is in the rows of one group, once.
LEMMA RowOfGroup ==
    ASSUME IInv, TrainInv, stage = "done", NEW i \in 1 .. Len(batch)
    PROVE  \E q \in Ranks, p \in 1 .. GroupSize * Each :
              \A r \in Ranks : \A x \in 1 .. GroupSize * Each :
                 Ours(r)[x].response = batch[i].response <=> r \in Group(q) /\ x = p
<1>1. Updating /\ Distinct(batch) /\ conf \in Configs /\ IsSeq(Sent)
  BY InvFacts DEF TrainInv, Updating, Generating
<1>2. Sent = batch /\ CanChunk(Sent, conf.world)
  BY <1>1, UpdatesFacts
<1>3. PICK len \in Nat \ {0} : len = GroupSize * Each
  BY <1>1, UpdatesFacts
<1>4. PICK e \in Nat, w \in Nat \ {0}, s \in Nat \ {0} :
         e = Each /\ w = conf.world /\ s = GroupSize /\ Len(batch) = w * e /\ len = s * e
  BY <1>1, <1>2, <1>3, EachFacts, ConfFacts, GroupFacts
<1>5. PICK b \in Nat : b = Len(batch) /\ b = w * e
  BY <1>4
<1>6. PICK j \in Nat, t \in 0 .. len - 1 : i - 1 = j * len + t
  <2>1. i - 1 \in Nat
    BY <1>5
  <2>2. PICK j \in Nat : \E t \in 0 .. len - 1 : i - 1 = j * len + t
    BY <2>1, Division
  <2> QED
    BY <2>2
<1>7. PICK q \in Ranks : q \div GroupSize = j
  <2>1. PICK x \in Nat : x = j * s /\ x * e = j * len
    <3>1. (j * s) * e = j * (s * e)
      OBVIOUS
    <3> QED
      BY <1>4, <3>1
  <2>2. x * e < w * e
    <3>1. j * len \in Nat
      OBVIOUS
    <3> QED
      BY <1>5, <1>6, <2>1, <3>1
  <2>3. x < w
    <3>1. w <= x => w * e <= x * e
      OBVIOUS
    <3>2. w * e \in Nat /\ x * e \in Nat
      OBVIOUS
    <3> QED
      BY <2>2, <3>1, <3>2
  <2>4. x \in Ranks
    BY <1>4, <2>1, <2>3 DEF Ranks
  <2>5. (j * s + 0) \div s = j
    BY Quotient
  <2>6. x = j * s + 0
    BY <2>1
  <2>7. x \div GroupSize = j
    BY <1>4, <2>5, <2>6, Zenon
  <2> QED
    BY <2>4, <2>7
<1>8. t + 1 \in 1 .. len
  OBVIOUS
<1>9. ASSUME NEW r \in Ranks, NEW x \in 1 .. len
      PROVE  Ours(r)[x].response = batch[i].response <=> r \in Group(q) /\ x = t + 1
  <2>1. PICK h \in Nat : h = r \div GroupSize /\ (h + 1) * len <= b
    <3>1. PICK s1 \in Nat \ {0}, e1 \in Nat, j1 \in Nat :
             /\ s1 = GroupSize /\ e1 = Each /\ j1 = r \div GroupSize
             /\ (j1 + 1) * (s1 * e1) <= Len(Sent)
      BY <1>1, <1>2, GroupShare
    <3>2. (j1 + 1) * len <= b
      BY <1>2, <1>4, <1>5, <3>1
    <3> QED
      BY <3>1, <3>2
  <2>2. Ours(r)[x] = batch[h * len + x]
    <3>1. Ours(r) = Part(batch, len, h)
      BY <1>2, <1>3, <2>1 DEF Ours
    <3>2. \A v \in 1 .. len : Part(batch, len, h)[v] = batch[h * len + v]
      <4>1. IsSeq(batch) /\ (h + 1) * len <= Len(batch)
        BY <1>1, <1>2, <1>5, <2>1
      <4> QED
        BY <4>1, PartFacts
    <3> QED
      BY <3>1, <3>2
  <2>3. h * len + x \in 1 .. b
    <3>1. (h + 1) * len = h * len + len /\ h * len \in Nat
      OBVIOUS
    <3> QED
      BY <2>1, <3>1
  <2>4. Ours(r)[x].response = batch[i].response <=> h * len + x = i
    BY <1>1, <1>5, <2>2, <2>3 DEF Distinct
  <2>5. h * len + x = i <=> h = j /\ x = t + 1
    <3>1. ASSUME h * len + x = i PROVE h = j /\ x = t + 1
      <4>1. /\ x - 1 \in 0 .. len - 1 /\ h \in Int /\ j \in Int
            /\ h * len + (x - 1) = j * len + t
        BY <1>6, <3>1
      <4>2. (h * len + (x - 1)) \div len = h /\ (h * len + (x - 1)) % len = x - 1
        BY <4>1, Quotient
      <4>3. (j * len + t) \div len = j /\ (j * len + t) % len = t
        BY <4>1, Quotient
      <4>4. h = j /\ x - 1 = t
        BY <4>1, <4>2, <4>3, Zenon
      <4> QED
        BY <4>4
    <3>2. ASSUME h = j, x = t + 1 PROVE h * len + x = i
      BY <1>6, <3>2
    <3> QED
      BY <3>1, <3>2
  <2>6. r \in Group(q) <=> h = j
    BY <1>7, <2>1 DEF Group
  <2> QED
    BY <2>4, <2>5, <2>6
<1> QED
  BY <1>3, <1>8, <1>9

LEMMA Once ==
    ASSUME IInv, TrainInv
    PROVE  TrainedOnce
<1> SUFFICES ASSUME stage = "done", NEW e \in 0 .. conf.epochs - 1, NEW i \in DOMAIN batch
             PROVE  \E q \in Ranks : \A r \in Ranks :
                       Cardinality(TermsFor(r, e, batch[i].response)) = IF r \in Group(q) THEN 1 ELSE 0
  BY DEF TrainedOnce
<1>1. PICK y : y = batch[i].response
  OBVIOUS
<1>2. PICK len \in Nat \ {0}, m \in Nat \ {0}, all \in Nat :
         /\ len = GroupSize * Each /\ all = PieceCount(len, m)
         /\ EpochsAre(Updates, Pieces(len, m), all, conf.epochs)
         /\ conf.epochs \in Nat
         /\ conf.epochs # 0 => StepsInEpoch = all
         /\ \A k \in 1 .. Len(Updates) : \A r \in Ranks : StepAt(k, r)
  BY AtEnd
<1>3. StepsInEpoch = all
  BY <1>2
<1>4. i \in 1 .. Len(batch)
  BY InvFacts, SeqFacts
<1>5. PICK q \in Ranks, p \in 1 .. len :
         \A r \in Ranks : \A x \in 1 .. len : Ours(r)[x].response = y <=> r \in Group(q) /\ x = p
  <2>1. PICK q \in Ranks, p \in 1 .. GroupSize * Each :
           \A r \in Ranks : \A x \in 1 .. GroupSize * Each :
              Ours(r)[x].response = batch[i].response <=> r \in Group(q) /\ x = p
    BY <1>4, RowOfGroup
  <2> QED
    BY <1>1, <1>2, <2>1
<1>6. PICK ps : ps = Pieces(len, m) /\ Len(ps) = all /\ Permuted(len, <<>>, ps)
  BY <1>2, PiecesPermuted, PiecesFacts
<1>7. /\ \A g \in 1 .. all : \A l \in 1 .. Len(ps[g]) : ps[g][l] \in 1 .. len
      /\ \A g, h \in 1 .. all : \A l \in 1 .. Len(ps[g]), o \in 1 .. Len(ps[h]) :
            ps[g][l] = ps[h][o] => g = h /\ l = o
      /\ \E g \in 1 .. all : \E l \in 1 .. Len(ps[g]) : ps[g][l] = p
  <2>1. \A g \in 1 .. all : \A l \in 1 .. Len(ps[g]) : ps[g][l] \in 1 .. len
    BY <1>6 DEF Permuted
  <2>2. \A g, h \in 1 .. all : \A l \in 1 .. Len(ps[g]), o \in 1 .. Len(ps[h]) :
           ps[g][l] = ps[h][o] => g = h /\ l = o
    BY <1>6 DEF Permuted
  <2>3. \A v \in 1 .. len : \/ \E d \in 1 .. Len(<<>>) : <<>>[d] = v
                            \/ \E g \in 1 .. all : \E l \in 1 .. Len(ps[g]) : ps[g][l] = v
    BY <1>6 DEF Permuted
  <2>4. \A d \in 1 .. Len(<<>>) : FALSE
    BY EmptyIsSeq
  <2> QED
    BY <2>1, <2>2, <2>3, <2>4
<1>8. PICK g \in 1 .. all : \E l \in 1 .. Len(ps[g]) : ps[g][l] = p
  BY <1>7
<1>9. PICK l \in 1 .. Len(ps[g]) : ps[g][l] = p
  BY <1>8
<1> DEFINE grad(k, r) == steps[e * all + k][r]
<1>10. ASSUME NEW k \in 1 .. all, NEW r \in Ranks
       PROVE  Whole(grad(k, r), Ours(r), ps[k], MiniRows, IsFull(ps[k]))
  <2>1. PICK n \in Nat : n = conf.epochs /\ e + 1 <= n /\ e \in Nat
    BY <1>2
  <2>2. PICK a \in Nat : a = e * all /\ a + k \in 1 .. n * all
    <3>1. (e + 1) * all <= n * all
      BY <2>1
    <3>2. (e + 1) * all = e * all + all /\ e * all \in Nat /\ n * all \in Nat
      BY <2>1
    <3> QED
      BY <3>1, <3>2
  <2>3. a + k \in 1 .. Len(Updates) /\ Updates[a + k] = ps[k]
    BY <1>2, <1>6, <2>1, <2>2 DEF EpochsAre
  <2>4. StepAt(a + k, r)
    BY <1>2, <2>3
  <2>5. grad(k, r) = steps[a + k][r]
    BY <2>2
  <2> HIDE DEF grad
  <2> QED
    BY <2>3, <2>4, <2>5 DEF StepAt, Whole
<1>11. ASSUME NEW r \in Ranks, NEW t
       PROVE  t \in TermsFor(r, e, y) <=>
                 \E k \in 1 .. all : \E x \in Terms(grad(k, r)) : t = <<k, x>> /\ x[1].response = y
  BY <1>3 DEF TermsFor
<1> HIDE DEF grad
\* Where in the pieces the row is.
<1>12. ASSUME NEW r \in Ranks, NEW k \in 1 .. all, NEW h \in 1 .. Len(ps[k])
       PROVE  Ours(r)[ps[k][h]].response = y <=> r \in Group(q) /\ k = g /\ h = l
  <2>1. ps[k][h] \in 1 .. len
    BY <1>7
  <2>2. ps[k][h] = p <=> k = g /\ h = l
    BY <1>7, <1>9
  <2> QED
    BY <1>5, <2>1, <2>2
<1>13. ASSUME NEW r \in Ranks, NEW k \in 1 .. all, r \notin Group(q) \/ k # g
       PROVE  NoTermOf(grad(k, r), y)
  <2>1. NoRow(Ours(r), ps[k], y)
    BY <1>12, <1>13 DEF NoRow
  <2>2. Whole(grad(k, r), Ours(r), ps[k], MiniRows, IsFull(ps[k]))
    BY <1>10
  <2> QED
    BY <2>1, <2>2, StepTerms
<1>14. ASSUME NEW r \in Ranks, r \notin Group(q)
       PROVE  Cardinality(TermsFor(r, e, y)) = 0
  <2>1. TermsFor(r, e, y) = {}
    BY <1>11, <1>13, <1>14 DEF NoTermOf
  <2> QED
    BY <2>1, FS_EmptySet
<1>15. ASSUME NEW r \in Ranks, r \in Group(q)
       PROVE  Cardinality(TermsFor(r, e, y)) = 1
  <2>1. OneTermOf(grad(g, r), y)
    <3>1. OneRow(Ours(r), ps[g], y)
      BY <1>9, <1>12, <1>15 DEF OneRow
    <3>2. Whole(grad(g, r), Ours(r), ps[g], MiniRows, IsFull(ps[g]))
      BY <1>10
    <3> QED
      BY <3>1, <3>2, StepTerms
  <2>2. PICK z \in Terms(grad(g, r)) : \A x \in Terms(grad(g, r)) : x[1].response = y <=> x = z
    BY <2>1 DEF OneTermOf
  <2>3. ASSUME NEW t PROVE t \in TermsFor(r, e, y) <=> t = <<g, z>>
    BY <1>11, <1>13, <2>2 DEF NoTermOf
  <2>4. TermsFor(r, e, y) = {<<g, z>>}
    BY <2>3
  <2> QED
    BY <2>4, FS_Singleton
<1> QED
  BY <1>1, <1>14, <1>15

\* The invariant of the update: a rank has as many mini-batches left as there are steps to
\* take, its gradient has the rows it has run of the one it is at, and that of every step
\* taken has each row of a mini-batch once.
THEOREM UpdateInvariant == Spec => []TrainInv
<1>1. Init => TrainInv
  BY InitTrain
<1>2. IInv /\ TrainInv /\ [Next]_vars => TrainInv'
  BY NextTrain
<1> QED
  BY <1>1, <1>2, Invariant, PTL DEF Spec

\* In every epoch of the update (ppo_epochs, dp_actor_oapl.py) a row of the batch is in the
\* gradients of one group of ranks, once, and of no other, whatever the batch, the groups,
\* the mini-batches and the micro-batches they are cut into.
THEOREM RowsTrainedOnce == Spec => []TrainedOnce
<1>1. IInv /\ TrainInv => TrainedOnce
  BY Once
<1> QED
  BY <1>1, Invariant, UpdateInvariant, PTL

\* Every optimizer step but the last of an epoch has ppo_mini_batch_size prompts with all
\* their responses, as near as whole rows for every group come to it, and on every rank
\* each row counts for one in as many as there are, for micro-batches of fixed and of
\* dynamic size alike (gradient_accumulation, dp_actor_oapl.py).
THEOREM StepsAreMeans == Spec => []MiniBatchMeans
<1>1. IInv /\ TrainInv => MiniBatchMeans
  BY Means
<1> QED
  BY <1>1, Invariant, UpdateInvariant, PTL

================================================================================
