---------------------------- MODULE SeqlenBalancing ----------------------------
(***************************************************************************)
(* Splitting a batch by sequence length (verl/utils/seqlen_balancing.py):  *)
(* the Karmarkar-Karp differencing of karmarkar_karp, step by step, the    *)
(* checks of get_seqlen_balanced_partitions on what it returns, and its    *)
(* two callers: _balance_batch, which wants as many rows for every rank,   *)
(* and rearrange_micro_batches, which wants as few micro-batches as the    *)
(* token limit asks for and as many as any other rank of the group has.    *)
(*                                                                         *)
(* The names are the code's: a Set collects rows and their sum, a State    *)
(* is a list of k Sets in decreasing order, the heap holds the States.     *)
(* Rows and Sets are counted from 1.                                       *)
(*                                                                         *)
(* Abstractions.  The comparisons are total on what is compared, Sets of   *)
(* distinct rows, so that heapq's order is the order of __lt__.  Two lists *)
(* of distinct rows are compared by their first.  A micro-batch is the set *)
(* of its rows.  What the other ranks of the group ask for is any number   *)
(* of micro-batches that a batch of as many rows can have.                 *)
(***************************************************************************)
EXTENDS Integers, Sequences, FiniteSets, Functions

CONSTANTS
    MaxRows,   \* bound: how many rows a batch has at most
    Lengths,   \* the effective lengths of rows
    Worlds,    \* the sizes of the worker group
    Limits     \* the values of max_token_len

ASSUME RowsAssumption   == MaxRows \in Nat
ASSUME WorldAssumption  == Worlds \subseteq Nat \ {0}
ASSUME LengthAssumption == Lengths \subseteq Nat \ {0}
\* rearrange_micro_batches: "max_token_len must be greater than the sequence length"
ASSUME LimitAssumption  == Limits \subseteq Nat /\ \A m \in Limits, n \in Lengths : n <= m

VARIABLES
    lens,      \* seqlen_list
    equal,     \* equal_size
    limit,     \* max_token_len, 0 when _balance_batch is the caller
    k,         \* k_partitions
    unsorted,  \* the rows that are not yet in a State
    heap,      \* states_pq
    outcome,   \* "running", "returned", or "raised": an assertion failed
    partitions \* what is returned: the set of rows of every partition

input == <<lens, equal, limit, k>>
vars  == <<input, unsorted, heap, outcome, partitions>>

Rows == 1 .. Len(lens)

--------------------------------------------------------------------------------
(* The inputs *)

\* The tokens of a set of rows.
Tokens(rows) ==
    LET sum[n \in 0 .. Len(lens)] ==
        IF n = 0 THEN 0 ELSE sum[n - 1] + IF n \in rows THEN lens[n] ELSE 0
    IN  sum[Len(lens)]

CeilDiv(a, b) == -((-a) \div b)

\* Mutant: rounded down.
MicroBatches_RoundedDown(rows, m) == Tokens(rows) \div m

\* How many micro-batches one rank wants; min(len(rows), ...) never matters, for no row
\* is longer than the limit.
MicroBatches(rows, m) == CeilDiv(Tokens(rows), m)

Init ==
    /\ \E n \in 1 .. MaxRows : lens \in [1 .. n -> Lengths]
    /\ \/ /\ equal = TRUE
          /\ limit = 0
          /\ k \in {w \in Worlds : Len(lens) % w = 0}
       \/ /\ equal = FALSE
          /\ limit \in Limits
          /\ k \in {m \in Rows : m >= MicroBatches(Rows, limit)}
    /\ unsorted = Rows
    /\ heap = {}
    /\ outcome = "running"
    /\ partitions = <<>>

--------------------------------------------------------------------------------
(* Sets and States *)

EmptySet   == [sum |-> 0, items |-> <<>>]

Single(i)  == [sum |-> lens[i], items |-> <<i>>]
Join(a, b) == [sum |-> a.sum + b.sum, items |-> a.items \o b.items]

\* Set.__lt__
Lighter(a, b) ==
    \/ a.sum < b.sum
    \/ a.sum = b.sum /\ Len(a.items) < Len(b.items)
    \/ a.sum = b.sum /\ Len(a.items) = Len(b.items)
         /\ a.items # <<>> /\ a.items[1] < b.items[1]

Decreasing(s) == \A g, h \in 1 .. k : g < h => ~Lighter(s[g], s[h])

\* The Sets that come before the g-th in decreasing order, equals as they stand.
Ahead(s, g) == {h \in 1 .. k : Lighter(s[g], s[h]) \/ (h < g /\ ~Lighter(s[h], s[g]))}

\* Mutant: the Sets of a State stay where they are.
Arranged_Unsorted(s) == s

\* sorted(self.sets, reverse=True)
Arranged(s) == [r \in 1 .. k |-> s[CHOOSE g \in 1 .. k : Cardinality(Ahead(s, g)) = r - 1]]

\* Mutant: the heaviest Sets meet.
Merged_InOrder(s, t) == [g \in 1 .. k |-> Join(s[g], t[g])]

\* State.merge: the heaviest Set of one meets the lightest of the other.
Merged(s, t) == [g \in 1 .. k |-> Join(s[g], t[k + 1 - g])]

Spread(s) == s[1].sum - s[k].sum

\* State.__lt__
Before(s, t) ==
    \/ Spread(s) > Spread(t)
    \/ Spread(s) = Spread(t) /\ Lighter(t[1], s[1])

PoppedFirst(s, states) == s \in states /\ \A t \in states \ {s} : ~Before(t, s)

--------------------------------------------------------------------------------
(* karmarkar_karp *)

Shorter(i, j) == lens[i] < lens[j] \/ (lens[i] = lens[j] /\ i < j)

\* The block comes first in the sorted list of the rows.
Smallest(block, rows) == \A i \in block, j \in rows \ block : Shorter(i, j)

\* Mutant: the offset goes up by one row, not by k.
PushBlock_StepOne ==
    /\ outcome = "running"
    /\ equal /\ unsorted # {}
    /\ \E b \in Injection(1 .. k, unsorted) :
        /\ Smallest(Range(b), unsorted)
        /\ unsorted' = unsorted \ {b[k]}
        /\ LET s == [g \in 1 .. k |-> Single(b[g])]
           IN  Decreasing(s) /\ heap' = heap \union {s}
    /\ UNCHANGED <<input, outcome, partitions>>

\* equal_size: every State starts with k rows, one in every Set.
PushBlock ==
    /\ outcome = "running"
    /\ equal /\ unsorted # {}
    /\ \E b \in Injection(1 .. k, unsorted) :
        /\ Smallest(Range(b), unsorted)
        /\ unsorted' = unsorted \ Range(b)
        /\ LET s == [g \in 1 .. k |-> Single(b[g])]
           IN  Decreasing(s) /\ heap' = heap \union {s}
    /\ UNCHANGED <<input, outcome, partitions>>

\* Not equal_size: every State starts with one row.
PushRow ==
    /\ outcome = "running"
    /\ ~equal /\ unsorted # {}
    /\ \E i \in unsorted :
        /\ Smallest({i}, unsorted)
        /\ unsorted' = unsorted \ {i}
        /\ heap' = heap \union {[g \in 1 .. k |-> IF g = 1 THEN Single(i) ELSE EmptySet]}
    /\ UNCHANGED <<input, outcome, partitions>>

MergeTwo ==
    /\ outcome = "running"
    /\ unsorted = {}
    /\ \E s, t \in heap :
        /\ s # t
        /\ PoppedFirst(s, heap)
        /\ PoppedFirst(t, heap \ {s})
        /\ heap' = (heap \ {s, t}) \union {Arranged(Merged(s, t))}
    /\ UNCHANGED <<input, unsorted, outcome, partitions>>

--------------------------------------------------------------------------------
(* get_seqlen_balanced_partitions *)

\* What the assertions after the differencing ask for.
Accepted(parts) ==
    /\ equal => \A g \in 1 .. k : Cardinality(parts[g]) * k = Len(lens)
    /\ \A g \in 1 .. k : parts[g] # {}
    /\ UNION {parts[g] : g \in 1 .. k} = Rows

Return ==
    /\ outcome = "running"
    /\ unsorted = {}
    /\ \E s \in heap :
        /\ heap = {s}
        /\ partitions' = [g \in 1 .. k |-> Range(s[g].items)]
    /\ outcome' = IF Accepted(partitions') THEN "returned" ELSE "raised"
    /\ UNCHANGED <<input, unsorted, heap>>

Next == PushBlock \/ PushRow \/ MergeTwo \/ Return

Spec == Init /\ [][Next]_vars

--------------------------------------------------------------------------------
(* Properties *)

Sets   == [sum : Nat, items : Seq(Rows)]
States == [1 .. k -> Sets]

\* The type invariant of the heap and of what is returned.
TypeOK ==
    /\ lens \in Seq(Lengths)
    /\ equal \in BOOLEAN
    /\ limit \in Limits \union {0}
    /\ k \in Nat \ {0}
    /\ unsorted \subseteq Rows
    /\ heap \subseteq States
    /\ outcome \in {"running", "returned", "raised"}
    /\ partitions # <<>> => partitions \in [1 .. k -> SUBSET Rows]

\* No row is lost or doubled by pushing, merging and sorting: every row that has left
\* the sorted list is in one Set of one State, once.
EachRowOnce ==
    /\ \A i \in Rows \ unsorted : \E s \in heap : \E g \in 1 .. k : i \in Range(s[g].items)
    /\ \A s, t \in heap : \A g, h \in 1 .. k :
        \A p \in DOMAIN s[g].items, q \in DOMAIN t[h].items :
            /\ s[g].items[p] \notin unsorted
            /\ s[g].items[p] = t[h].items[q] => s = t /\ g = h /\ p = q

\* What the differencing is for: no State ever spreads wider than one row is long, or,
\* with Sets of equal size, than two rows differ; nor does what is returned, which is
\* the last of them.
Balanced ==
    \A s \in heap : \E i, j \in Rows :
        Spread(s) <= IF equal THEN lens[i] - lens[j] ELSE lens[i]

\* The assertions on the partitions hold whatever the lengths: there are as many rows
\* in each if asked for, none is empty, and together they have all rows.
AssertionsHold == outcome # "raised"

\* A micro-batch exceeds the limit by less than one row, even when no other rank of
\* the group makes this one split its batch further.
OneRowOver ==
    (outcome = "returned" /\ ~equal) =>
        \A g \in 1 .. k : \E i \in Rows : Tokens(partitions[g]) < limit + lens[i]

================================================================================
