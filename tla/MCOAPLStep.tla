------------------------------ MODULE MCOAPLStep ------------------------------
(***************************************************************************)
(* Small jobs that between them have every kind of group, split, reward    *)
(* and failure.                                                            *)
(***************************************************************************)
EXTENDS OAPLStep

Base == [world |-> 2, tp |-> 1, sp |-> 1, n |-> 1, batch |-> 2, mini |-> 2, micro |-> 0,
         epochs |-> 1, balance |-> TRUE, async |-> TRUE, offline |-> FALSE,
         val |-> 1, valN |-> 1, sampled |-> FALSE]

SomeConfigs == {
    \* two ranks with three rows each, rearranged
    [Base EXCEPT !.tp = 2, !.n = 3, !.val = 3, !.valN = 1],
    \* two groups of two ranks, two epochs
    [Base EXCEPT !.world = 4, !.tp = 2, !.sp = 2, !.batch = 4, !.mini = 4, !.epochs = 2, !.valN = 3],
    \* several mini-batches and micro-batches of fixed size
    [Base EXCEPT !.world = 4, !.sp = 2, !.n = 2, !.batch = 4, !.micro = 1, !.balance = FALSE, !.async = FALSE],
    \* a last mini-batch that is not full
    [Base EXCEPT !.batch = 6, !.mini = 5, !.micro = 2, !.balance = FALSE, !.epochs = 2],
    \* offline, all rows in one group
    [Base EXCEPT !.sp = 2, !.batch = 4, !.mini = 3, !.offline = TRUE, !.async = FALSE, !.sampled = TRUE],
    \* those that fail
    [Base EXCEPT !.n = 2, !.sampled = TRUE],
    [Base EXCEPT !.n = 2, !.offline = TRUE],
    [Base EXCEPT !.n = 2, !.batch = 3]}

================================================================================
