---------------------------- MODULE MCRewardScoring ----------------------------
(***************************************************************************)
(* The batches of the run of RewardScoring: up to three rows of any kinds, *)
(* scored by the caller, or by one or two processes with deadlines that    *)
(* some rows meet and others do not.                                       *)
(***************************************************************************)
EXTENDS RewardScoring

Code(takes) == [kind |-> "code", takes |-> takes, limit |-> 2, verdict |-> "right"]
Plain(kind, takes) == [kind |-> kind, takes |-> takes, limit |-> 2, verdict |-> "right"]

\* A program in time, at its limit, and without end; an answer that is wrong, answers
\* that take longer than any deadline, and a dict.
RowKinds ==
    {Code(1), Code(2), Code(9), Plain("number", 1), Plain("number", 9), Plain("dict", 1),
     [Plain("number", 2) EXCEPT !.verdict = "wrong"]}

Batches == UNION {[1 .. n -> RowKinds] : n \in 1 .. 3}

AllJobs ==
    [manager : {"naive", "dapo"}, caller : {"ppo", "oapl", "validate"}, procs : {1},
     deadline : {1}, dies : {FALSE}, rows : Batches]
    \union
    [manager : {"prime"}, caller : {"ppo", "validate"}, procs : {1, 2},
     deadline : {2, 4}, dies : BOOLEAN, rows : Batches]

================================================================================
