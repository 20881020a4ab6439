--------------------------- MODULE MCMegatronWeights ---------------------------
(***************************************************************************)
(* Configurations for MegatronWeights: one of two ranks and two layers,    *)
(* and the ways in which the others differ from it.                        *)
(***************************************************************************)
EXTENDS MegatronWeights

Plain == [tp |-> 1, cp |-> 1, dp |-> 1, pp |-> 2, vpp |-> 0, vrank |-> 0,
          layers |-> 2, heads |-> 4, kv |-> 2, width |-> 2, tied |-> FALSE,
          first |-> 0, last |-> 0, embed |-> FALSE, loss |-> FALSE, hf |-> TRUE]

With(changes) == [f \in JobFields |-> IF f \in DOMAIN changes THEN changes[f] ELSE Plain[f]]

\* Every kind of group at once; two query groups on a rank; context parallelism.
Groups == {
    With([tp |-> 2]),
    With([tp |-> 2, dp |-> 2, pp |-> 1, layers |-> 1, tied |-> TRUE]),
    With([tp |-> 2, heads |-> 8, kv |-> 4, tied |-> TRUE]),
    With([cp |-> 2, dp |-> 2, pp |-> 1, layers |-> 1])}

\* Virtual stages, after get_model and after other virtual ranks.
Virtual == {With([vpp |-> n, layers |-> 2 * n, dp |-> d]) : n \in {2, 3}, d \in {1, 2}}

\* Stages of different lengths, from checkpoints of shards and (refused) from HF.
UnevenStages == {
    With([pp |-> 3, layers |-> 4, first |-> 1, last |-> 1, hf |-> h]) : h \in BOOLEAN} \union {
    With([pp |-> 3, layers |-> 5, first |-> 1, hf |-> FALSE]),
    With([pp |-> 3, layers |-> 5, last |-> 1, hf |-> FALSE]),
    With([pp |-> 2, layers |-> 3, first |-> 1, last |-> 2, hf |-> FALSE]),
    With([pp |-> 3, layers |-> 8, vpp |-> 2, first |-> 2, last |-> 2, hf |-> FALSE]),
    With([pp |-> 2, layers |-> 6, vpp |-> 2, first |-> 2, hf |-> FALSE]),
    With([pp |-> 2, layers |-> 6, vpp |-> 2, last |-> 2, hf |-> FALSE]),
    With([pp |-> 2, layers |-> 3, embed |-> TRUE, hf |-> FALSE]),
    With([pp |-> 2, layers |-> 4, embed |-> TRUE, loss |-> TRUE, hf |-> FALSE]),
    With([pp |-> 2, layers |-> 7, vpp |-> 2, loss |-> TRUE, hf |-> FALSE])} \union {
    With([pp |-> 2, layers |-> 7, vpp |-> 2, embed |-> TRUE, vrank |-> n, hf |-> FALSE]) : n \in {0, 1}} \union {
    With([pp |-> 2, layers |-> 3, vpp |-> 2, embed |-> TRUE, vrank |-> 1, hf |-> FALSE]),
    With([pp |-> 2, layers |-> 3, vpp |-> 1, embed |-> TRUE, hf |-> FALSE])}

AllJobs == Groups \union Virtual \union UnevenStages

================================================================================
