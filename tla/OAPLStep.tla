-------------------------------- MODULE OAPLStep --------------------------------
(***************************************************************************)
(* One step of the OAPL trainer as data moves through it (RayOAPLTrainer.  *)
(* fit in verl/trainer/oapl/ray_trainer.py): validation, generation,       *)
(* balancing, rewards, log probabilities of the policy and of the          *)
(* reference, and the update of the actor.  The driver dispatches a batch  *)
(* to the ranks of the worker group (single_controller/base/decorator.py), *)
(* they run the same program on their shares (fsdp_workers.py,             *)
(* dp_actor.py, dp_actor_oapl.py), and the driver puts together what they  *)
(* return, row by row, with what it has.                                   *)
(*                                                                         *)
(* A rank gathers the rows of its group (tensor parallel for generation,   *)
(* Ulysses sequence parallel otherwise) and keeps its part of the result.  *)
(* Ranks meet in collectives: the all-gather of a group, the all-reduce of *)
(* the number of micro-batches, every forward pass and every optimizer     *)
(* step of the sharded model.  A collective is one action of all ranks in  *)
(* it, enabled when all of them have arrived.                              *)
(*                                                                         *)
(* Abstractions.  A tensor column is the identity of what it was computed  *)
(* from, so that a column in the wrong row shows.  rearrange_micro_batches *)
(* and _balance_batch return any split that SeqlenBalancing allows: all    *)
(* rows, each once, no part empty, parts of equal size if asked for.  The  *)
(* reference policy has the ranks and the settings of the actor.  Left     *)
(* out: reward models, multi-modal inputs, critic warm-up, metrics.        *)
(***************************************************************************)
EXTENDS DataProto, FiniteSets, Functions, Bags

CONSTANT
    Configs  \* the configurations of the job

Settings == [world : Nat \ {0}, tp : Nat \ {0}, sp : Nat \ {0}, n : Nat \ {0},
             batch : Nat \ {0}, mini : Nat, micro : Nat, epochs : Nat,
             balance : BOOLEAN, async : BOOLEAN, offline : BOOLEAN,
             val : Nat \ {0}, valN : Nat \ {0}, sampled : BOOLEAN]

\* What the code asserts of a configuration before the first step: _validate_config and
\* _create_dataloader (no data loader is empty) of the trainer, _build_rollout and
\* __init__ of the workers.
ConfigAssumption(c) ==
    /\ c \in Settings
    /\ c.world % c.tp = 0 /\ c.world % c.sp = 0
    /\ (c.batch * c.n) % c.world = 0
    /\ LET rows == (c.mini * c.n) \div (c.world \div c.sp)
       IN  rows > 0 /\ (c.micro > 0 => rows % c.micro = 0 /\ c.mini <= c.batch)

ASSUME ConfigsAssumption == \A c \in Configs : ConfigAssumption(c)

VARIABLES
    conf,    \* world, tp and sp: the ranks and the sizes of their groups; n: responses to
             \* a prompt; batch: prompts; mini, micro (0: dynamic) and epochs of the update;
             \* balance, async, offline; val, valN and sampled: validation
    stage,   \* where the driver is
    batch,   \* the driver's batch: a sequence of rows
    scored,  \* the rows that validation has scored
    reward,  \* reward_tensor: a sequence, or the future of one
    ready,   \* the reward has been computed
    at,      \* where every rank is
    data,    \* the rows a rank works on, then those it returns
    minis,   \* the mini-batches a rank has still to do, as sequences of positions in data
    todo,    \* the micro-batches left of the mini-batch a rank is at
    ran,     \* the positions a rank has run, in the order of its micro-batches
    grads,   \* the rows in a rank's gradient, each with its weight (1/weight)
    steps    \* history: the gradients of every optimizer step

driver  == <<conf, stage, batch, scored, reward, ready>>
workers == <<at, data, minis, todo, ran, grads, steps>>
vars    == <<driver, workers>>

Ranks == 0 .. conf.world - 1

\* A cell of a column that is not there yet.
None == <<>>

NewRow(p) == [prompt |-> p, response |-> None, old |-> None, ref |-> None, score |-> None]

--------------------------------------------------------------------------------
(* Splits of a batch *)

\* torch.split: pieces of k, and what is left.
Pieces(len, k) ==
    [g \in 1 .. (len + k - 1) \div k |->
        [i \in 1 .. IF g * k <= len THEN k ELSE len - (g - 1) * k |-> (g - 1) * k + i]]

InOrder(set) ==
    [p \in 1 .. Cardinality(set) |-> CHOOSE i \in set : Cardinality({j \in set : j <= i}) = p]

\* get_seqlen_balanced_partitions: 1 .. len in m parts, each in order.
Splits(len, m) ==
    {[g \in 1 .. m |-> InOrder({i \in 1 .. len : part[i] = g})] : part \in Surjection(1 .. len, 1 .. m)}

EqualSplits(len, m) == {s \in Splits(len, m) : \A g, h \in 1 .. m : Len(s[g]) = Len(s[h])}

ReverseIdx(map) == [i \in DOMAIN map |-> CHOOSE p \in DOMAIN map : map[p] = i]

--------------------------------------------------------------------------------
(* The call of a method of the worker group *)

Generating == stage \in {"validate", "generate"}
Remote     == Generating \/ stage \in {"old_log_prob", "ref_log_prob", "update_actor"}

ValRows    == Repeat([p \in 1 .. conf.val |-> NewRow(p)], conf.valN)

\* The argument of the call.
Sent == IF stage = "validate" THEN Padded(ValRows, conf.world) ELSE batch

Init ==
    /\ conf \in Configs
    /\ stage = "validate"
    /\ batch = [p \in 1 .. conf.batch |-> NewRow(p)]
    /\ scored = None
    /\ reward = None
    /\ ready = FALSE
    /\ at = [r \in Ranks |-> "idle"]
    /\ data = [r \in Ranks |-> <<>>]
    /\ minis = [r \in Ranks |-> <<>>]
    /\ todo = [r \in Ranks |-> <<>>]
    /\ ran = [r \in Ranks |-> <<>>]
    /\ grads = [r \in Ranks |-> EmptyBag]
    /\ steps = <<>>

\* An assertion fails, in the driver or on a rank: the job ends.
Raise == stage' = "raised" /\ UNCHANGED <<conf, batch, scored, reward, ready>>

\* dispatch_dp_compute_data_proto: chunk asserts that every rank gets as many rows.
Dispatch ==
    /\ Remote /\ ~(stage = "generate" /\ conf.offline)
    /\ \A r \in Ranks : at[r] = "idle"
    /\ IF ~CanChunk(Sent, conf.world)
       THEN Raise /\ UNCHANGED workers
       ELSE /\ at' = [r \in Ranks |-> "called"]
            /\ data' = [r \in Ranks |-> Chunk(Sent, conf.world, r)]
            /\ UNCHANGED <<driver, minis, todo, ran, grads, steps>>

GroupSize == IF Generating THEN conf.tp ELSE conf.sp
Group(r)  == {q \in Ranks : q \div GroupSize = r \div GroupSize}
First(r)  == (r \div GroupSize) * GroupSize

\* Mutant: every rank puts its own rows first.
Gathered_OwnFirst(r) ==
    AllGather([i \in 1 .. GroupSize |-> data[First(r) + ((r + i - 1) % GroupSize)]])

\* The rows of the group of r
Gathered(r) == AllGather([i \in 1 .. GroupSize |-> data[First(r) + i - 1]])

\* Mutant: the groups are left out.
MiniRows_WithoutGroups == (conf.mini * conf.n) \div conf.world
\* ppo_mini_batch_size as the workers normalize it: prompts of the whole job become rows
\* of one group.
MiniRows == (conf.mini * conf.n) \div (conf.world \div conf.sp)

\* The mini-batches of a call: all rows at once for log probabilities; for the update,
\* ppo_epochs times the pieces of ppo_mini_batch_size.
MiniBatches(len) ==
    IF stage = "update_actor"
    THEN FlattenSeq([e \in 1 .. conf.epochs |-> Pieces(len, MiniRows)])
    ELSE <<[i \in 1 .. len |-> i]>>

\* preprocess_data of the sharding managers.
Gather(r) ==
    /\ Remote /\ \A q \in Group(r) : at[q] = "called"
    /\ at' = [q \in Ranks |-> IF q \in Group(r) THEN "gathered" ELSE at[q]]
    /\ data' = [q \in Ranks |-> IF q \in Group(r) THEN Gathered(q) ELSE data[q]]
    /\ minis' = [q \in Ranks |->
           IF q \notin Group(r) THEN minis[q]
           ELSE IF Generating THEN <<>> ELSE MiniBatches(Len(Gathered(q)))]
    /\ UNCHANGED <<driver, todo, ran, grads, steps>>

\* Every rank of a group has what the group computed; postprocess_data leaves it its part.
Share(rows, r) == Chunk(rows, GroupSize, r % GroupSize)

--------------------------------------------------------------------------------
(* Generation (vllm_rollout_spmd.py) *)

\* update_sampling_params(n=1) holds inside the with block only.
ResponsesToPrompt == IF stage = "validate" THEN 1 ELSE conf.n

\* After it, self.sampling_params.n is the configured one again.
PromptCopies == IF stage = "validate" /\ ~conf.sampled THEN 1 ELSE conf.n

Responses(rows) ==
    LET k == ResponsesToPrompt
    IN  [i \in 1 .. Len(rows) * k |->
            [response |-> <<Repeat(rows, k)[i].prompt, ((i - 1) % k) + 1>>]]

\* The ranks of a tensor parallel group generate together; the prompts and the responses
\* must be as many to be joined.
Generate(r) ==
    /\ Generating
    /\ \A q \in Group(r) : at[q] = "gathered"
    /\ IF PromptCopies # ResponsesToPrompt
       THEN Raise /\ UNCHANGED workers
       ELSE /\ at' = [q \in Ranks |-> IF q \in Group(r) THEN "finished" ELSE at[q]]
            /\ data' = [q \in Ranks |->
                   IF q \in Group(r) THEN Share(Responses(data[q]), q) ELSE data[q]]
            /\ UNCHANGED <<driver, minis, todo, ran, grads, steps>>

--------------------------------------------------------------------------------
(* Log probabilities and the update (dp_actor.py, dp_actor_oapl.py) *)

Computing == Remote /\ ~Generating
Dynamic   == conf.micro = 0

Batch(r)    == Head(minis[r])
Rows(r, ps) == [i \in DOMAIN ps |-> data[r][ps[i]]]

\* The micro-batches of rank r for a split of its mini-batch.
Micros(r, split) == [g \in DOMAIN split |-> [i \in DOMAIN split[g] |-> Batch(r)[split[g][i]]]]

\* Not use_dynamic_bsz: split(micro_batch_size) on every rank by itself.
Split(r) ==
    /\ Computing /\ ~Dynamic
    /\ at[r] = "gathered" /\ minis[r] # <<>>
    /\ at' = [at EXCEPT ![r] = "running"]
    /\ todo' = [todo EXCEPT ![r] = Micros(r, Pieces(Len(Batch(r)), conf.micro))]
    /\ ran' = [ran EXCEPT ![r] = <<>>]
    /\ UNCHANGED <<driver, data, minis, grads, steps>>

\* Mutant: there is no all-reduce.
Agreed_Own(want, rows) == want[rows]

\* all_reduce(MAX) of the number of micro-batches
Agreed(want, rows) == CHOOSE m \in {want[x] : x \in DOMAIN want} : \A x \in DOMAIN want : want[x] <= m

\* use_dynamic_bsz: rearrange_micro_batches.  How many micro-batches a rank wants and how
\* it splits its rows depends on the rows alone, so the ranks of a group do the same.
Rearrange ==
    /\ Computing /\ Dynamic
    /\ \A r \in Ranks : at[r] = "gathered" /\ minis[r] # <<>>
    /\ LET rows(r) == Rows(r, Batch(r))
           all     == {rows(r) : r \in Ranks}
           len     == Len(Batch(0))
       IN  \E want \in [all -> 1 .. len] :
           \E split \in [all -> UNION {Splits(len, m) : m \in 1 .. len}] :
               /\ \A x \in all : Len(split[x]) = Agreed(want, x)
               /\ todo' = [r \in Ranks |-> Micros(r, split[rows(r)])]
    /\ at' = [r \in Ranks |-> "running"]
    /\ ran' = [r \in Ranks |-> <<>>]
    /\ UNCHANGED <<driver, data, minis, grads, steps>>

\* The loss is the mean over the micro-batch, scaled by its share of the mini-batch or by
\* gradient_accumulation: one row counts for 1/weight.
Weight(len) == IF Dynamic THEN MiniRows ELSE len * (MiniRows \div conf.micro)

Gradient(r, ps) ==
    LET part(i) == [response |-> Rows(r, ps)[i].response, weight |-> Weight(Len(ps))]
    IN  [x \in {part(i) : i \in DOMAIN ps} |-> Cardinality({i \in DOMAIN ps : part(i) = x})]

\* One micro-batch: the parameters of each layer are gathered from all ranks.
Forward ==
    /\ Computing
    /\ \A r \in Ranks : at[r] = "running" /\ todo[r] # <<>>
    /\ todo' = [r \in Ranks |-> Tail(todo[r])]
    /\ ran' = [r \in Ranks |-> ran[r] \o Head(todo[r])]
    /\ grads' = [r \in Ranks |->
           IF stage = "update_actor" THEN grads[r] (+) Gradient(r, Head(todo[r])) ELSE grads[r]]
    /\ UNCHANGED <<driver, at, data, minis, steps>>

\* Mutant: no zero_grad before the next mini-batch.
OptimizerStep_KeepsGradient ==
    /\ stage = "update_actor"
    /\ \A r \in Ranks : at[r] = "running" /\ todo[r] = <<>>
    /\ steps' = Append(steps, grads)
    /\ minis' = [r \in Ranks |-> Tail(minis[r])]
    /\ at' = [r \in Ranks |-> "gathered"]
    /\ UNCHANGED <<driver, data, todo, ran, grads>>

\* The norm of the gradient is that of all ranks; zero_grad comes with the next mini-batch.
OptimizerStep ==
    /\ stage = "update_actor"
    /\ \A r \in Ranks : at[r] = "running" /\ todo[r] = <<>>
    /\ steps' = Append(steps, grads)
    /\ grads' = [r \in Ranks |-> EmptyBag]
    /\ minis' = [r \in Ranks |-> Tail(minis[r])]
    /\ at' = [r \in Ranks |-> "gathered"]
    /\ UNCHANGED <<driver, data, todo, ran>>

\* The columns that compute_log_prob and compute_ref_log_prob return.
LogProb(y) == IF stage = "old_log_prob" THEN [old |-> y] ELSE [ref |-> y]

\* Mutant: results stay in the order of the micro-batches.
LogProbs_AsRan(r) == [q \in DOMAIN ran[r] |-> LogProb(data[r][ran[r][q]].response)]

\* The concatenated results, taken at revert_indices if the rows were rearranged.
LogProbs(r) ==
    LET concat == [q \in DOMAIN ran[r] |-> LogProb(data[r][ran[r][q]].response)]
    IN  IF Dynamic THEN Reorder(concat, ReverseIdx(ran[r])) ELSE concat

Return(r) ==
    /\ \/ /\ stage \in {"old_log_prob", "ref_log_prob"}
          /\ at[r] = "running" /\ todo[r] = <<>>
          /\ data' = [data EXCEPT ![r] = Share(LogProbs(r), r)]
       \/ /\ stage = "update_actor"
          /\ at[r] = "gathered" /\ minis[r] = <<>>
          /\ data' = [data EXCEPT ![r] = <<>>]
    /\ at' = [at EXCEPT ![r] = "finished"]
    /\ minis' = [minis EXCEPT ![r] = <<>>]
    /\ ran' = [ran EXCEPT ![r] = <<>>]
    /\ UNCHANGED <<driver, todo, grads, steps>>

--------------------------------------------------------------------------------
(* The driver, with what the ranks have returned *)

\* collect_dp_compute_data_proto
Collected == Concat([i \in 1 .. conf.world |-> data[i - 1]])

Collect(s) ==
    /\ stage = s
    /\ \A r \in Ranks : at[r] = "finished"
    /\ at' = [r \in Ranks |-> "idle"]
    /\ data' = [r \in Ranks |-> <<>>]
    /\ UNCHANGED <<minis, todo, ran, grads, steps>>

\* unpad_dataproto, union with the test batch, and its scores
Validated ==
    /\ Collect("validate")
    /\ scored' = Union(ValRows, Unpad(Collected, PadSize(ValRows, conf.world)))
    /\ stage' = "generate"
    /\ UNCHANGED <<conf, batch, reward, ready>>

\* _balance_batch
Balanced(rows) ==
    IF conf.balance
    THEN {Reorder(rows, Concat(s)) : s \in EqualSplits(Len(rows), conf.world)}
    ELSE {rows}

\* From the responses to the reward: repeat, union, balance, and compute_reward, or
\* compute_reward_async, which gets the batch as it is at this moment.
WithResponses(out) ==
    LET repeated == Repeat(batch, conf.n)
    IN  IF ~CanUnion(repeated, out)
        THEN Raise
        ELSE /\ batch' \in Balanced(Union(repeated, out))
             /\ reward' = [i \in DOMAIN batch' |-> <<batch'[i].prompt, batch'[i].response>>]
             /\ ready' = ~conf.async
             /\ stage' = "old_log_prob"
             /\ UNCHANGED <<conf, scored>>

Generated == Collect("generate") /\ WithResponses(Collected)

\* run_offline: the responses of the dataset, one to a prompt.
OfflineResponses ==
    /\ stage = "generate" /\ conf.offline
    /\ WithResponses([i \in DOMAIN batch |-> [response |-> <<batch[i].prompt, 1>>]])
    /\ UNCHANGED workers

\* The remote task has computed the reward.
RewardComputed ==
    /\ reward # None /\ ~ready
    /\ ready' = TRUE
    /\ UNCHANGED <<conf, stage, batch, scored, reward, workers>>

OldLogProbs ==
    /\ Collect("old_log_prob")
    /\ batch' = Union(batch, Collected)
    /\ stage' = "ref_log_prob"
    /\ UNCHANGED <<conf, scored, reward, ready>>

RefLogProbs ==
    /\ Collect("ref_log_prob")
    /\ batch' = Union(batch, Collected)
    /\ stage' = "adv"
    /\ UNCHANGED <<conf, scored, reward, ready>>

\* ray.get(future_reward), if there is one
Advantage ==
    /\ stage = "adv" /\ ready
    /\ batch' = [i \in DOMAIN batch |-> [batch[i] EXCEPT !.score = reward[i]]]
    /\ stage' = "update_actor"
    /\ UNCHANGED <<conf, scored, reward, ready, workers>>

Updated ==
    /\ Collect("update_actor")
    /\ stage' = "done"
    /\ UNCHANGED <<conf, batch, scored, reward, ready>>

--------------------------------------------------------------------------------
(* The specification *)

Driver ==
    \/ Dispatch \/ Validated \/ Generated \/ OfflineResponses
    \/ OldLogProbs \/ RefLogProbs \/ Advantage \/ Updated

Worker ==
    \/ Rearrange \/ Forward \/ OptimizerStep
    \/ \E r \in Ranks : Gather(r) \/ Generate(r) \/ Split(r) \/ Return(r)

Next == Driver \/ Worker \/ RewardComputed

Spec     == Init /\ [][Next]_vars
FairSpec == Spec /\ WF_vars(Driver) /\ WF_vars(Worker) /\ WF_vars(RewardComputed)

--------------------------------------------------------------------------------
(* Properties *)

\* Chunking, gathering, rearranging, balancing, padding and putting together again leave
\* every column in the row it was computed for: the response answers the row's prompt, the
\* log probabilities of both policies are those of this response, and the score is the
\* score of this response to this prompt.  Validation scores every row of the test set.
RowsAligned ==
    /\ \A i \in DOMAIN batch : LET row == batch[i] IN
        /\ row.response # None => row.response[1] = row.prompt
        /\ row.old # None => row.old = row.response
        /\ row.ref # None => row.ref = row.response
        /\ row.score # None => row.score = <<row.prompt, row.response>>
    /\ scored # None =>
        /\ Len(scored) = conf.val * conf.valN
        /\ \A i \in DOMAIN scored : scored[i].response[1] = scored[i].prompt

\* The ranks of a sequence parallel group always run the same rows in the same order:
\* each of them computes a part of every sequence.
GroupsAgree ==
    (Computing /\ \A r \in Ranks : at[r] = "running") =>
        \A r \in Ranks : \A q \in Group(r) :
            /\ Len(todo[q]) = Len(todo[r])
            /\ todo[r] # <<>> => Rows(q, Head(todo[q])) = Rows(r, Head(todo[r]))

\* The rows in a gradient, one by one.
Terms(grad) == UNION {{x} \X (1 .. grad[x]) : x \in DOMAIN grad}

StepsInEpoch == Len(steps) \div conf.epochs

\* Those of rank r in an epoch of the update that have response y.
TermsFor(r, e, y) ==
    {t \in UNION {{k} \X Terms(steps[e * StepsInEpoch + k][r]) : k \in 1 .. StepsInEpoch} :
        t[2][1].response = y}

\* In every epoch of the update the gradients of one group, and of no other, have every row
\* of the batch once.
TrainedOnce ==
    stage = "done" =>
        \A e \in 0 .. conf.epochs - 1 : \A i \in DOMAIN batch : \E q \in Ranks : \A r \in Ranks :
            Cardinality(TermsFor(r, e, batch[i].response)) = IF r \in Group(q) THEN 1 ELSE 0

\* Every optimizer step but the last of an epoch is taken on ppo_mini_batch_size prompts
\* with all their responses, or as near as whole rows for every group come to it, and on
\* every rank each of these rows counts for as much.
MiniBatchMeans ==
    stage = "done" =>
        \A k \in DOMAIN steps : k % StepsInEpoch # 0 => \A r \in Ranks :
            LET rows == Cardinality(Terms(steps[k][r]))
                groups == conf.world \div conf.sp
            IN  /\ rows * groups <= conf.mini * conf.n
                /\ conf.mini * conf.n < (rows + 1) * groups
                /\ \A x \in DOMAIN steps[k][r] : x.weight = rows

\* Two things make a step of a valid configuration fail: the batch to generate from cannot
\* be cut into equal parts, and n > 1 where there is one response to a prompt, which is
\* what sampled validation and offline data have.
OnlyTheseRaise ==
    stage = "raised" =>
        \/ ~conf.offline /\ conf.batch % conf.world # 0
        \/ conf.n > 1 /\ (conf.sampled \/ conf.offline)

\* No rank waits forever in a collective that another rank never enters: the step ends.
StepEnds == <>(stage \in {"done", "raised"})

=================================================================================
