---------------------------- MODULE MegatronWeights ----------------------------
(***************************************************************************)
(* The weights of a model on their way through the Megatron workers: from  *)
(* a HuggingFace state_dict into the shards of the ranks (verl/models/     *)
(* mcore/loader.py), from the shards to the inference engine of every rank *)
(* (per_tensor_generator in verl/utils/megatron_utils.py, with             *)
(* weight_converter.py), and back into one state_dict on rank 0 (saver.py).*)
(*                                                                         *)
(* The three are calls of the driver, which waits for every rank.  In a    *)
(* call each rank runs its own sequence of collectives; one takes place    *)
(* when all ranks of its group have reached it.                            *)
(*                                                                         *)
(* Abstractions.  A tensor is the sequence of its units along the dimension*)
(* it is split in: the heads of an attention matrix, rows or columns of    *)
(* the others, one unit for a norm.  All broadcasts of one tensor (shape,  *)
(* then shard by shard) are one collective, as are a pp group's broadcasts *)
(* of a name and its tensor, and those of one model chunk's parameters     *)
(* over a dp group.  Attention biases and q/k norms, which go the way of   *)
(* weights and norms, and experts are left out; tp divides all sizes,      *)
(* which Megatron demands of num_query_groups and the layers' sizes.       *)
(***************************************************************************)
EXTENDS Integers, SequencesExt

CONSTANT Jobs   \* the configurations: see JobFields

(* tp, cp, dp, pp  the sizes of the parallel groups                          *)
(* vpp             virtual pipeline size, 0 for None                         *)
(* vrank           Megatron's current virtual rank while weights are sent    *)
(* layers, heads, kv, width   the model; width stands for the vocabulary and *)
(*                 the intermediate size                                     *)
(* tied            tie_word_embeddings                                       *)
(* first, last     num_layers_in_first/last_pipeline_stage, 0 for None       *)
(* embed, loss     account_for_embedding/loss_in_pipeline_split              *)
(* hf              weights come from the HF model, not from a checkpoint of  *)
(*                 shards (use_dist_checkpointing) that puts them in place   *)
JobFields == {"tp", "cp", "dp", "pp", "vpp", "vrank", "layers", "heads", "kv", "width",
              "tied", "first", "last", "embed", "loss", "hf"}

ASSUME JobsAssumption == \A j \in Jobs :
    /\ DOMAIN j = JobFields
    /\ \A f \in {"tp", "cp", "dp", "pp", "layers", "heads", "kv", "width"} : j[f] \in Nat \ {0}
    /\ \A f \in {"vpp", "vrank", "first", "last"} : j[f] \in Nat
    /\ \A f \in {"tied", "embed", "loss", "hf"} : j[f] \in BOOLEAN
    /\ j.heads % j.kv = 0 /\ j.kv % j.tp = 0 /\ j.width % j.tp = 0

\* The pipelines that Megatron builds: virtual stages are for several stages, a first or last
\* stage with a size of its own excludes that embedding or loss count as layers, and what is
\* shared out comes out even (with virtual stages it divides by the number of middle stages).
ASSUME LayoutsAssumption == \A j \in Jobs :
    LET chunks == IF j.vpp = 0 THEN 1 ELSE j.vpp
        middle == j.pp - (IF j.first > 0 THEN 1 ELSE 0) - (IF j.last > 0 THEN 1 ELSE 0)
        all    == j.layers + (IF j.embed THEN 1 ELSE 0) + (IF j.loss THEN 1 ELSE 0)
        rest   == j.layers - j.first - j.last
    IN  /\ j.vpp > 0 => j.pp > 1
        /\ IF j.first + j.last = 0 THEN all % (j.pp * chunks) = 0
           ELSE /\ ~j.embed /\ ~j.loss
                /\ j.first % chunks = 0 /\ j.last % chunks = 0
                /\ middle \in Nat /\ rest \in Nat
                /\ IF middle = 0 THEN rest = 0 /\ j.vpp = 0 ELSE rest % (middle * chunks) = 0

VARIABLES
    job,      \* the configuration
    call,     \* the driver's call in progress
    at,       \* at[r]: how many of the call's collectives rank r has been through
    meta,     \* layer_list_meta, the parameters of all stages while they are sent
    param,    \* param[r]: the parameters of rank r's model chunks
    engine,   \* engine[r]: the <<name, tensor>> pairs rank r's engine was given
    merged,   \* rank 0's state_dict, as such pairs
    failed    \* a rank has raised

vars == <<job, call, at, meta, param, engine, merged, failed>>

--------------------------------------------------------------------------------
(* Ranks and groups (Megatron's, in its default order tp-cp-ep-dp-pp) *)

StageSize == job.tp * job.cp * job.dp
Ranks == 0 .. StageSize * job.pp - 1
Tp(r) == r % job.tp
Cp(r) == (r \div job.tp) % job.cp
Dp(r) == (r \div (job.tp * job.cp)) % job.dp
Pp(r) == r \div StageSize

\* The groups a rank belongs to.
TensorGroup(r)   == {q \in Ranks : q \div job.tp = r \div job.tp}
PipelineGroup(r) == {q \in Ranks : q % StageSize = r % StageSize}
ModelGroup(r)    == {q \in Ranks : Dp(q) = Dp(r) /\ Cp(q) = Cp(r)}
DataGroup(r)     == {q \in Ranks : Pp(q) = Pp(r) /\ Cp(q) = Cp(r) /\ Tp(q) = Tp(r)}

\* Mutant: data-parallel and context-parallel ranks in the other order.
GlobalRank_DpInside(tp, dp, pp, cp) == ((pp * job.cp + cp) * job.dp + dp) * job.tp + tp

\* _megatron_calc_global_rank
GlobalRank(tp, dp, pp, cp) == ((pp * job.dp + dp) * job.cp + cp) * job.tp + tp

Chunks == IF job.vpp = 0 THEN 1 ELSE job.vpp

(* What the pipeline's stages hold.  Megatron builds the chunks and runs them *)
(* chunk by chunk, stage by stage.                                           *)

MiddleStages == job.pp - (IF job.first > 0 THEN 1 ELSE 0) - (IF job.last > 0 THEN 1 ELSE 0)

StageLayers(p) ==
    IF job.first + job.last = 0 THEN
        (job.layers + (IF job.embed THEN 1 ELSE 0) + (IF job.loss THEN 1 ELSE 0)) \div job.pp
    ELSE IF job.first > 0 /\ p = 0 THEN job.first
    ELSE IF job.last > 0 /\ p = job.pp - 1 THEN job.last
    ELSE (job.layers - job.first - job.last) \div MiddleStages

LayersIn(p, v) ==
    StageLayers(p) \div Chunks
      - (IF job.embed /\ p = 0 /\ v = 0 THEN 1 ELSE 0)
      - (IF job.loss /\ p = job.pp - 1 /\ v = Chunks - 1 THEN 1 ELSE 0)

\* The layer of the model that layer i of chunk v on stage p is.
LayerOf(p, v, i) ==
    LET before[n \in 0 .. v * job.pp + p] ==
            IF n = 0 THEN 0 ELSE before[n - 1] + LayersIn((n - 1) % job.pp, (n - 1) \div job.pp)
    IN  before[v * job.pp + p] + i

--------------------------------------------------------------------------------
(* Tensors *)

Parts == <<"input_layernorm", "qkv", "o_proj", "post_attention_layernorm", "gate_up", "down_proj">>
Norms == {"input_layernorm", "post_attention_layernorm", "final_layernorm"}

\* The parameters of chunk v on stage p, as <<chunk, layer, part>>, in named_parameters' order.
ChunkParams(p, v) ==
    (IF p = 0 /\ v = 0 THEN <<<<v, 0, "embedding">>>> ELSE <<>>)
    \o FlattenSeq([i \in 1 .. LayersIn(p, v) |-> [n \in 1 .. 6 |-> <<v, i - 1, Parts[n]>>]])
    \o (IF p = job.pp - 1 /\ v = Chunks - 1
        THEN <<<<v, 0, "final_layernorm">>>>
             \o (IF job.tied /\ job.pp = 1 THEN <<>> ELSE <<<<v, 0, "output_layer">>>>)
        ELSE <<>>)

StageParams(p) == FlattenSeq([v \in 1 .. Chunks |-> ChunkParams(p, v - 1)])

InHF(part) ==
    CASE part = "qkv"             -> <<"q_proj", "k_proj", "v_proj">>
      [] part = "gate_up"         -> <<"gate_proj", "up_proj">>
      [] part = "embedding"       -> <<"embed_tokens">>
      [] part = "final_layernorm" -> <<"norm">>
      [] part = "output_layer"    -> <<"lm_head">>
      [] OTHER                    -> <<part>>

Units(name) ==
    CASE name \in {"q_proj", "o_proj"} -> job.heads
      [] name \in {"k_proj", "v_proj"} -> job.kv
      [] name \in Norms \union {"norm"} -> 1
      [] OTHER -> job.width

\* Units from + 1 .. from + n of a tensor of the HF model.
Slice(l, name, from, n) ==
    [i \in 1 .. n |-> <<l, IF job.tied /\ name = "lm_head" THEN "embed_tokens" ELSE name, from + i>>]

Full(l, name) == Slice(l, name, 0, Units(name))

\* The share of rank r in one of them.
Share(r, l, name) == Slice(l, name, Tp(r) * (Units(name) \div job.tp), Units(name) \div job.tp)

\* What Megatron's modules take x to be on rank r: fused matrices hold the rank's query
\* groups one after the other, and its share of gate above its share of up.
RightTensor(r, x) ==
    LET part == x[3]
        l == IF part \in Range(Parts) THEN LayerOf(Pp(r), x[1], x[2]) ELSE 0
        groups == job.kv \div job.tp
        perGroup == job.heads \div job.kv
    IN  CASE part = "qkv" -> FlattenSeq([n \in 1 .. groups |->
                 LET g == Tp(r) * groups + n - 1 IN
                 Slice(l, "q_proj", g * perGroup, perGroup)
                     \o Slice(l, "k_proj", g, 1) \o Slice(l, "v_proj", g, 1)])
          [] part = "gate_up" -> Share(r, l, "gate_proj") \o Share(r, l, "up_proj")
          [] part \in Norms -> Full(l, InHF(part)[1])
          [] OTHER -> Share(r, l, InHF(part)[1])

\* torch.chunk into n equal pieces.
Chunked(s, n) ==
    [i \in 1 .. n |-> SubSeq(s, (i - 1) * (Len(s) \div n) + 1, i * (Len(s) \div n))]

--------------------------------------------------------------------------------
(* The items of a state_dict, in the order loader and saver go through them *)

ItemCount == 6 * job.layers + 3
Item(k) ==
    CASE k = 1 -> [layer |-> 0, part |-> "embedding"]
      [] k = ItemCount - 1 -> [layer |-> 0, part |-> "final_layernorm"]
      [] k = ItemCount -> [layer |-> 0, part |-> "output_layer"]
      [] OTHER -> [layer |-> (k - 2) \div 6, part |-> Parts[((k - 2) % 6) + 1]]

PerModel == (job.layers \div job.pp) \div Chunks

\* Mutant: the layers of a stage are taken to follow one another.
LayerMap_StageByStage(l) ==
    CHOOSE x \in (0 .. job.pp - 1) \X (0 .. Chunks - 1) \X (0 .. PerModel - 1) :
        (x[1] * Chunks + x[2]) * PerModel + x[3] = l

\* _megatron_calc_layer_map: the stage, chunk and index in it of a layer.
LayerMap(l) ==
    CHOOSE x \in (0 .. job.pp - 1) \X (0 .. Chunks - 1) \X (0 .. PerModel - 1) :
        x[2] * (job.layers \div Chunks) + x[1] * PerModel + x[3] = l

\* Where an item lives: its stage, and its parameter there.
Home(item) ==
    CASE item.part = "embedding" -> [pp |-> 0, param |-> <<0, 0, "embedding">>]
      [] item.part \in {"final_layernorm", "output_layer"} ->
             [pp |-> job.pp - 1, param |-> <<Chunks - 1, 0, item.part>>]
      [] OTHER -> LET x == LayerMap(item.layer) IN
                  [pp |-> x[1], param |-> <<x[2], x[3], item.part>>]

\* Loader and saver assert that every chunk has the same number of layers.
SameLayers ==
    /\ PerModel * job.pp * Chunks = job.layers
    /\ \A p \in 0 .. job.pp - 1, v \in 0 .. Chunks - 1 : LayersIn(p, v) = PerModel

--------------------------------------------------------------------------------
(* init_model: load_state_dict_to_megatron_gptmodel *)

\* Mutant: a partition's heads are written kind by kind.
QKVShard_KindByKind(q, k, v, t) ==
    Chunked(q, job.tp)[t + 1] \o Chunked(k, job.tp)[t + 1] \o Chunked(v, job.tp)[t + 1]

\* Shard t of the fused attention matrix: query group by query group.
QKVShard(q, k, v, t) ==
    LET groups == job.kv \div job.tp
        part(s) == Chunked(Chunked(s, job.tp)[t + 1], groups)
    IN  FlattenSeq([j \in 1 .. groups |-> part(q)[j] \o part(k)[j] \o part(v)[j]])

\* Shard t of an item, as the source rank broadcasts it.
LoadedShard(item, t) ==
    LET hf == [n \in 1 .. Len(InHF(item.part)) |-> Full(item.layer, InHF(item.part)[n])]
    IN  CASE item.part = "qkv" -> QKVShard(hf[1], hf[2], hf[3], t)
          [] item.part = "gate_up" -> Chunked(hf[1], job.tp)[t + 1] \o Chunked(hf[2], job.tp)[t + 1]
          [] item.part \in Norms -> hf[1]
          [] OTHER -> Chunked(hf[1], job.tp)[t + 1]

\* The ranks of G have all been through n collectives of the call.
Together(G, n) == \A r \in G : at[r] = n

Pass(G, by) == at' = [r \in Ranks |-> IF r \in G THEN at[r] + by ELSE at[r]]

\* The model groups of data-parallel rank 0 receive an item from their first rank.
LoadItem ==
    /\ call = "load"
    /\ job.hf /\ SameLayers
    /\ \E r \in {q \in Ranks : Tp(q) = 0 /\ Dp(q) = 0 /\ Pp(q) = 0} :
        LET G == ModelGroup(r)
            item == Item(at[r] + 1)
            home == Home(item)
        IN  /\ at[r] < ItemCount
            /\ Together(G, at[r])
            /\ GlobalRank(0, 0, 0, Cp(r)) \in G
            /\ param' = [q \in Ranks |->
                   IF q \in G /\ Pp(q) = home.pp /\ home.param \in DOMAIN param[q]
                   THEN [param[q] EXCEPT ![home.param] = LoadedShard(item, Tp(q))]
                   ELSE param[q]]
            /\ Pass(G, 1)
    /\ UNCHANGED <<job, call, meta, engine, merged, failed>>

\* dist.barrier(), before the copies go to the other data-parallel ranks and at the end
\* of saving.
Barrier ==
    /\ call \in {"load", "merge"}
    /\ SameLayers
    /\ Together(Ranks, ItemCount)
    /\ Pass(Ranks, 1)
    /\ UNCHANGED <<job, call, meta, param, engine, merged, failed>>

\* broadcast_params of chunk v inside a data-parallel group, from its first rank.
CopyChunk ==
    /\ call = "load"
    /\ \E first \in {r \in Ranks : Dp(r) = 0} :
        LET G == DataGroup(first)
            v == at[first] - ItemCount - 1
        IN  /\ v \in 0 .. Chunks - 1
            /\ Together(G, at[first])
            /\ param' = [r \in Ranks |->
                   IF r \in G
                   THEN [x \in DOMAIN param[r] |-> IF x[1] = v THEN param[first][x] ELSE param[r][x]]
                   ELSE param[r]]
            /\ Pass(G, 1)
    /\ UNCHANGED <<job, call, meta, engine, merged, failed>>

--------------------------------------------------------------------------------
(* generate_sequences: per_tensor_generator *)

\* mpu.is_pipeline_first_stage() in a rank of stage p: Megatron's virtual rank counts.
FirstStage(p) == p = 0 /\ (job.vpp = 0 \/ job.vrank = 0)

\* Mutant: the chunks are not told apart.
LayerOffset_NoChunks(p, v) == p * (job.layers \div job.pp)

\* get_transformer_layer_offset
LayerOffset(p, v) ==
    LET middle == job.layers - job.first - job.last
        all == job.layers + (IF job.embed THEN 1 ELSE 0) + (IF job.loss THEN 1 ELSE 0)
        inChunk(n) == n \div job.vpp
        cycle == inChunk(job.first) + inChunk(middle) + inChunk(job.last)
        perStage == IF MiddleStages > 0 THEN middle \div MiddleStages ELSE 0
    IN  CASE job.pp = 1 -> 0
          [] job.pp > 1 /\ job.first + job.last > 0 /\ job.vpp > 0 ->
                 v * cycle + (IF p = 0 THEN 0
                              ELSE inChunk(job.first) + (p - 1) * (inChunk(middle) \div MiddleStages))
          [] job.pp > 1 /\ job.first + job.last > 0 /\ job.vpp = 0 ->
                 IF p = 0 THEN 0
                 ELSE job.first + (IF job.first = 0 THEN p ELSE p - 1) * perStage
          [] OTHER ->
                 (IF job.vpp > 0
                  THEN v * inChunk(all) + p * inChunk(all \div job.pp)
                  ELSE p * (all \div job.pp))
                   - (IF job.embed /\ ~FirstStage(p) THEN 1 ELSE 0)

\* normalize_model_name: the layer a parameter of stage p is sent as.
SentLayer(p, x) == IF x[3] \in Range(Parts) THEN x[2] + LayerOffset(p, x[1]) ELSE 0

\* Every stage's parameters, as gathered over the pipeline group.
AllParams ==
    FlattenSeq([n \in 1 .. job.pp |->
        LET own == StageParams(n - 1) IN
        [i \in 1 .. Len(own) |-> [pp |-> n - 1, param |-> own[i]]]])

\* A tied output layer is to be skipped; the name tested for is not the parameter's.
Skipped(part) == job.tied /\ part = "output_layers"

\* Pieces i of all chunks, where every chunk is cut after sizes[1], sizes[2], ... units.
Pieces(chunks, sizes) ==
    LET before[i \in 1 .. Len(sizes)] == IF i = 1 THEN 0 ELSE before[i - 1] + sizes[i - 1]
    IN  [i \in 1 .. Len(sizes) |->
            FlattenSeq([c \in 1 .. Len(chunks) |->
                SubSeq(chunks[c], before[i] + 1, before[i] + sizes[i])])]

\* default_tp_concat_fn: the tensors of the HF model from the shards of a tensor group.
Joined(part, shards) ==
    LET perGroup == job.heads \div job.kv
        kvShard == Len(shards[1]) \div (perGroup + 2)
        groups == job.kv \div job.tp
    IN  CASE part = "qkv" ->
                 Pieces(FlattenSeq([t \in 1 .. job.tp |-> Chunked(shards[t], groups)]),
                        <<(kvShard * perGroup) \div groups, kvShard \div groups, kvShard \div groups>>)
          [] part = "gate_up" ->
                 LET half == Len(shards[1]) \div 2 IN Pieces(shards, <<half, half>>)
          [] OTHER -> <<FlattenSeq(shards)>>

\* convert_param: what the engine gets for one entry of meta.
Converted(entry, tensors) ==
    LET names == InHF(entry.param[3]) IN
    {<<<<SentLayer(entry.pp, entry.param), names[n]>>, tensors[n]>> : n \in DOMAIN names}

\* The entry a rank is at.
Current(r) == at[r] \div 2 + 1

\* broadcast_from_megatron_pp: what rank r gets from the rank of its pipeline group that
\* has the entry's parameter.
FromStage(r, entry) ==
    param[CHOOSE q \in PipelineGroup(r) : Pp(q) = entry.pp][entry.param]

\* Two collectives for an entry: over the pipeline group from the stage that has it ...
BroadcastEntry ==
    /\ call = "sync"
    /\ \E r \in {q \in Ranks : Pp(q) = 0} :
        LET G == PipelineGroup(r)
            entry == meta[Current(r)]
        IN  /\ Current(r) \in DOMAIN meta
            /\ at[r] % 2 = 0 /\ Together(G, at[r])
            /\ IF entry.param[3] \in Norms
               THEN /\ engine' = [q \in Ranks |-> IF q \in G
                                   THEN engine[q] \union Converted(entry, <<FromStage(q, entry)>>) ELSE engine[q]]
                    /\ Pass(G, 2)
               ELSE /\ Pass(G, IF Skipped(entry.param[3]) THEN 2 ELSE 1)
                    /\ UNCHANGED engine
    /\ UNCHANGED <<job, call, meta, param, merged, failed>>

\* ... and over the tensor group.
GatherEntry ==
    /\ call = "sync"
    /\ \E r \in {q \in Ranks : Tp(q) = 0} :
        LET G == TensorGroup(r)
            entry == meta[Current(r)]
            shards == [t \in 1 .. job.tp |-> FromStage(CHOOSE q \in G : Tp(q) = t - 1, entry)]
            tensors == Joined(entry.param[3], shards)
        IN  /\ at[r] % 2 = 1 /\ Together(G, at[r])
            /\ engine' = [q \in Ranks |-> IF q \in G
                          THEN engine[q] \union Converted(entry, tensors) ELSE engine[q]]
            /\ Pass(G, 1)
    /\ UNCHANGED <<job, call, meta, param, merged, failed>>

--------------------------------------------------------------------------------
(* save_checkpoint: merge_megatron_ckpt_gptmodel *)

\* Mutant: a shard is taken apart kind by kind, whatever its query groups.
SplitQKV_KindByKind(shards) ==
    Pieces(shards, <<job.heads \div job.tp, job.kv \div job.tp, job.kv \div job.tp>>)

SplitQKV(shards) ==
    LET groups == job.kv \div job.tp
        qShard == job.heads \div job.tp
        total == qShard + 2 * groups
        whole == FlattenSeq(shards)
        inGroups(i) == Chunked(SubSeq(whole, i * total + 1, (i + 1) * total), groups)
    IN  Pieces(FlattenSeq([i \in 1 .. job.tp |-> inGroups(i - 1)]), <<qShard \div groups, 1, 1>>)

Collected(item, shards) ==
    CASE item.part = "qkv" -> SplitQKV(shards)
      [] item.part = "gate_up" ->
             LET share == job.width \div job.tp IN
             Pieces(Chunked(FlattenSeq(shards), job.tp), <<share, share>>)
      [] item.part \in Norms -> <<shards[1]>>
      [] OTHER -> <<FlattenSeq(shards)>>

\* The ranks of rank 0's model group broadcast their shards of an item; rank 0 keeps them.
MergeItem ==
    /\ call = "merge"
    /\ SameLayers
    /\ at[0] < ItemCount
    /\ LET item == Item(at[0] + 1)
          G == ModelGroup(0)
          home == Home(item)
          src(t) == GlobalRank(t, 0, home.pp, 0)
          shards == [t \in 1 .. job.tp |-> param[src(t - 1)][home.param]]
          tensors == Collected(item, shards)
          names == InHF(item.part)
      IN  /\ Together(G, at[0])
          /\ IF job.tied /\ item.part = "output_layer" THEN UNCHANGED merged
             ELSE /\ \A t \in 0 .. job.tp - 1 : src(t) \in G
                  /\ merged' = merged \union
                         {<<<<item.layer, names[n]>>, tensors[n]>> : n \in DOMAIN names}
          /\ Pass(G, 1)
    /\ UNCHANGED <<job, call, meta, param, engine, failed>>

--------------------------------------------------------------------------------
(* The driver's calls *)

\* Ranks that take no part in the items go straight to the barrier.
EntersAt(c, r) ==
    CASE c = "load" /\ ~job.hf -> ItemCount + 1 + Chunks
      [] c = "load" /\ job.hf /\ Dp(r) # 0 -> ItemCount
      [] c = "merge" /\ (Dp(r) # 0 \/ Cp(r) # 0) -> ItemCount
      [] OTHER -> 0

Returned ==
    \A r \in Ranks :
        at[r] = CASE call = "load" -> ItemCount + 1 + Chunks
                  [] call = "sync" -> 2 * Len(meta)
                  [] call = "merge" -> ItemCount + 1
                  [] OTHER -> 0

NextCall ==
    /\ call # "done"
    /\ Returned
    /\ call' = CASE call = "load" -> "sync" [] call = "sync" -> "merge" [] OTHER -> "done"
    /\ at' = [r \in Ranks |-> EntersAt(call', r)]
    /\ meta' = IF call' = "sync" THEN AllParams ELSE <<>>
    /\ UNCHANGED <<job, param, engine, merged, failed>>

AssertFails ==
    /\ ~failed
    /\ (call = "load" /\ job.hf) \/ call = "merge"
    /\ ~SameLayers
    /\ failed' = TRUE
    /\ UNCHANGED <<job, call, at, meta, param, engine, merged>>

Init ==
    /\ job \in Jobs
    /\ call = "load"
    /\ at = [r \in Ranks |-> EntersAt("load", r)]
    /\ meta = <<>>
    /\ param = [r \in Ranks |-> [x \in Range(StageParams(Pp(r))) |->
                   IF job.hf THEN <<>> ELSE RightTensor(r, x)]]
    /\ engine = [r \in Ranks |-> {}]
    /\ merged = {}
    /\ failed = FALSE

Next ==
    \/ LoadItem \/ Barrier \/ CopyChunk
    \/ BroadcastEntry \/ GatherEntry
    \/ MergeItem
    \/ NextCall \/ AssertFails

\* A collective all of whose ranks have arrived takes place, and the driver goes on.
Spec == Init /\ [][Next]_vars /\ WF_vars(Next)

--------------------------------------------------------------------------------
(* Properties *)

LayerNames == {"input_layernorm", "q_proj", "k_proj", "v_proj", "o_proj",
               "post_attention_layernorm", "gate_proj", "up_proj", "down_proj"}

\* The HF model, its output layer apart.
Body ==
    {<<<<l, n>>, Full(l, n)>> : l \in 0 .. job.layers - 1, n \in LayerNames}
        \union {<<<<0, n>>, Full(0, n)>> : n \in {"embed_tokens", "norm"}}

OutputLayer == {<<<<0, "lm_head">>, Full(0, "lm_head")>>}

\* Loading puts every weight where training looks for it: in the chunk that runs its
\* layer, on the rank of its share, the heads of a query group together, and on every
\* data- and context-parallel replica (loader.py).
LoadedInPlace ==
    call = "load" /\ Returned =>
        \A r \in Ranks : \A x \in DOMAIN param[r] : param[r][x] = RightTensor(r, x)

\* Configurations whose layers are misnamed.  With virtual stages, a short last stage alone
\* gives the second stage the offset of the first.  An embedding that counts as a layer shifts
\* the first stage's chunks by whether the current virtual rank is 0, not by their own: its
\* later chunks are misnamed in the one case, its first chunk, if it has layers, in the other.
Misnamed ==
    /\ job.vpp > 0
    /\ \/ job.first = 0 /\ job.last \in 1 .. job.layers - 1
       \/ job.embed /\ (IF job.vrank = 0 THEN job.vpp > 1 ELSE StageLayers(0) > job.vpp)

\* Whatever way the model is laid out over ranks and stages, every engine is given the
\* complete HF model: each tensor once, whole, under its own name.  It fails in exactly
\* the misnamed configurations.  A tied output layer exists, and is sent, only where the
\* pipeline has several stages.
EngineGetsModel ==
    call = "sync" /\ Returned =>
        \A r \in Ranks :
            Misnamed <=> engine[r] # Body \union (IF job.tied /\ job.pp = 1 THEN {} ELSE OutputLayer)

\* What rank 0 saves is the HF model, without the output layer if it is tied (saver.py).
MergedIsModel ==
    call = "merge" /\ Returned => merged = Body \union (IF job.tied THEN {} ELSE OutputLayer)

\* Stages of different lengths, which only checkpoints of shards allow.
Uneven ==
    \E p \in 0 .. job.pp - 1, v \in 0 .. Chunks - 1 :
        LayersIn(p, v) * job.pp * Chunks # job.layers

\* No rank waits for ever for others that are in another collective: every call returns,
\* or an assertion tells that loader or saver cannot treat stages of different lengths.
CallsReturn == <>(IF Uneven THEN failed ELSE call = "done")

================================================================================
