# A verification of the OAPL trainer

OAPL is an off-policy RL trainer for language models on top of a fork of verl. One driver process
directs groups of workers, one per GPU, through Ray; the workers run the same program and meet in
collectives; generation runs in inference engines, in the same process or behind HTTP servers, with
tools called in between. This directory models the parts of it whose correctness depends on order,
concurrency, failure and boundaries, checks them with TLC on small instances, and proves the
properties that matter most for every instance with TLAPS. Paths are relative to `src/verl/` unless
they start with `src/`.

## 1. The system

### Components

| component | code | state it keeps | operations | status |
|---|---|---|---|---|
| Training step: driver, dispatch, ranks | `trainer/oapl/ray_trainer.py`, `trainer/ppo/ray_trainer.py`, `workers/fsdp_workers.py`, `workers/actor/dp_actor*.py`, `protocol.py`, `single_controller/base/decorator.py` | the driver's batch, each rank's share of it, gradients | validate, generate, balance, reward, log probabilities, update | `DataProto`, `OAPLStep` |
| Sequence-length balancing | `utils/seqlen_balancing.py` | a heap of partial partitions | `get_seqlen_balanced_partitions`, `rearrange_micro_batches`, `get_reverse_idx` | `SeqlenBalancing` |
| Checkpointing and resume | `trainer/ppo/ray_trainer.py`, `utils/checkpoint/*` | the checkpoint directory and its tracker; step, epoch, dataloader position; `previous_saved_paths` | save, rotate, load, find the latest, crash and restart | `TrainerCheckpoint`, `DurableTraining` |
| Chat scheduler | `workers/rollout/chat_scheduler.py` | heap of weighted server addresses, LRU cache of request ids, one conversation per row | `generate_sequences`, submit, completion callback, tool calls | `ChatScheduler`, `BatchRollout` |
| Multi-turn SGLang rollout | `workers/rollout/sglang_rollout/sglang_rollout.py`, `workers/rollout/schemas.py` | one coroutine per request, one `sampling_params` for all of them | engine calls, tool calls, token budget, finalize | `SGLangRollout` |
| Rollout servers and their manager | `workers/rollout/async_server.py`, `vllm_async_server.py`, `async_sglang_server.py` | server actors, addresses, engines; `is_sleep` | start and restart, wake up, sleep | `RolloutServers` |
| FSDP workers, resharding | `workers/fsdp_workers.py`, `workers/sharding_manager/fsdp_*.py` | where parameters and optimizer are, the engines' weights, random generators | init, load, offload, enter and leave a sharding manager | `RolloutServers` |
| Tools, rate limiter, execution pools | `tools/search_tool.py`, `tools/sandbox_fusion_tools.py`, `tools/utils/*` | execution pools; a token bucket actor shared by name | acquire, call with retries, release | `ToolExecution` |
| Megatron backend | `workers/megatron_workers.py`, `utils/megatron_utils.py`, `models/mcore/*`, `utils/model.py` | the shards of every rank, the engines' weights | load from and merge into a HuggingFace state_dict, send to the engines | `MegatronWeights` |
| Reward managers and scoring | `trainer/ppo/reward.py`, `workers/reward_manager/*`, `utils/reward_score/*` | a pool of scoring processes, graders of programs | score a batch, score it again, attach extra information | `RewardScoring` |
| Worker groups, resource pools | `single_controller/*` | Ray actors and placement groups | spawn, register, call | not modelled: start-up code around Ray; its calls are `OAPLStep`'s dispatch |
| PPO loop, critic, reward models, losses | `trainer/ppo/*`, `trainer/oapl/core_algos.py`, `workers/critic`, `workers/reward_model` | - | - | not modelled: real-valued arithmetic; OAPL has no critic |
| SFT trainer, generation, evaluation, datasets, scripts | `trainer/fsdp_sft_trainer.py`, `trainer/main_*.py`, `utils/dataset`, `src/scripts`, `src/preprocess` | - | - | not modelled: sequential |
| Model code, kernels, patched vLLM, I/O, tracking | `models`, `utils/kernel`, `third_party`, `utils/*` | - | - | not modelled: tensor code, vendored code, pure I/O |

### How they interact

`fit` calls a method of the worker group, which *dispatches* the batch: it is cut into equal chunks, one
per rank, and the results are concatenated in the order of the ranks. `ray.get` blocks the driver, so
that one call runs at a time. Only the reward may run beside the step, as a Ray task that got a copy of
the batch. On a rank a sharding manager gathers the rows of its tensor or sequence parallel group before
a computation and takes the rank's part afterwards. Every forward pass of the sharded model is a
collective, and so is an optimizer step. The rows are permuted twice, by `_balance_batch` in the driver
and by `rearrange_micro_batches` in every rank, both with the Karmarkar-Karp differencing of
`seqlen_balancing.py`.

In the asynchronous mode the driver's `generate_sequences` goes to the chat scheduler: one coroutine per
conversation in one event loop, requests to one of several HTTP servers, and a callback that calls tools
and submits again. The SGLang rollout does the same inside one process, with an engine shared by its
coroutines. A tool sends a call to its execution pool, whose threads ask one rate limiter, found by its name,
for a token. Training and generation share the GPUs: before a generation the sharding manager of every rank
gives the engine the current weights, swaps random generators and makes room; in the asynchronous mode it is
the servers, each driving some of the ranks, that are told to wake up and sleep. The finished responses go to a
reward manager, in the driver's process or in a pool of others, and its extra information becomes columns of
the batch. At the end of a step the driver may save: each worker group writes its shards, the driver the
dataloader's state and, last, the tracker file that a restart reads first.

### What is hard

- *Killed between two writes.* A checkpoint is 2 x ranks x 3 files, `data.pt` and the tracker, written one
  after the other while old directories are deleted.
- *Interleaved coroutines* around shared state: the LRU cache of request ids; `sampling_params`, changed
  before an `await` and restored after it.
- *Failures of one of many*: a tool, a completion, a server's answer, a row's score, a pool that dies with
  the limiter everybody else uses.
- *Collectives*: a rank that runs one more or one less than the others blocks all of them, and with Megatron
  every rank works out for itself which layer of which stage it is sending.
- *Deadlines that race*: a program that ends as it is killed, rows that wait in a queue while their time runs.
- *Shared devices*: parameters, optimizer and engine are moved in and out between calls, and what an engine
  was given last may not be what was trained last.
- *Rows out of place*: chunk, gather, permute, pad, repeat, and the way back.
- *Boundaries*: token budgets, turn limits, rotation limits, last and partial batches.

`PROJECT.json` lists each hazard at its line with the properties that would catch it.

## 2. Modules

```
DurableTraining  <-- TrainerCheckpoint <-- MCTrainerCheckpoint   + TrainerCheckpoint_proofs
BatchRollout     <-- ChatScheduler     <-- MCChatScheduler       + ChatScheduler_proofs
                     SGLangRollout     <-- MCSGLangRollout       + SGLangRollout_proofs
                     SeqlenBalancing   <-- MCSeqlenBalancing     + SeqlenBalancing_proofs
DataProto        <-- OAPLStep          <-- MCOAPLStep            + OAPLStep_proofs
                     ToolExecution     <-- MCToolExecution       + SGLangRollout_proofs
                     RolloutServers    <-- MCRolloutServers      + RolloutServers_proofs
                     RewardScoring     <-- MCRewardScoring       + RewardScoring_proofs
                     MegatronWeights   <-- MCMegatronWeights     + MegatronWeights_proofs
```

`DurableTraining` and `BatchRollout` are abstract specifications, instantiated by the detailed module with
a refinement mapping; `DataProto` holds the operations on a batch; an `MC` module gives a specification's
constants their values; a `_proofs` module extends the specification
(that of the rollout extends the tools it calls as well). A definition whose name ends in
`_Something` after the name of another (say `KeepStart_OneTooMany`) is a faulty variant of it: no
specification uses it, and each exists to show that a property notices the fault.

### TrainerCheckpoint

State: the directory (`shard[role][step][rank]`, `data[step]`, `tracker`), which survives a crash, and the
job (`phase`, `globalSteps`, `epoch`, `loader`, `weights[role][rank]`, `saved`, `rank`, `run`), which does
not. A shard is `Absent`, `Torn` (being written) or the version of the weights it holds: the run that
computed them and their step. Two history variables say what a coherent restart depends on: `doubtful`, the steps
whose folder was begun and not finished (or was saved by a job that `strays`), and `strays`, that the job went on
from such a folder. Only the form of `resume_from_path` is checked by the code, so `StartFromPath` names any step's
folder. Actions follow `fit`: `Start...` (the three resume modes), `LoadShard` and
`LoadFails` on every rank, `LoadLoader`, `BeginTraining`, `TrainStep`, `NextEpoch`; then the save of the
actor and of the critic on every rank (`Rotate`, `Prepare`, `BeginWrite`, `EndWrite`, with the barriers of
`FSDPCheckpointManager`), `BeginData`, `EndData`, `OpenTracker`, `WriteTracker`. `Crash` is the whole job's,
in any phase of `CrashAt`. A finished job may be started again.

- `TrackerSound`: the step in the tracker can always be restarted from: every shard there, complete, of one
  run, with its dataloader. Rotation removes no checkpoint that is still the last one.
- `CoherentResume`: a training step starts with weights of one version on all ranks and with the matching
  dataloader position, however often the job was killed and resumed, in mode `auto`. `CoherentUnlessDoubtful`: the
  same in any mix of modes, with any folder named, killed anywhere, the ranks' saves included; unless the job strays,
  and even then every rank holds weights of the step before. A straying job may mix the shards of two runs
  that saved the same step, or find no `data.pt`, of which the code only warns (`trainer/ppo/ray_trainer.py:867`).
- `LossBounded`: fewer than `save_freq` finished steps can be lost. `RetainedByRun`: one run leaves at most
  its limit. `EventuallyFinishes`: the last step is reached.
- `ImplementsDurableTraining`: a run continues from the step committed last, a commit names a step that has
  been trained and is later than the one before.

### ChatScheduler

State: `load` (the heap of weighted addresses), `cache` (the LRU of request ids, with the server of each),
and per conversation `messages` (roles), `task`, `depth`, `done`, `at` (its server), `calls` (its tool calls).
Actions: `StartBatch`, `FirstSubmit`, `Resubmit`, `TaskDies` (the assertion on the request id), the
completion's three outcomes (`CompletionFails`, `CompletionEnds`, `CompletionCallsTools`), `ToolReturns` for
each tool in any order, `ToolsFailed` (gather raises on the first exception), `ToolsAnswered`, `ToolRaised`,
`ReturnBatch`. A request id stands for its conversation; the servers and their context limit are external.

- `RequestKnown`: the entry of a conversation in flight is not evicted as long as a batch fits the cache.
- `BatchBalanced`: every batch spreads evenly over the servers whatever earlier ones left in the heap.
  `StickyServer` (proved, no run of its own): a conversation never changes its server.
- `ToolsAwaited`: a tool runs only while its conversation waits for it, or because a sibling raised.
- `TurnLimit`: what `max_turns` really limits. `ImplementsBatchRollout`: a batch returns when every one of its
  conversations has ended, and none changes afterwards.
- `EndsUnlessForgotten`: it does return, unless a conversation in flight was evicted from the cache; and then it
  never does.

### SGLangRollout

State: `params` (the one `sampling_params`), per request its `_req.state`, token kinds (`ids`), the values
saved by its `with` block, what the engine was asked, its turns and finish reason. An engine call is two
steps: `CallEngine` enters `update_sampling_params` and calls (the engine reads the parameters synchronously),
and `AnswerCutOff`, `AnswerEnds`, `AnswerCallsTools` or `Raises` come back and leave the block; in between any
other request runs. A token is the kind of the part of the conversation it belongs to.

- `EngineFits`: no call asks for more than the model holds, nor for nothing.
- `TrainsAsConfigured`: what the leak described below cannot do.
- `TurnByTurn`: what is trained on are answers, each after a generation prompt, through truncation.
- Proved, without a run: `SampledAsAsked` (validation and greedy calls sample as they ask), `RestoredIfAlone` (the parameters come back if no two blocks were open at once) and
  `ReasonKnown` (`finalize` never meets a reason it raises on).

### SeqlenBalancing

The differencing, one push or merge per step, for both callers: equal parts for the ranks (`_balance_batch`)
and any number of micro-batches (`rearrange_micro_batches`, where any other rank may ask for more). A `Set`
keeps its sum and its rows, a `State` is k of them in decreasing order, the heap a set of States.

- `EachRowOnce`, `Balanced` (no State spreads wider than a row is long, or, with equal parts, than two rows
  differ), `AssertionsHold`, `OneRowOver` (a micro-batch exceeds the token limit by less than one row). That the
  permutation is undone afterwards is part of `OAPLStep`'s `RowsAligned`.

### DataProto and OAPLStep

One step of training with the validation before it. The driver's `stage` goes validate, generate,
old_log_prob, ref_log_prob, adv, update_actor, done; every rank goes idle, called, gathered, running, finished
within each call. A column of the batch holds the identity of what it was computed from (a response knows its
prompt, a log probability its response), so that a value in another row's place is seen. `Gather` and
`Generate` are joint actions of a group, `Rearrange` (the all-reduce of the number of micro-batches), `Forward`
and `OptimizerStep` of all ranks: a joint action is enabled when all ranks in it have arrived, which is what a
collective is. `SeqlenBalancing` is used by its contract: any split into non-empty parts that has each row
once, of equal size for the ranks. The numbers of micro-batches and the splits are functions of the rows, as
they are in the code.

- `RowsAligned`: through dispatch, gathering, balancing, rearranging, padding and the asynchronous reward, every
  column belongs to its row.
- `GroupsAgree`: ranks of a sequence parallel group run the same rows in the same order.
- `TrainedOnce`, `MiniBatchMeans`: in each epoch of the update every row is trained on once, and every mini-batch
  but the last is a mean over as many rows as configured, whatever the group sizes.
- `StepEnds`: nobody is left waiting in a collective. `OnlyTheseRaise`: which valid configurations fail.

### ToolExecution

State: of each execution pool (one per tool object) whether it lives and which limiter it found; of each limiter,
which is named by the pool that created it and dies with it, the semaphore and the queue of `acquire` calls; of each
call its `status` and attempts; `releasing`, the releases sent and not yet handled. Actions: `StartPool` (find the
limiter by its name or create one), `Ask`, `RejectQuery`, `TakeUp` by one of the pool's threads, `Acquire` (one thread,
first come first served), `TryAgain`, `Finish`, `Release` (a concurrency group of its own), `PoolDies`, `DropStale`.

- `TokensConserved`: no token of a living limiter is made up whatever dies, and none is lost while the pools it serves
  live. `FirstLimitRules`: the limit of the tool whose pool came first is everybody's.
- `EveryCallReturns`: a call comes back unless all tokens died with the pools that held them.

### RolloutServers

A job is a configuration: engine (vLLM in the ranks' processes, vLLM's or SGLang's servers), nodes and ranks, the
size of a tensor parallel group, offloading, resuming, validation before training. State: each server and what the
manager knows of it; the call of `fit` in progress and its stage; the version of the actor's parameters and of the
engines' weights; where parameters and optimizer are; the random generators of every rank. Actions: the rounds of
`AsyncLLMServerManager.__init__` (`StartRound`, `Ready`, `Bind`, `PortTaken`, `TakeAddress`, `AllAddressed`), `InitEngine`,
`EnginesReady`, `ServerGone`; then for every call `Begin`, its work (`Load`, `Read`, `Update`) and `End`, and for a
generation `Wake`, `Generate`, `Sleep`.

- `GeneratesCurrent`: a generation uses the parameters trained last, except vLLM's servers' first one after a resume,
  which never does. `RandomnessKept`: generating does not disturb the randomness of training, and a tensor parallel group
  samples alike, with the exceptions the comments name.
- `DevicesShared`: actor and engine are never on the device at the same time. `JobsEnd`: which jobs end, which fail, and
  which wait for ever.

### MegatronWeights

The weights on their way from a HuggingFace state_dict into the shards (`load_state_dict_to_megatron_gptmodel`), from
there into every rank's engine (`per_tensor_generator`) and into one state_dict again (`merge_megatron_ckpt_gptmodel`).
A tensor is the sequence of its units (heads, rows, columns) along the dimension it is split in, so that a head or a
layer in another's place is seen. Each rank goes through its own sequence of collectives (`at`), and one takes place
when all of its group have reached it: `LoadItem`, `Barrier`, `CopyChunk`, `BroadcastEntry`, `GatherEntry`, `MergeItem`;
`NextCall` is the driver's, `AssertFails` the loader's and saver's assertion on equal stages.

- `LoadedInPlace`, `EngineGetsModel`, `MergedIsModel`: each weight is where training looks for it, each engine is given the
  whole model under its own names (but in the layouts `Misnamed`), and what is saved is the model.
- `Misnamed` is exact. Virtual stages and a short last stage alone are misnamed if other stages have layers at all. An embedding
  that counts as a layer misnames a later chunk of the first stage if the current virtual rank is 0 (so not with a
  single virtual stage), and its first chunk otherwise (so not if the embedding is all that chunk has).
- `LayoutsAssumption` is what Megatron asserts of a pipeline: what is shared among stages and chunks comes out even,
  virtual stages need several stages, and a first or last stage of its own length excludes counting embedding or loss.
- `CallsReturn`: no rank is left in a collective.

### RewardScoring

A job is a batch, its manager (naive, dapo, or PRIME with a pool of processes and a deadline) and its caller (`fit` of
PPO or of OAPL, or `_validate`). Time is counted in ticks. State: when each row's scoring `begun`, its `result`, whether
the pool is `broken` and in which rows' grading it lost a process unnoticed (`dead`), which `pass` this is, the `reward` and
the length of the extra `info`. Actions: `TakeUp`, `Finish` (with the grader of programs, whose child may end as it is
killed), `DeadlinePasses`, `WorkerDies`, `GraderDies`, `Tick`; then `ScoreAgain` (`compute_reward` takes any exception for a
reason to call the manager a second time), `ManagerRaises`, `ManagerReturns`, `Attach`. Leaving PRIME's `with` block
waits for the pool (`shutdown(wait=True)`), which notices the end of a process by a pipe. A process that is grading a program
has children that inherit the pipe and outlive it, so its end goes unnoticed; if no process of the pool is noticed, the call
waits for ever (phase `hung`). This is CPython's pool, external to the repository: modelled as version 3.11 behaves where
processes are forked, which a small program with the same structure confirmed.

- `ScoresExplained`: a right answer is scored 0 for one of the reasons in `MayBeLost` only.
- `FailuresExplained`: which batches end the run. The call of the manager raised, for training the second one too
  (`_validate` calls it once), and for one of two reasons; or the lengths of the extra columns do not fit.
- `EveryBatchScored`: scoring ends, unless as many programs as there are processes may be in grading when the pool is
  given up (`MayHang`).

## 3. Runs

| run | instance | distinct states | shows |
|---|---|---|---|
| `ckpt_auto` | 2 ranks, actor and critic, 5 steps, save every 2, 3 epochs of 2, keep 2, 3 starts, killed anywhere but inside the tracker's write | 12 749 | the committed checkpoint is sound, less than `save_freq` steps are lost, refinement, termination |
| `ckpt_modes` | auto, disable and resume_path; keep 1 (the default), save every step, 2 epochs of 2 for 5 steps; any folder named, killed anywhere | 260 234 | a restart may fail, but trains from a mixture only where it goes on from a save that was cut off, or from what such a job saved; one run keeps to its limit |
| `chat_two_batches` | batches of 1 and 2 conversations, 2 servers, cache 2, max_turns 5, up to 2 tools per message | 497 228 | requests known, batches balanced, the turn limit, refinement |
| `chat_tiny_cache` | the same, cache 1, context 4 instead of a turn limit | 267 331 | which batches end and which hang; tools are awaited |
| `rollout_turns` | 2 requests, 2 calls of 3 modes, prompts 1 and 7, model length 8, 2 turns | 38 142 | all properties |
| `rollout_leak` | the same | violation | validation's decoding leaks into training |
| `seqlen_splits` | up to 6 rows of lengths 1, 2, 5; 1 to 3 ranks; limits 5 and 6 | 113 321 | all properties |
| `oapl_step` | eight configurations (below) | 35 480 | all properties, failing configurations included |
| `tool_limiter` | a search and a sandbox tool with limits 1 and 2, an unlimited search tool, 4 calls, 2 attempts, 2 deaths | 149 214 | all properties |
| `rollout_servers` | 3 engines, up to 2 nodes of up to 2 ranks, groups of 1 and 2, 2 training steps, 2 failing binds | 213 700 | all properties |
| `megatron_weights` | 23 layouts of 2 to 4 ranks (below) | 90 158 | all properties |
| `reward_scoring` | 1 to 3 rows of 7 kinds, 3 managers, 3 callers, 1 or 2 processes, 2 deadlines: 8 778 batches | 358 792 | all properties |

Deadlock is not checked: in every model the system may stop (a finished job, the last batch, the end of the
algorithm or of the step). Where stopping early would be wrong a liveness property says so.

**Bounds.** `MaxRuns` bounds the starts of a job (three are needed for save, crash in a later save, resume), steps
go past `total_training_steps` by at most one per start. `NumBatches`, `MaxCalls` and `MaxContext` bound the chat
runs: a second batch meets the first one's heap and cache, two calls are the fewest of which one can fail while
the other runs, the context limit (the servers') ends a conversation without `max_turns`. `NumCalls`, two calls of
SGLang, lets what one call leaves behind reach another; lengths are chosen around the model's limit so that every
comparison goes both ways. Six rows on up to three ranks give the differencing four levels of merges and uneven
blocks. The configurations of `OAPLStep` are (1) two ranks, tensor parallel, three responses per prompt,
padded validation, dynamic micro-batches of three rows; (2) two groups of two ranks, two epochs; (3) fixed
micro-batches, several mini-batches, two responses, synchronous reward; (4) a last mini-batch that is not full;
(5) offline data, one sequence parallel group; (6-8) those that fail. Two deaths of pools let the limiter of a live
pool die and a second one take its name; two threads on a limit of one make calls wait. Two failing binds hit two servers, or
one server twice; two training steps let the second generation see the first update, and a generator drawn from
twice. The layouts of `MegatronWeights` have every kind of group (tensor, data, context, pipeline) with two ranks,
two query groups on a rank, one, two and three virtual stages, a chunk with the embedding alone, pipelines of three stages with a short first, a short last or both, an embedding
and a loss that count as layers. Three rows on one or two processes make rows wait in the pool's queue past
the deadline; programs end before, at and after their limit. Symmetry is used in the runs of
`SGLangRollout` only (the requests are interchangeable there and no temporal property is checked).

**Fairness.** `TrainerCheckpoint`: weak fairness of the driver, of every rank, and of a restart while the job is
down (an operator or a scheduler restarts a dead job), and the last allowed run is not killed: without an end
to the kills no job finishes. `ChatScheduler`: weak fairness of every conversation's coroutine, every tool and
of the return: an event loop runs what is ready, a request ends with an answer or an exception (there is
no timeout, see the hazards), a tool returns or raises. `OAPLStep`: weak fairness of the driver, the workers and
the reward task: the driver blocks on nothing but `ray.get`, a rank runs what it was called with, a collective
completes once everybody is in it; `MegatronWeights`, weak fairness of `Next`, for the same reason. `ToolExecution`:
weak fairness of each pool's start, of the acquiring thread, and of each call's threads and release: every request to a service
has a timeout and the retries are counted; no pool need die. `RolloutServers`: weak fairness of everything but
a port's being taken. `RewardScoring`: weak fairness of `Next`: processes run, clocks advance.
`SGLangRollout` and `SeqlenBalancing` state safety only and have none.

## 4. Proofs

Each theorem holds for all values of the constants that satisfy the module's named assumptions, which say no
more than the code does: sets are non-empty, sizes are natural numbers, and `VerifiedConfig` what
`_verify_config` and Megatron assert (`LayoutsAssumption`). Further assumptions are hypotheses of the theorem.

| theorem | statement |
|---|---|
| `TrainerCheckpoint_proofs!TypeCorrect` | `[](TypeOK /\ Bounded)` |
| `...!Resumable` | `AutoOnly` and `KeepsTwo` imply `[]TrackerSound` |
| `...!Coherent`, `BoundedLoss` | `AutoOnly`, with any limits, implies `[]CoherentResume` and `[]LossBounded` |
| `...!CoherentInModes` | `[]CoherentUnlessDoubtful`, in any mix of modes, without a hypothesis |
| `...!Retained` | `[]RetainedByRun`, in any mode |
| `...!Refinement` | `AutoOnly` and `NeverKilledInTracker` imply `ImplementsDurableTraining` |
| `ChatScheduler_proofs!TypeCorrect`, `Sticky`, `Balanced`, `Awaited`, `Limited` | `TypeOK`, `StickyServer`, `BatchBalanced`, `ToolsAwaited`, `TurnLimit` |
| `...!Refinement` | `ImplementsBatchRollout`, with any cache |
| `...!NeverForgotten` | `BatchFits` implies `[]RequestKnown` |
| `SGLangRollout_proofs!TypeCorrect`, `Fitting`, `SampledRight`, `TrainingRight`, `RestoringAlone`, `ReasonsKnown`, `TurnsAlternate` | its seven invariants |
| `...!ToolTypeCorrect`, `Conservation`, `FirstLimit` (of `ToolExecution`) | `ToolTypeOK`, `TokensConserved`, `FirstLimitRules` |
| `SeqlenBalancing_proofs!TypeCorrect`, `NoRowLost`, `Balance`, `NeverRaises`, `WithinLimit` | `TypeOK`, `EachRowOnce`, `Balanced`, `AssertionsHold`, `OneRowOver` |
| `OAPLStep_proofs!RowsStayAligned`, `GroupsWorkAlike`, `RaisesExplained` | `RowsAligned`, `GroupsAgree`, `OnlyTheseRaise` |
| `...!RowsTrainedOnce`, `StepsAreMeans` | `TrainedOnce`, `MiniBatchMeans` |
| `RolloutServers_proofs!TypeCorrect`, `Current`, `Shared`, `Randomness` | `TypeOK`, `GeneratesCurrent`, `DevicesShared`, `RandomnessKept` |
| `RewardScoring_proofs!TypeCorrect`, `Failures`, `ScoresRight` | `TypeOK`, `FailuresExplained`, `ScoresExplained` |
| `MegatronWeights_proofs!LoadingRight`, `EnginesWhole`, `MergingWhole` | `LoadedInPlace`, `EngineGetsModel`, `MergedIsModel` |

**Checkpoints.** `TrackerSound` alone is not inductive: a save deletes and truncates, and only what the ranks are in
the middle of says that it does so elsewhere. The invariant adds `Quiet` (outside a save no file is being written),
`Resuming` (what loading has put on the ranks so far comes from the tracker's step), `Saving` (the step being saved is
newer than the tracker's and what is already complete of it is of this run), and `Remembered` (the paths that rotation
knows of are older than the step being saved, and with a limit of two or more the last one, which the tracker may name,
is not in the part it deletes). Without `KeepsTwo` the same holds of what can be read: a checkpoint that a rotation has
begun to delete fails to load and is never resumed from. `LossBounded` needs `SinceMultiple` (no more steps are uncommitted
than there are since the last multiple of `save_freq`). Refinement maps `running`, `done` and `committed`; only `WriteTracker` commits.
In mixed modes two runs may save the same step, a kill in between leaves files of both, and any folder may be named to resume
from. `ModesInv` is the invariant there: a folder that is not doubtful holds shards of one run with their dataloader, or
none (`Whole`), whatever is in any folder is of its own step (`Folders`), and the ranks of a job that does not stray hold what came from
such a folder, also half-way through loading (`Continuing`). `Retention` bounds the
run's own folders by rank 0's list, in all modes.

**Chat.** `LifeInv` ties `task`, `depth`, `done` and the last message together and carries the refinement. For
`NeverForgotten` the cache is kept in LRU order: `OldFirst` (entries of earlier batches come before those of the current
one) and `CurrentKept` (conversations in flight have an entry). If a batch fits the cache, an insertion that evicts finds
the front entry to be an old one, by the pigeonhole principle. `Balanced` is the round-robin argument: the loads differ by
at most one and, within a batch, the servers assigned to are the first in the heap's order (`RoundRobin`, `NotYet`, `Even`).
`ToolsAwaited` is inductive given `LifeInv`.

**SGLang.** `Blocks` says what an open block has saved, `Given` what the engine was asked, `Training` that as long
as only training calls were made nothing saved or set carries another decoding, `Alone` that without overlap exactly
one block is open and its saved values are the configuration's. `Turning` is the grammar of `ids` in each state.

**Balancing.** The invariant holds of every State in the heap: sums decrease (`Decreasing`), a Set without rows has sum
0, sizes are equal or each State is a single row or full, and `Narrow`, the bound on the spread, which a merge preserves
because the heaviest Set meets the lightest. No partition is empty: with at least k rows a pigeonhole argument on the last State.
`OneRowOver` needs the sums themselves (`TokenInv`: they are those of the rows, and together the batch's, which the number of
partitions was computed from): the lightest Set is at most the mean, and the spread at most one row.

**The step.** Four columns in the right row are the end of a long chain of chunks, gathers, permutations and concatenations, so
that the invariant gives what every rank holds in closed form (`DataAt`): `Mine`, the part of the batch it was sent, `Ours`, its
group's, and `Final`, its part of the result. A part is a run of consecutive rows, and each operation of `DataProto` turns parts
into parts. `LogAt` says of the micro-batches that those run and those left are a permutation of the rank's rows (`Permuted`),
or with a fixed size a prefix and the rest (`Taken`), so that taking the results at `revert_indices` restores the order;
`BatchInv` and `ScoredInv` are about the driver's rows, where balancing permutes whole rows and the reward was computed from the
same order. `GroupInv` is inductive on top: mini-batches and micro-batches are equal in a group, and with a fixed size nothing of a
mini-batch has run while a rank has yet to split it. `OnlyTheseRaise` compares the lengths of `BatchInv` with what `ConfigAssumption` has
`_validate_config` assert.

For the update, `TrainInv` says that the mini-batches a rank has left are those of all epochs (`Updates`) without as many as there
have been steps, and that its gradient is the bag of the rows it has run of the mini-batch at hand, and that
in a full mini-batch each counts for one in `MiniRows`, for micro-batches of fixed and of dynamic size alike (`Summed`). When a mini-batch is through, the gradient has each of its rows
once (`Whole`), which is what `StepsInv` keeps of every step. `TrainedOnce` follows because an epoch cuts a group's rows into pieces that
have each once, and because responses are `Distinct`.

**Tools.** `TokensConserved` needs to know who holds a token: `Links` (a limiter is one that its pool created for itself,
and a living one has the name), `CallsSound` (a call acquires or runs in a live pool only, a release belongs to a call that has ended) and
`Queue` (a limiter's queue has each call once, and each either waits there or has ended). `FirstLimitRules` follows: all live
limited pools share the one living limiter, and the calls running under it are among those its tokens are out for.

**Servers.** The calls of `fit` come in a fixed order for any number of steps (lemmas on `Fit`), so that its position says
what came before: `Before` (nothing has moved before `fit` begins), `Placed` (where parameters and optimizer are at each stage of each
call), `Engines` (whether they are awake, and what `is_sleep` says) and `Versions` (what the engines hold at which position).
`Streams` does the same for the generators: which one is in place, and what the two saved ones are.

**Scoring.** `RaisedInv` (an exception reaches the manager in its own process only, for one of two reasons) and `InfoInv`
give `FailuresExplained`; `ResultInv` and `LostInv` carry each row's verdict from its result to the batch. Under PRIME a row may
be lost because its deadline passed while it was queued, and `MayBeLost` says that the rows before it, shared among the
processes, leave less than its own time (`Late`; nothing is claimed of the times once the pool has lost a process, `PoolInv`). That is the argument about list scheduling: rows are taken up in order (`InOrder`), while one
is queued no process is idle (`NoneIdle`: processes times clock is at most the time that the rows before it have been scored for in
all), so that a row begins no later than their mean (`BegunInTime`) and is over when its own time is (`InTime`). A row that the
deadline takes has therefore begun by then and not ended, or is still queued, and in either case the rows before it are long
enough. What has been scored in all is a sum over rows (`SumTo`), and a tick adds as much to it as there are busy processes.

**Megatron.** The three theorems share one description of a tensor's parts: `ShardOf(part, l, t)`, what tensor rank t has of a part of
layer l, as slices of the HF model's tensors. The loader's chunks are these (`LoadedIs`), Megatron's layout is (`RightIs`), and engines and saver
put all of them together to the whole (`JoinedIs`, `CollectedIs`): heads are split into query groups and those into queries,
keys and values, so that each unit's position is a number in mixed radix, and a concatenation of equal pieces is known at each
position (`EqualFlatten`). `LoadInv` says that what a rank of the first replica has been through the collective of, or a replica has been
copied, is in place, given that each parameter is the `Home` of one item; `MergeInv` and `SyncInv` give what is kept or sent as
the union over the items so far. Together with `AllRight`, which loading leaves behind, that is what each collective hands on.
For `EngineGetsModel` the chunks, in the order Megatron runs them, follow one another without gap from layer 0 to the last
(`LayersCovered`, from where each starts: `LayerStarts`), and `LayerOffset` is that start in every layout that is not
`Misnamed` (`OffsetRight`); in one that is, some chunk with layers gets another's (`OffsetWrong`), and a norm of it a
name under which the engine should have another (`SentWrong`).

**Inductions over data.** The library's induction theorems take an operator, which the provers cannot instantiate. Where a fold, a
flattening or a recursive sum has to be known for every length (`SeqlenBalancing`, `OAPLStep`, `RewardScoring`, `MegatronWeights`), the set of counterexamples is
non-empty if there is one, its least member is had from well-foundedness (lemma `Least`), and the definition unfolded once refutes it.

**Model-checked only**: everything temporal under fairness (`EventuallyFinishes`, `EndsUnlessForgotten`, `StepEnds`,
`EveryCallReturns`, `JobsEnd`, `CallsReturn`, `EveryBatchScored`: liveness is out of the prover's reach); `TrackerSound` under
the default limit of one, where it is false.
Every invariant that a passing run checks is stated by a theorem, with the hypotheses of the table.

## 5. What disagrees with the code's own words

With a run (see `findings` in `PROJECT.json`). `rollout_leak` is a violation; in the others a passing property has the exact
cases as exceptions and says that they do happen, or allows nothing else.

1. `chat_tiny_cache`: the LRU of request ids evicts requests in flight; `generate_sequences` then waits for ever.
2. `rollout_leak`: `update_sampling_params` says the original values come back; two overlapping calls can prevent it.
3. `rollout_servers`: vLLM's servers start awake with the base model, so that the first generation after a resume is not
   the resumed model's, and its ranks sample with different generators; a server that dies after it told its address fails
   the job; SGLang's servers read the sizes at the wrong level of the configuration and with several nodes or a
   group of several ranks wait for ever.
4. `megatron_weights`: layers get wrong names with virtual stages and a short last stage alone, or with an embedding that counts as a
   layer (`EnginesWhole`: there, always, and nowhere else); the test that is to skip a tied output layer never applies, so that it is sent where several stages have one.
5. `reward_scoring`: PRIME's batches are scored twice in training (`trainer/ppo/reward.py:123`); one row of math_dapo zeroes PRIME's
   whole batch (`workers/reward_manager/prime.py:85`); batches that mix dict scores with others fail
   (`trainer/ppo/ray_trainer.py:675`); dapo without its default-`None` overlong config always fails (`dapo.py:107`); PRIME's
   deadline does not end the call when every process of the pool is killed in the middle of a program's grading (`prime.py:50`).

Without a run of their own, seen while modelling:

- The tracker is written "for atomic usage" (`trainer/ppo/ray_trainer.py:813`) but in place: killed in between, an empty tracker blocks
  every restart. Resuming from an older path of the same directory overwrites the checkpoint that `auto` would load.
- `resume_path` takes any folder (`trainer/ppo/ray_trainer.py:838`): one whose save was cut off may mix the shards of two runs, and without
  its `data.pt` the dataloader starts from the first batch with a warning only (867). `CoherentUnlessDoubtful` has these cases.
- The default limit of one checkpoint (`trainer/config/oapl_trainer.yaml:868`) deletes the old one before the new one exists
  (`utils/checkpoint/fsdp_checkpoint_manager.py:172`): a kill in between leaves nothing to resume from.
- `previous_saved_paths` is lost on a restart, so "at most max_ckpt_to_keep" (line 157) holds per run only.
- Restarting a finished job trains and saves one step past `total_training_steps` (`trainer/oapl/ray_trainer.py:327, 350`).
- `chat_scheduler.py:332` leaves a failed completion to the user, but the assertion at line 238 fails the whole batch then.
- `rearrange_micro_batches` promises a maximum per micro-batch (`utils/seqlen_balancing.py:237`), which is exceeded by less than
  a row (`OneRowOver`); `min_num_micro_batch` "pads empty ones" (line 241), but the number is asserted not to exceed the rows (265).
- `vllm_rollout_spmd.py:311` reads `sampling_params.n` after the block restored it: sampled validation with `rollout.n > 1`
  fails (the comment at 275 says the driver repeats already). `OnlyTheseRaise` has this case.
- `_validate_config` (`trainer/ppo/ray_trainer.py:361`) checks `train_batch_size * n`, but `train_batch_size` rows are dispatched.
- Offline data with `n > 1` is repeated and then joined with unrepeated responses, which asserts (`protocol.py:106`).
- OAPL's `fit` resets `reward_extra_infos_dict` before it uses it (`trainer/oapl/ray_trainer.py:485`): synchronous extras are lost;
  the reference log probability is required by the actor even where no reference policy is configured.
- With `enable_global_rate_limit` off the sandbox tool takes an attribute of `None` and every call fails
  (`tools/sandbox_fusion_tools.py:77`); `TakeUp` has this case. The limiter is found by one name whatever tool asks, so that the second
  tool's `rate_limit` means nothing, and it dies with the pool that created it; a pool that dies takes its tokens along.
- PRIME terminates its pool's processes, "all summoned" (`workers/reward_manager/prime.py:51`), but not the processes those started for programs, which live on as orphans.
- Every rank of the Megatron checkpoint manager rotates without a barrier (`utils/checkpoint/megatron_checkpoint_manager.py:249`).

## 6. Not modelled

Left out inside modelled components:

- Checkpoints: a `resume_from_path` outside the job's own directory, HDFS paths (resume raises `NotImplementedError`), HF-model and LoRA exports.
- Rollouts: tokenising and masks, SGLang's batch-level rollout and its chat endpoint, multi-modal inputs, the per-trajectory dictionaries of tools.
- The step: `min_num_micro_batch` and `num_batches_divided_by` (Megatron), critic warm-up, metrics, losses, the skipped
  optimizer step on a gradient that is not finite (`dp_actor.py:268`), automatic padding of dispatch, which the loop does not use.
- Devices: how a model is built and wrapped, the layout of tensors, LoRA adapters, where Megatron's parameters and optimizer are.
- Megatron: the workers' computation (its schedules are Megatron's own), its checkpoint manager, experts, attention biases
  and q/k norms, value heads, key-value heads fewer than the tensor parallel size (Megatron refuses them).
- Rewards: tests and answers one by one, the penalty for length, the batch manager (a user's function), reward models.

Left out altogether:

- Losses, advantages and KL controllers, model definitions and kernels: real-valued tensors, which neither TLC nor the provers treat.
- Worker groups, resource pools, register center: start-up code around Ray's placement groups; what their calls do to the
  ranks is in `OAPLStep`.
- The PPO loop, critic and reward models: what it shares with OAPL's is modelled from its source; the rest is losses.
- SFT trainer, generation, evaluation and data scripts, datasets: sequential, one input and one output.
- File systems, tracking, logging, profiling: I/O and observation.
