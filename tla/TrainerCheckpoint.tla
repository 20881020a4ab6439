--------------------------- MODULE TrainerCheckpoint ---------------------------
(***************************************************************************)
(* Checkpointing, rotation, crash and resume of the PPO/OAPL trainer.      *)
(*                                                                         *)
(* The driver runs RayPPOTrainer.fit (verl/trainer/ppo/ray_trainer.py;     *)
(* verl/trainer/oapl/ray_trainer.py shares its _save_checkpoint and        *)
(* _load_checkpoint).  Saving and loading are blocking ONE_TO_ALL calls on *)
(* the ranks of the actor's worker group and then of the critic's, each    *)
(* rank running FSDPCheckpointManager.                                     *)
(*                                                                         *)
(* Abstractions.  A rank's model, optim and extra_state files are one      *)
(* shard; the config, tokenizer, HF-model and LoRA files, which            *)
(* load_checkpoint never reads, are left out.  Writing a file truncates it *)
(* first, so a file being written is Torn, and reading it back raises.     *)
(* rmtree is one step: a directory deleted halfway fails to load exactly   *)
(* as one deleted completely.  global_step_N itself is never removed (only *)
(* its actor and critic folders are), so the existence test of             *)
(* find_latest_ckpt_path cannot fail once the tracker names N.  A rank     *)
(* that dies makes the driver's ray.get raise: Crash is the whole job's.   *)
(***************************************************************************)
EXTENDS Naturals, Sequences, FiniteSets

CONSTANTS
    Ranks,          \* the ranks of a worker group
    Rank0,          \* the one that rotates old checkpoints
    UseCritic,      \* use_critic
    TotalSteps,     \* total_training_steps
    SaveFreq,       \* save_freq, 0 for any non-positive value
    EpochLen,       \* len(train_dataloader)
    TotalEpochs,    \* total_epochs
    MaxActorKeep,   \* max_actor_ckpt_to_keep, 0 for null or non-positive
    MaxCriticKeep,  \* max_critic_ckpt_to_keep, likewise
    Modes,          \* the resume_mode values the operator starts the job with
    CrashAt,        \* the phases in which the job may be killed
    MaxRuns,        \* bound: how often the job is started
    Absent,         \* a file that does not exist
    Torn            \* a file that has been truncated and not yet rewritten

Roles == IF UseCritic THEN {"actor", "critic"} ELSE {"actor"}

\* Every restart after the last step trains one step more (see IsLastStep).
MaxStep == TotalSteps + MaxRuns
Steps   == 1 .. MaxStep

\* Weights, by the run of the job that computed them and the step they reached.
Versions == [run : 0 .. MaxRuns, step : 0 .. MaxStep]

\* The state of the StatefulDataLoader: batches drawn so far (with the sampler's
\* generator it identifies the next batch), and those left in the current epoch.
Loaders == [drawn : Nat, left : 0 .. EpochLen]

LoadPhases == {"load_actor", "load_critic"}
SavePhases == {"save_actor", "save_critic"}
UpPhases   == LoadPhases \union SavePhases \union
              {"load_data", "ready", "train", "save_data", "write_data",
               "open_tracker", "write_tracker", "step_done"}
EndPhases  == {"down", "finished", "exhausted"}

RankPhases == {"idle", "loaded", "prepared", "writing", "written"}

ASSUME RankAssumption  == Rank0 \in Ranks
ASSUME CountAssumption ==
    /\ TotalSteps \in Nat \ {0}
    /\ EpochLen \in Nat \ {0}
    /\ TotalEpochs \in Nat
    /\ SaveFreq \in Nat
    /\ MaxActorKeep \in Nat
    /\ MaxCriticKeep \in Nat
    /\ MaxRuns \in Nat
ASSUME FlagAssumption ==
    /\ UseCritic \in BOOLEAN
    /\ Modes \subseteq {"auto", "disable", "resume_path"}
    /\ CrashAt \subseteq UpPhases
ASSUME FileAssumption ==
    /\ Absent # Torn
    /\ {Absent, Torn} \intersect Versions = {}
    /\ {Absent, Torn} \intersect Loaders = {}
    /\ {Absent, Torn} \intersect Steps = {}

VARIABLES
    (* the checkpoint directory, which survives *)
    shard,        \* shard[role][s][r]: rank r's files in global_step_s/role
    data,         \* data[s]: global_step_s/data.pt
    tracker,      \* latest_checkpointed_iteration.txt
    doubtful,     \* the steps whose folder was begun and not finished, or was saved
                  \* by a job that strays (a history variable)
    (* the job, which does not *)
    run,          \* how many times it has been started (a history variable)
    strays,       \* it went on from a doubtful folder (a history variable)
    phase,        \* where the driver is
    globalSteps,  \* global_steps
    epoch,        \* the epoch loop's counter
    loader,       \* train_dataloader's state
    weights,      \* weights[role][r]: the parameters rank r holds
    saved,        \* saved[role]: previous_saved_paths of rank 0 (other ranks
                  \* only append to theirs and never read it)
    rank          \* rank[r]: where rank r is in the current call

disk  == <<shard, data, tracker, doubtful>>
job   == <<globalSteps, epoch, loader, weights, saved, rank>>
vars  == <<disk, run, strays, phase, job>>

--------------------------------------------------------------------------------
(* State of a new process *)

Pretrained == [ro \in Roles |-> [r \in Ranks |-> [run |-> 0, step |-> 0]]]
NewLoader  == [drawn |-> 0, left |-> EpochLen]
AllIdle    == [r \in Ranks |-> "idle"]

Init ==
    /\ shard = [ro \in Roles |-> [s \in Steps |-> [r \in Ranks |-> Absent]]]
    /\ data = [s \in Steps |-> Absent]
    /\ tracker = Absent
    /\ doubtful = {}
    /\ run = 0
    /\ strays = FALSE
    /\ phase = "down"
    /\ globalSteps = 0
    /\ epoch = 0
    /\ loader = NewLoader
    /\ weights = Pretrained
    /\ saved = [ro \in Roles |-> <<>>]
    /\ rank = AllIdle

\* The process exits, in whatever way: all it keeps in memory is gone.
ProcessEnds(as) ==
    /\ phase' = as
    /\ globalSteps' = 0
    /\ epoch' = 0
    /\ loader' = NewLoader
    /\ weights' = Pretrained
    /\ saved' = [ro \in Roles |-> <<>>]
    /\ rank' = AllIdle
    /\ UNCHANGED <<disk, run, strays>>

--------------------------------------------------------------------------------
(* Starting: the head of _load_checkpoint *)

NewRun ==
    /\ phase \in EndPhases
    /\ run < MaxRuns
    /\ run' = run + 1

StartFromScratch ==
    /\ NewRun
    /\ \/ "disable" \in Modes
       \/ "auto" \in Modes /\ tracker = Absent
    /\ phase' = "ready"
    /\ strays' = FALSE
    /\ UNCHANGED <<disk, job>>

ResumeFrom(s) ==
    /\ NewRun
    /\ phase' = "load_actor"
    /\ globalSteps' = s
    /\ strays' = (s \in doubtful)
    /\ UNCHANGED <<disk, epoch, loader, weights, saved, rank>>

StartFromTracker ==
    /\ "auto" \in Modes
    /\ tracker \in Steps
    /\ ResumeFrom(tracker)

\* The tracker is read, and must be readable, even when a path is given.  Of the path
\* only its form is checked: whatever the folder holds is loaded.
StartFromPath ==
    /\ "resume_path" \in Modes
    /\ tracker # Torn
    /\ \E s \in Steps : ResumeFrom(s)

\* int('') in find_latest_ckpt_path raises.
StartFails ==
    /\ NewRun
    /\ Modes # {"disable"}
    /\ tracker = Torn
    /\ phase' = "down"
    /\ strays' = FALSE
    /\ UNCHANGED <<disk, job>>

Start == StartFromScratch \/ StartFromTracker \/ StartFromPath \/ StartFails

--------------------------------------------------------------------------------
(* Loading: the tail of _load_checkpoint *)

\* The worker group whose call is in progress.
Role == IF phase \in {"load_critic", "save_critic"} THEN "critic" ELSE "actor"

LoadShard(r) ==
    /\ phase \in LoadPhases
    /\ rank[r] = "idle"
    /\ shard[Role][globalSteps][r] \in Versions
    /\ weights' = [weights EXCEPT ![Role][r] = shard[Role][globalSteps][r]]
    /\ rank' = [rank EXCEPT ![r] = "loaded"]
    /\ UNCHANGED <<disk, run, strays, phase, globalSteps, epoch, loader, saved>>

\* torch.load raises on a missing or truncated file, in any rank.
LoadFails ==
    /\ \/ /\ phase \in LoadPhases
          /\ \E r \in Ranks : /\ rank[r] = "idle"
                              /\ shard[Role][globalSteps][r] \notin Versions
       \/ /\ phase = "load_data"
          /\ data[globalSteps] = Torn
    /\ ProcessEnds("down")

\* Mutant: the critic's folder is not read.
LoadDone_ActorOnly ==
    /\ phase \in LoadPhases
    /\ \A r \in Ranks : rank[r] = "loaded"
    /\ rank' = AllIdle
    /\ phase' = "load_data"
    /\ UNCHANGED <<disk, run, strays, globalSteps, epoch, loader, weights, saved>>

\* The barrier at the end of load_checkpoint.
LoadDone ==
    /\ phase \in LoadPhases
    /\ \A r \in Ranks : rank[r] = "loaded"
    /\ rank' = AllIdle
    /\ phase' = IF Role = "actor" /\ UseCritic THEN "load_critic" ELSE "load_data"
    /\ UNCHANGED <<disk, run, strays, globalSteps, epoch, loader, weights, saved>>

\* Mutant: the dataloader's state is not loaded.
LoadLoader_FromScratch ==
    /\ phase = "load_data"
    /\ data[globalSteps] # Torn
    /\ phase' = "ready"
    /\ UNCHANGED <<disk, run, strays, globalSteps, epoch, loader, weights, saved, rank>>

\* A missing data.pt is only warned about.
LoadLoader ==
    /\ phase = "load_data"
    /\ data[globalSteps] # Torn
    /\ loader' = IF data[globalSteps] = Absent THEN loader ELSE data[globalSteps]
    /\ phase' = "ready"
    /\ UNCHANGED <<disk, run, strays, globalSteps, epoch, weights, saved, rank>>

--------------------------------------------------------------------------------
(* The training loop of fit *)

BeginTraining ==
    /\ phase = "ready"
    /\ phase' = "train"
    /\ globalSteps' = globalSteps + 1
    /\ UNCHANGED <<disk, run, strays, epoch, loader, weights, saved, rank>>

IsLastStep == globalSteps >= TotalSteps

\* Mutant: save_freq is ignored.
SavesNow_OnlyAtTheEnd == SaveFreq > 0 /\ IsLastStep

SavesNow == SaveFreq > 0 /\ (IsLastStep \/ globalSteps % SaveFreq = 0)

TrainStep ==
    /\ phase = "train"
    /\ loader.left > 0
    /\ loader' = [drawn |-> loader.drawn + 1, left |-> loader.left - 1]
    /\ weights' = [ro \in Roles |-> [r \in Ranks |-> [run |-> run, step |-> globalSteps]]]
    /\ phase' = IF SavesNow THEN "save_actor" ELSE "step_done"
    /\ UNCHANGED <<disk, run, strays, globalSteps, epoch, saved, rank>>

\* Mutant: the next epoch goes on with the exhausted iterator.
NextEpoch_SameIterator ==
    /\ phase = "train"
    /\ loader.left = 0
    /\ epoch + 1 < TotalEpochs
    /\ epoch' = epoch + 1
    /\ UNCHANGED <<disk, run, strays, phase, globalSteps, loader, weights, saved, rank>>

NextEpoch ==
    /\ phase = "train"
    /\ loader.left = 0
    /\ epoch + 1 < TotalEpochs
    /\ epoch' = epoch + 1
    /\ loader' = [drawn |-> loader.drawn, left |-> EpochLen]
    /\ UNCHANGED <<disk, run, strays, phase, globalSteps, weights, saved, rank>>

\* The loop runs out of epochs before total_training_steps: fit just returns.
EpochsExhausted ==
    /\ phase = "train"
    /\ loader.left = 0
    /\ epoch + 1 >= TotalEpochs
    /\ ProcessEnds("exhausted")

NextStep ==
    /\ phase = "step_done"
    /\ ~IsLastStep
    /\ phase' = "train"
    /\ globalSteps' = globalSteps + 1
    /\ UNCHANGED <<disk, run, strays, epoch, loader, weights, saved, rank>>

Finish ==
    /\ phase = "step_done"
    /\ IsLastStep
    /\ ProcessEnds("finished")

--------------------------------------------------------------------------------
(* Saving: _save_checkpoint, and FSDPCheckpointManager.save_checkpoint on each rank *)

MaxKeep(ro) == IF ro = "actor" THEN MaxActorKeep ELSE MaxCriticKeep

\* Mutants: off by one, either way.
KeepStart_OneTooMany(ro) ==
    IF MaxKeep(ro) > 0 /\ Len(saved[ro]) >= MaxKeep(ro)
    THEN Len(saved[ro]) - MaxKeep(ro) + 2
    ELSE 0

KeepStart_OneTooFew(ro) ==
    IF MaxKeep(ro) > 0 /\ Len(saved[ro]) > MaxKeep(ro)
    THEN Len(saved[ro]) - MaxKeep(ro)
    ELSE 0

\* How many of the oldest directories of this run rank 0 removes.
KeepStart(ro) ==
    IF MaxKeep(ro) > 0 /\ Len(saved[ro]) >= MaxKeep(ro)
    THEN Len(saved[ro]) - MaxKeep(ro) + 1
    ELSE 0

Removed(ro) == {saved[ro][i] : i \in 1 .. KeepStart(ro)}

\* Rank 0 removes old directories BEFORE anything of the new one is written.
Rotate ==
    /\ phase \in SavePhases
    /\ rank[Rank0] = "idle"
    /\ shard' = [shard EXCEPT ![Role] = [s \in Steps |->
                    IF s \in Removed(Role) THEN [r \in Ranks |-> Absent] ELSE shard[Role][s]]]
    /\ saved' = [saved EXCEPT ![Role] = SubSeq(@, KeepStart(Role) + 1, Len(@))]
    /\ rank' = [rank EXCEPT ![Rank0] = "prepared"]
    /\ UNCHANGED <<data, tracker, doubtful, run, strays, phase, globalSteps, epoch, loader, weights>>

Prepare(r) ==
    /\ phase \in SavePhases
    /\ r # Rank0
    /\ rank[r] = "idle"
    /\ rank' = [rank EXCEPT ![r] = "prepared"]
    /\ UNCHANGED <<disk, run, strays, phase, globalSteps, epoch, loader, weights, saved>>

\* Past the first barrier.
BeginWrite(r) ==
    /\ phase \in SavePhases
    /\ rank[r] = "prepared"
    /\ \A q \in Ranks : rank[q] # "idle"
    /\ shard' = [shard EXCEPT ![Role][globalSteps][r] = Torn]
    /\ rank' = [rank EXCEPT ![r] = "writing"]
    /\ doubtful' = doubtful \union {globalSteps}
    /\ UNCHANGED <<data, tracker, run, strays, phase, globalSteps, epoch, loader, weights, saved>>

EndWrite(r) ==
    /\ phase \in SavePhases
    /\ rank[r] = "writing"
    /\ shard' = [shard EXCEPT ![Role][globalSteps][r] = weights[Role][r]]
    /\ rank' = [rank EXCEPT ![r] = "written"]
    /\ UNCHANGED <<data, tracker, doubtful, run, strays, phase, globalSteps, epoch, loader, weights, saved>>

\* Past the second barrier: the path is recorded and the call returns.
SaveDone ==
    /\ phase \in SavePhases
    /\ \A r \in Ranks : rank[r] = "written"
    /\ saved' = [saved EXCEPT ![Role] = Append(@, globalSteps)]
    /\ rank' = AllIdle
    /\ phase' = IF Role = "actor" /\ UseCritic THEN "save_critic" ELSE "save_data"
    /\ UNCHANGED <<disk, run, strays, globalSteps, epoch, loader, weights>>

BeginData ==
    /\ phase = "save_data"
    /\ data' = [data EXCEPT ![globalSteps] = Torn]
    /\ phase' = "write_data"
    /\ UNCHANGED <<shard, tracker, doubtful, run, strays, job>>

EndData ==
    /\ phase = "write_data"
    /\ data' = [data EXCEPT ![globalSteps] = loader]
    /\ phase' = "open_tracker"
    /\ doubtful' = IF strays THEN doubtful ELSE doubtful \ {globalSteps}
    /\ UNCHANGED <<shard, tracker, run, strays, job>>

\* open(..., "w") truncates the tracker ...
OpenTracker ==
    /\ phase = "open_tracker"
    /\ tracker' = Torn
    /\ phase' = "write_tracker"
    /\ UNCHANGED <<shard, data, doubtful, run, strays, job>>

\* Mutant: the number of the step before is written.
WriteTracker_StepBefore ==
    /\ phase = "write_tracker"
    /\ tracker' = globalSteps - 1
    /\ phase' = "step_done"
    /\ UNCHANGED <<shard, data, doubtful, run, strays, job>>

\* ... and the step reaches the file when it is closed.
WriteTracker ==
    /\ phase = "write_tracker"
    /\ tracker' = globalSteps
    /\ phase' = "step_done"
    /\ UNCHANGED <<shard, data, doubtful, run, strays, job>>

--------------------------------------------------------------------------------

\* The job is killed.  The last start the bound allows is not.
Crash ==
    /\ phase \in CrashAt
    /\ run < MaxRuns
    /\ ProcessEnds("down")

RankStep(r) == LoadShard(r) \/ Prepare(r) \/ BeginWrite(r) \/ EndWrite(r)

Driver ==
    \/ LoadFails \/ LoadDone \/ LoadLoader
    \/ BeginTraining \/ TrainStep \/ NextEpoch \/ EpochsExhausted \/ NextStep \/ Finish
    \/ Rotate \/ SaveDone \/ BeginData \/ EndData \/ OpenTracker \/ WriteTracker

Next ==
    \/ Start
    \/ Driver
    \/ \E r \in Ranks : RankStep(r)
    \/ Crash

Spec == Init /\ [][Next]_vars

\* The driver and the ranks run while they can, and a job that went down is
\* started again; one that ended need not be.
FairSpec ==
    /\ Spec
    /\ WF_vars(phase = "down" /\ Start)
    /\ WF_vars(Driver)
    /\ \A r \in Ranks : WF_vars(RankStep(r))

--------------------------------------------------------------------------------
(* Properties *)

FileStates == {Absent, Torn}

\* The type invariant of the directory and of the job.
TypeOK ==
    /\ shard \in [Roles -> [Steps -> [Ranks -> FileStates \union Versions]]]
    /\ data \in [Steps -> FileStates \union Loaders]
    /\ tracker \in FileStates \union Steps
    /\ doubtful \subseteq Steps
    /\ run \in 0 .. MaxRuns
    /\ strays \in BOOLEAN
    /\ phase \in UpPhases \union EndPhases
    /\ globalSteps \in 0 .. MaxStep
    /\ epoch \in Nat
    /\ loader \in Loaders
    /\ weights \in [Roles -> [Ranks -> Versions]]
    /\ saved \in [Roles -> Seq(Steps)]
    /\ rank \in [Ranks -> RankPhases]

\* A checkpoint every file of which has been written completely, by one run.
Sound(s) ==
    /\ \E v \in Versions :
        /\ v.step = s
        /\ \A ro \in Roles, r \in Ranks : shard[ro][s][r] = v
    /\ data[s] \in Loaders
    /\ data[s].drawn = s

\* The step the tracker names can be restarted from: whatever the job was doing
\* when it was killed, every rank's shard in both folders and data.pt are there,
\* complete, and were written by one run (_save_checkpoint's order: folders,
\* data.pt, tracker; rotation removes older folders only).
TrackerSound == tracker \in Steps => Sound(tracker)

\* Training always goes on from one checkpoint: when a step starts, every rank of
\* every worker group holds the weights of the step before, all of one run, and
\* the dataloader has drawn exactly the batches of the steps before.
CoherentResume ==
    phase = "train" =>
        /\ \E v \in Versions :
              /\ v.step = globalSteps - 1
              /\ \A ro \in Roles, r \in Ranks : weights[ro][r] = v
        /\ loader.drawn = globalSteps - 1

\* In any mix of modes, the operator naming any folder: every rank starts a step with
\* weights of the step before, and they are of one run and agree with the dataloader
\* unless the job goes on from a folder whose last save was cut off by a kill, or from
\* one saved by such a job.  (There a restart may mix two runs' shards, or find no
\* data.pt and begin with the first batches again, which _load_checkpoint only warns of.)
CoherentUnlessDoubtful ==
    phase = "train" =>
        /\ \A ro \in Roles, r \in Ranks : weights[ro][r].step = globalSteps - 1
        /\ strays \/ CoherentResume

\* One run leaves at most max_..._ckpt_to_keep directories of its own behind.
RetainedByRun ==
    \A ro \in Roles : MaxKeep(ro) > 0 =>
        Cardinality({s \in Steps : \E r \in Ranks :
            /\ shard[ro][s][r] \in Versions
            /\ shard[ro][s][r].run = run}) <= MaxKeep(ro)

\* The step a restart would continue from.  While the new number is on its way
\* into the truncated tracker, it is the new one.
Committed ==
    IF tracker \in Steps THEN tracker
    ELSE IF phase = "write_tracker" THEN globalSteps
    ELSE 0

Running == phase \in UpPhases \ (LoadPhases \union {"load_data", "ready"})

Done == IF Running THEN weights["actor"][Rank0].step ELSE 0

\* The trainer implements DurableTraining: every run continues from the step that
\* was committed last, and a commit names a step that has been trained, and is
\* later than the one before.
Durable == INSTANCE DurableTraining WITH running <- Running, done <- Done, committed <- Committed
ImplementsDurableTraining == Durable!Spec

\* A kill costs less than save_freq steps of training: whenever a step starts, the
\* steps not yet committed are fewer than that.
LossBounded == (phase = "train" /\ SaveFreq > 0) => globalSteps - 1 - Committed < SaveFreq

\* However often it is killed, the job trains its last step in the end.
EventuallyFinishes == <>(phase = "finished")

================================================================================
