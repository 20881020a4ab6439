---------------------------- MODULE RolloutServers ----------------------------
(***************************************************************************)
(* Training and rollout share the ranks' devices: the start of the         *)
(* asynchronous rollout servers (workers/rollout/async_server.py) and the  *)
(* calls of RayOAPLTrainer.fit that follow, each on all ranks              *)
(* (workers/fsdp_workers.py, workers/sharding_manager/fsdp_vllm.py and     *)
(* fsdp_sglang.py).                                                        *)
(*                                                                         *)
(* A job is a configuration: the engine, how ranks lie on nodes, the size  *)
(* of a tensor-parallel group, whether parameters and optimizer are kept   *)
(* on the host, whether it resumes a checkpoint, whether it validates      *)
(* before training.                                                        *)
(***************************************************************************)
EXTENDS Naturals, Sequences, FiniteSets

CONSTANTS
    Jobs,         \* the configurations
    Steps,        \* bound: training steps of a run
    MaxClashes    \* bound: how often a port is taken before a server binds it

ASSUME ServersAssumption ==
    /\ Steps \in Nat /\ MaxClashes \in Nat
    /\ Jobs \subseteq [engine : {"vllm", "vllm_async", "sglang_async"}, nodes : Nat \ {0}, perNode : Nat \ {0},
                       tp : Nat \ {0}, offload : BOOLEAN, resumed : BOOLEAN, validate : BOOLEAN]
    /\ \A j \in Jobs : (j.nodes * j.perNode) % j.tp = 0

VARIABLES
    job,
    server,      \* each server: "none", "starting", "ready" (it told its address), "serving", "dead"
    asked,       \* the servers of this round whose address the manager still waits for
    addressed,   \* the servers whose address it has
    started,     \* the servers whose engine it has initialised
    clashes,     \* how many binds have failed
    phase,       \* the driver: "servers", "engines", "fit", "done" or "failed"
    at,          \* the call of fit it is in
    stage,       \* how far that call is: "begin", "work" or "end"
    version,     \* optimizer steps in the actor's parameters; 0 is the base model
    weights,     \* the version the engines have
    isSleep,     \* is_sleep of the asynchronous rollouts
    awake,       \* the engines hold their weights on the devices
    params,      \* where the actor's parameters are
    optim,       \* where its optimizer's state is
    rng,         \* each rank's generator of random numbers
    trainRng,    \* torch_random_states of each rank
    genRng       \* gen_random_states of each rank

serverVars == <<server, asked, addressed, started, clashes>>
deviceVars == <<version, weights, isSleep, awake, params, optim, rng, trainRng, genRng>>
vars == <<job, serverVars, phase, at, stage, deviceVars>>

Async   == job.engine # "vllm"
Size    == job.nodes * job.perNode
Ranks   == 0 .. Size - 1
Group(r) == r \div job.tp
Servers == {Group(r) : r \in Ranks}

(* The ranks a server drives.  vLLM's takes its share of the actor names,  *)
(* sorted by node and rank on it.  SGLang's looks for the sizes at the     *)
(* wrong level of the configuration, so that its tp_size is always 1, and  *)
(* takes the number of servers for the ranks of a node.                    *)
Drives(d) ==
    IF job.engine = "sglang_async"
      THEN {r \in Ranks : Cardinality(Servers) * (r \div job.perNode) + (r % job.perNode) = d}
      ELSE {r \in Ranks : Group(r) = d}

(* Random numbers: the stream they come from, whose it is, how many were   *)
(* drawn.                                                                  *)
Stream(of, who) == [of |-> of, who |-> who, n |-> 0]
Draw(s) == [s EXCEPT !.n = @ + 1]

(* What fit calls, in its order.                                           *)
Fit == <<"load">> \o (IF job.validate THEN <<"generate">> ELSE <<>>)
                  \o [i \in 1 .. 4 * Steps |-> <<"save", "generate", "log_prob", "update">>[1 + (i % 4)]]
Call == IF phase = "fit" THEN Fit[at] ELSE "none"

HostIf(b) == IF b THEN "cpu" ELSE "gpu"

(* Mutant: SGLang's rollout starts awake, like vLLM's.                     *)
AsleepAtStart_Never == FALSE

(* The rollouts' is_sleep; SGLang's is set although the engine, built with *)
(* the workers, keeps its memory until it first resumes.                   *)
AsleepAtStart == job.engine = "sglang_async"

TypeOK ==
    /\ job \in Jobs
    /\ server \in [Servers -> {"none", "starting", "ready", "serving", "dead"}]
    /\ asked \subseteq Servers /\ addressed \subseteq Servers /\ started \subseteq Servers
    /\ clashes \in 0 .. MaxClashes
    /\ phase \in {"servers", "engines", "fit", "done", "failed"}
    /\ at \in 1 .. Len(Fit) /\ stage \in {"begin", "work", "end"}
    /\ version \in Nat /\ weights \in Nat
    /\ isSleep \in BOOLEAN /\ awake \in BOOLEAN
    /\ params \in {"cpu", "gpu"} /\ optim \in {"cpu", "gpu"}

Init ==
    /\ job \in Jobs
    /\ server = [d \in Servers |-> "none"] /\ asked = {} /\ addressed = {} /\ started = {}
    /\ clashes = 0
    /\ phase = IF Async THEN "servers" ELSE "fit"
    /\ at = 1 /\ stage = "begin"
    /\ version = 0 /\ weights = 0
    /\ isSleep = AsleepAtStart
    /\ awake = (job.engine = "sglang_async")
    /\ params = HostIf(job.offload) /\ optim = HostIf(job.offload)
    /\ rng = [r \in Ranks |-> Stream("start", r)]
    /\ trainRng = rng
    /\ genRng = [r \in Ranks |-> Stream("gen", Group(r))]
-----------------------------------------------------------------------------
(* The servers *)

(* Mutant: the servers are started once.                                   *)
StartRound_Once ==
    /\ phase = "servers" /\ asked = {} /\ addressed # Servers
    /\ \A d \in Servers : server[d] = "none"
    /\ asked' = Servers
    /\ server' = [d \in Servers |-> "starting"]
    /\ UNCHANGED <<job, addressed, started, clashes, phase, at, stage, deviceVars>>

(* A round of the manager's loop: an actor for every rank without address. *)
StartRound ==
    /\ phase = "servers" /\ asked = {} /\ addressed # Servers
    /\ asked' = Servers \ addressed
    /\ server' = [d \in Servers |-> IF d \in addressed THEN server[d] ELSE "starting"]
    /\ UNCHANGED <<job, addressed, started, clashes, phase, at, stage, deviceVars>>

(* A server is ready when its application starts, before it binds the port *)
(* it found free some time ago.                                            *)
Ready(d) ==
    /\ server[d] = "starting"
    /\ server' = [server EXCEPT ![d] = "ready"]
    /\ UNCHANGED <<job, asked, addressed, started, clashes, phase, at, stage, deviceVars>>

Bind(d) ==
    /\ server[d] = "ready"
    /\ server' = [server EXCEPT ![d] = "serving"]
    /\ UNCHANGED <<job, asked, addressed, started, clashes, phase, at, stage, deviceVars>>

(* The port is taken by now: the process exits.                            *)
PortTaken(d) ==
    /\ server[d] = "ready" /\ clashes < MaxClashes
    /\ server' = [server EXCEPT ![d] = "dead"]
    /\ clashes' = clashes + 1
    /\ UNCHANGED <<job, asked, addressed, started, phase, at, stage, deviceVars>>

(* get_server_address answers, or fails with its actor, which the next     *)
(* round replaces.                                                         *)
TakeAddress(d) ==
    /\ phase = "servers" /\ d \in asked /\ server[d] \in {"ready", "serving", "dead"}
    /\ asked' = asked \ {d}
    /\ addressed' = IF server[d] = "dead" THEN addressed ELSE addressed \cup {d}
    /\ UNCHANGED <<job, server, started, clashes, phase, at, stage, deviceVars>>

AllAddressed ==
    /\ phase = "servers" /\ addressed = Servers
    /\ phase' = "engines"
    /\ UNCHANGED <<job, serverVars, at, stage, deviceVars>>

(* init_engine.  vLLM loads the base model into the ranks' processes and   *)
(* seeds their generators; SGLang's engines were built with the workers.   *)
InitEngine(d) ==
    /\ phase = "engines" /\ server[d] \in {"ready", "serving"} /\ d \notin started
    /\ started' = started \cup {d}
    /\ IF job.engine = "vllm_async"
         THEN /\ awake' = TRUE
              /\ rng' = [r \in Ranks |-> IF r \in Drives(d) THEN Stream("engine", d) ELSE rng[r]]
         ELSE UNCHANGED <<awake, rng>>
    /\ UNCHANGED <<job, server, asked, addressed, clashes, phase, at, stage,
                   version, weights, isSleep, params, optim, trainRng, genRng>>

(* The scheduler's thread has its loop: fit can begin.                     *)
EnginesReady ==
    /\ phase = "engines" /\ started = Servers
    /\ phase' = "fit"
    /\ UNCHANGED <<job, serverVars, at, stage, deviceVars>>

(* A call to a server that died after it told its address fails the job.   *)
ServerGone ==
    /\ \/ phase = "engines"
       \/ Async /\ Call = "generate"
    /\ \E d \in addressed : server[d] = "dead"
    /\ phase' = "failed"
    /\ UNCHANGED <<job, serverVars, at, stage, deviceVars>>
-----------------------------------------------------------------------------
(* The calls of fit, each of which runs on all ranks before the next *)

Return ==
    /\ stage' = "begin"
    /\ at' = IF at < Len(Fit) THEN at + 1 ELSE at
    /\ phase' = IF at < Len(Fit) THEN phase ELSE "done"

(* What a worker's method needs on the device it brings there first.       *)
Begin(call) ==
    /\ Call = call /\ stage = "begin"
    /\ stage' = "work"
    /\ params' = IF call = "load" /\ ~job.resumed THEN params ELSE "gpu"
    /\ optim' = IF call = "update" THEN "gpu" ELSE optim
    /\ UNCHANGED <<job, serverVars, phase, at, version, weights, isSleep, awake, rng, trainRng, genRng>>

(* load_checkpoint restores every rank's own generator.                    *)
Load ==
    /\ Call = "load" /\ stage = "work"
    /\ stage' = "end"
    /\ IF job.resumed
         THEN version' = 1 /\ rng' = [r \in Ranks |-> Stream("restored", r)]
         ELSE UNCHANGED <<version, rng>>
    /\ UNCHANGED <<job, serverVars, phase, at, weights, isSleep, awake, params, optim, trainRng, genRng>>

(* compute_log_prob and compute_ref_log_prob, and save_checkpoint.         *)
Read ==
    /\ Call \in {"log_prob", "save"} /\ stage = "work"
    /\ stage' = "end"
    /\ UNCHANGED <<job, serverVars, phase, at, deviceVars>>

Update ==
    /\ Call = "update" /\ stage = "work"
    /\ stage' = "end"
    /\ version' = version + 1
    /\ rng' = [r \in Ranks |-> Draw(rng[r])]
    /\ UNCHANGED <<job, serverVars, phase, at, weights, isSleep, awake, params, optim, trainRng, genRng>>

End(call) ==
    /\ Call = call /\ stage = "end"
    /\ params' = IF job.offload THEN "cpu" ELSE params
    /\ optim' = IF job.offload /\ call \in {"load", "update"} THEN "cpu" ELSE optim
    /\ Return
    /\ UNCHANGED <<job, serverVars, version, weights, isSleep, awake, rng, trainRng, genRng>>

(* Mutant: the training's generator is not saved.                          *)
Enter_OldRandomness ==
    /\ weights' = version /\ awake' = TRUE
    /\ params' = IF job.offload THEN "cpu" ELSE params
    /\ rng' = genRng
    /\ UNCHANGED <<version, optim, trainRng, genRng>>

(* Mutant: the parameters stay on the device.                              *)
Enter_KeepsParams ==
    /\ weights' = version /\ awake' = TRUE
    /\ params' = "gpu"
    /\ trainRng' = rng /\ rng' = genRng
    /\ UNCHANGED <<version, optim, genRng>>

(* __enter__ of the sharding manager, or its wake_up: the parameters go to *)
(* the engine, and the generator for rollouts is put in place.             *)
Enter ==
    /\ weights' = version /\ awake' = TRUE
    /\ params' = IF job.offload THEN "cpu" ELSE params
    /\ trainRng' = rng /\ rng' = genRng
    /\ UNCHANGED <<version, optim, genRng>>

(* The weights are gathered from all ranks: a rank that is not called      *)
(* leaves the others waiting.  A rollout that thinks it is awake does not  *)
(* do anything.                                                            *)
Wake ==
    /\ Call = "generate" /\ stage = "begin"
    /\ Async => UNION {Drives(d) : d \in Servers} = Ranks /\ \A d \in Servers : server[d] # "dead"
    /\ stage' = "work"
    /\ IF Async /\ ~isSleep
         THEN UNCHANGED deviceVars
         ELSE Enter /\ isSleep' = FALSE
    /\ UNCHANGED <<job, serverVars, phase, at>>

(* vLLM samples in the ranks' processes, SGLang in processes of its own.   *)
Generate ==
    /\ Call = "generate" /\ stage = "work"
    /\ stage' = "end"
    /\ rng' = IF job.engine = "sglang_async" THEN rng ELSE [r \in Ranks |-> Draw(rng[r])]
    /\ UNCHANGED <<job, serverVars, phase, at, version, weights, isSleep, awake, params, optim, trainRng, genRng>>

(* __exit__ of the sharding manager, or its sleep.                         *)
Sleep ==
    /\ Call = "generate" /\ stage = "end"
    /\ Async => \A d \in Servers : server[d] # "dead"
    /\ awake' = FALSE
    /\ isSleep' = Async
    /\ genRng' = rng /\ rng' = trainRng
    /\ Return
    /\ UNCHANGED <<job, serverVars, version, weights, params, optim, trainRng>>

Next ==
    \/ StartRound \/ AllAddressed \/ EnginesReady \/ ServerGone
    \/ \E d \in Servers : Ready(d) \/ Bind(d) \/ PortTaken(d) \/ TakeAddress(d) \/ InitEngine(d)
    \/ \E call \in {"load", "log_prob", "update", "save"} : Begin(call) \/ End(call)
    \/ Load \/ Read \/ Update \/ Wake \/ Generate \/ Sleep

(* Servers start and answer, the driver and the ranks run on.              *)
Progress ==
    \/ StartRound \/ AllAddressed \/ EnginesReady \/ ServerGone
    \/ \E d \in Servers : Ready(d) \/ Bind(d) \/ TakeAddress(d) \/ InitEngine(d)
    \/ \E call \in {"load", "log_prob", "update", "save"} : Begin(call) \/ End(call)
    \/ Load \/ Read \/ Update \/ Wake \/ Generate \/ Sleep

Spec == Init /\ [][Next]_vars /\ WF_vars(Progress)
-----------------------------------------------------------------------------
Computing(call) == Call = call /\ stage = "work"

(* What is generated is generated with the actor's parameters of that      *)
(* moment, with one exception, and always then: vLLM's servers start awake *)
(* with the base model, so that the first wake_up after a resume gives     *)
(* them nothing (vllm_rollout_spmd.py:373, vllm_async_server.py:211).      *)
FirstGenerate == \A i \in 1 .. Len(Fit) : Fit[i] = "generate" => at <= i
StaleFirst == job.engine = "vllm_async" /\ job.resumed /\ FirstGenerate

GeneratesCurrent ==
    Computing("generate") => (weights = version <=> ~StaleFirst)

(* Rollouts do not disturb the randomness of training: every optimizer     *)
(* step draws where the last one, or the checkpoint, left off; except that *)
(* vLLM's first sleep, which no wake_up preceded, puts back the generator  *)
(* of the time before the checkpoint was loaded (fsdp_vllm.py:250).  And   *)
(* the ranks of a tensor-parallel group sample with the same generator,    *)
(* except vLLM's servers in a resumed run of groups of more than one.      *)
Restored == job.resumed /\ job.engine # "vllm_async"
Updates == version - (IF job.resumed THEN 1 ELSE 0)

RandomnessKept ==
    /\ Computing("update") =>
          \A r \in Ranks : rng[r] = [of |-> IF Restored THEN "restored" ELSE "start", who |-> r, n |-> Updates]
    /\ Computing("generate") =>
          ((\A r, q \in Ranks : Group(r) = Group(q) => rng[r] = rng[q])
             <=> ~(job.engine = "vllm_async" /\ job.resumed /\ job.tp > 1))

(* Engine and actor do not use the devices at the same time once fit has   *)
(* loaded its checkpoint: while the actor computes, its parameters (and    *)
(* for an update its optimizer) are there and the engines hold nothing;    *)
(* while the engines generate, what is to be kept on the host is there.    *)
DevicesShared ==
    /\ \A call \in {"log_prob", "update", "save"} :
          Computing(call) => params = "gpu" /\ ~awake /\ (call = "update" => optim = "gpu")
    /\ Computing("generate") => awake /\ (job.offload => params = "cpu" /\ optim = "cpu")

(* Every job ends: it is done, or failed by a server that died after it    *)
(* had told its address (a bind that fails before that is tried again).    *)
(* Only the jobs whose SGLang servers do not find all their ranks, those   *)
(* of more than one node or of groups of more than one rank, wait for ever *)
(* in their first wake_up, or fail like the others                         *)
(* (async_sglang_server.py:58).                                            *)
LateDeath == \E d \in addressed : server[d] = "dead"
Misplaced == job.engine = "sglang_async" /\ (job.nodes > 1 \/ job.tp > 1)

JobsEnd ==
    <>[](\/ phase = "done" /\ ~Misplaced
         \/ phase = "failed" /\ LateDeath
         \/ Misplaced /\ Call = "generate" /\ stage = "begin")
=============================================================================
