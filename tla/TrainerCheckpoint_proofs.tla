------------------------ MODULE TrainerCheckpoint_proofs ------------------------
(***************************************************************************)
(* What holds of TrainerCheckpoint for every number of ranks, steps, runs, *)
(* epochs and every retention limit, and its proof.                        *)
(*                                                                         *)
(* The inductive invariants.  Bounded says that the step counter, and      *)
(* every step ever saved, stay below TotalSteps + run, which keeps the     *)
(* directory's index set closed under restarts.  CheckpointInv is for      *)
(* resume_mode auto: Resuming says what is already loaded while a          *)
(* checkpoint is read, Saving what the new one holds, phase by phase, and  *)
(* Remembered that the last directory rank 0 remembers is the one the      *)
(* tracker names, so rotation with a limit of two or more spares it.       *)
(* SinceMultiple measures what is not yet committed.  Retention bounds the *)
(* directories by rank 0's list, in every mode.  ModesInv says, for every  *)
(* mix of modes, that a folder whose saving was finished is one run's and  *)
(* has its data.pt, and what a job holds that did not stray.               *)
(***************************************************************************)
EXTENDS TrainerCheckpoint, SequenceTheorems, FiniteSetTheorems, TLAPS

LoadingPhases == LoadPhases \union {"load_data"}

\* The phases between training a step and going on to the next.
TrainedPhases == SavePhases \union
    {"save_data", "write_data", "open_tracker", "write_tracker", "step_done"}

\* Where the actor's and the critic's folders of the new checkpoint are complete.
FoldersDone == {"save_data", "write_data", "open_tracker", "write_tracker"}

\* Rank 0 has read a shard of the folder being loaded: it exists.
Found ==
    \/ phase \in {"load_critic", "load_data", "ready"}
    \/ phase = "load_actor" /\ rank[Rank0] = "loaded"

Bounded ==
    /\ Role \in Roles
    /\ \A ro \in Roles, s \in Steps, r \in Ranks :
          shard[ro][s][r] \in Versions => s <= TotalSteps + run
    /\ tracker \in Steps => tracker <= TotalSteps + run
    /\ phase \in EndPhases => globalSteps = 0 /\ rank = AllIdle
    /\ phase \in LoadingPhases =>
          /\ globalSteps \in Steps
          /\ \A ro \in Roles, s \in Steps, r \in Ranks :
                shard[ro][s][r] \in Versions => s < TotalSteps + run
    /\ Found => globalSteps < TotalSteps + run
    /\ phase \in {"train"} \union TrainedPhases =>
          globalSteps \in 1 .. (TotalSteps + run)

\* All ranks of all groups hold the same weights, of step s.
Uniform(s) == \E v \in Versions : /\ v.step = s
                                  /\ \A ro \in Roles, r \in Ranks : weights[ro][r] = v

LoadedBy(ro, r) ==
    \/ phase \in LoadPhases /\ ro = Role /\ rank[r] = "loaded"
    \/ phase = "load_critic" /\ ro = "actor"
    \/ phase = "load_data"

\* Outside a call the ranks are idle, and a job that is not running holds nothing.
Quiet ==
    /\ phase \notin LoadPhases \union SavePhases => rank = AllIdle
    /\ phase \in EndPhases => weights = Pretrained /\ loader = NewLoader

Resuming ==
    /\ phase \in LoadingPhases =>
        /\ globalSteps = tracker
        /\ \A ro \in Roles, r \in Ranks :
              LoadedBy(ro, r) => weights[ro][r] = shard[ro][globalSteps][r]
    /\ phase = "ready" =>
        /\ Uniform(globalSteps)
        /\ loader.drawn = globalSteps
        /\ tracker \in Steps => tracker = globalSteps
        /\ tracker \notin Steps => globalSteps = 0
        /\ tracker # Torn

Current == [run |-> run, step |-> globalSteps]

WrittenBy(ro, r) ==
    \/ phase \in SavePhases /\ ro = Role /\ rank[r] = "written"
    \/ phase = "save_critic" /\ ro = "actor"
    \/ phase \in FoldersDone

\* The group's save call of this step has returned.
SavedNow(ro) ==
    \/ phase = "save_critic" /\ ro = "actor"
    \/ phase \in FoldersDone

Saving ==
    /\ phase \in TrainedPhases =>
        /\ \A ro \in Roles, r \in Ranks : weights[ro][r] = Current
        /\ loader.drawn = globalSteps
        /\ \A ro \in Roles, r \in Ranks :
              WrittenBy(ro, r) => shard[ro][globalSteps][r] = Current
        /\ phase \in {"open_tracker", "write_tracker"} => data[globalSteps] = loader
    /\ phase \in {"train"} \union (TrainedPhases \ {"step_done"}) =>
        (tracker \in Steps => tracker < globalSteps)
    /\ phase = "step_done" => (tracker \in Steps => tracker <= globalSteps)
    /\ phase \in {"train"} \union (TrainedPhases \ {"write_tracker"}) => tracker # Torn

Remembered ==
    /\ \A ro \in Roles : \A i, j \in 1 .. Len(saved[ro]) :
          i < j => saved[ro][i] < saved[ro][j]
    /\ phase \notin {"train"} \union TrainedPhases => \A ro \in Roles : saved[ro] = <<>>
    /\ phase \in {"train"} \union TrainedPhases => \A ro \in Roles :
          /\ SavedNow(ro) => /\ Len(saved[ro]) > 0
                             /\ saved[ro][Len(saved[ro])] = globalSteps
          /\ ~SavedNow(ro) /\ Len(saved[ro]) > 0 => saved[ro][Len(saved[ro])] = tracker

\* What is left of the step the tracker names was written by one run, and its
\* data.pt is complete.  (A limit of one has rank 0 remove it, folder by folder,
\* while its successor is not yet written.)
Unmixed(s) ==
    /\ \E v \in Versions :
        /\ v.step = s
        /\ \A ro \in Roles, r \in Ranks : shard[ro][s][r] \in {Absent, v}
    /\ data[s] \in Loaders
    /\ data[s].drawn = s

TrackerUnmixed == tracker \in Steps => Unmixed(tracker)

CheckpointInv ==
    /\ TrackerUnmixed
    /\ CoherentResume
    /\ Quiet
    /\ Resuming
    /\ Saving
    /\ Remembered

--------------------------------------------------------------------------------
(* Types and bounds *)

LEMMA Constants ==
    /\ "actor" \in Roles
    /\ MaxStep \in Nat
    /\ Pretrained \in [Roles -> [Ranks -> Versions]]
    /\ NewLoader \in Loaders
    /\ AllIdle \in [Ranks -> RankPhases]
<1>1. "actor" \in Roles
  BY DEF Roles
<1>2. MaxStep \in Nat
  BY CountAssumption DEF MaxStep
<1>3. [run |-> 0, step |-> 0] \in Versions
  BY <1>2, CountAssumption DEF Versions
<1>4. Pretrained \in [Roles -> [Ranks -> Versions]]
  BY <1>3 DEF Pretrained
<1>5. NewLoader \in Loaders
  BY CountAssumption DEF NewLoader, Loaders
<1>6. AllIdle \in [Ranks -> RankPhases]
  BY DEF AllIdle, RankPhases
<1> QED
  BY <1>1, <1>2, <1>4, <1>5, <1>6

\* What writing one file does to the directory.
LEMMA WriteFile ==
    ASSUME NEW V, NEW dir \in [Roles -> [Steps -> [Ranks -> V]]],
           NEW ro0 \in Roles, NEW s0 \in Steps, NEW r0 \in Ranks, NEW v \in V,
           NEW new, new = [dir EXCEPT ![ro0][s0][r0] = v]
    PROVE  /\ new \in [Roles -> [Steps -> [Ranks -> V]]]
           /\ new[ro0][s0][r0] = v
           /\ \A ro \in Roles, s \in Steps, r \in Ranks :
                 (ro # ro0 \/ s # s0 \/ r # r0) => new[ro][s][r] = dir[ro][s][r]
<1>1. new = [dir EXCEPT ![ro0] = [dir[ro0] EXCEPT ![s0] = [dir[ro0][s0] EXCEPT ![r0] = v]]]
  OBVIOUS
<1>2. [dir[ro0][s0] EXCEPT ![r0] = v] \in [Ranks -> V]
  OBVIOUS
<1>3. [dir[ro0] EXCEPT ![s0] = [dir[ro0][s0] EXCEPT ![r0] = v]] \in [Steps -> [Ranks -> V]]
  BY <1>2
<1> QED
  BY <1>1, <1>2, <1>3

LEMMA TypeInit == Init => TypeOK /\ Bounded
<1> SUFFICES ASSUME Init PROVE TypeOK /\ Bounded
  OBVIOUS
<1>1. TypeOK
  <2>1. saved \in [Roles -> Seq(Steps)]
    BY EmptySeq DEF Init
  <2>2. /\ shard \in [Roles -> [Steps -> [Ranks -> FileStates \union Versions]]]
        /\ data \in [Steps -> FileStates \union Loaders]
        /\ tracker \in FileStates \union Steps
        /\ doubtful \subseteq Steps
        /\ strays \in BOOLEAN
    BY DEF Init, FileStates
  <2> QED
    BY <2>1, <2>2, Constants, CountAssumption DEF Init, TypeOK, EndPhases
<1>2. Bounded
  <2>1. Role \in Roles
    BY Constants DEF Init, Role
  <2>2. \A ro \in Roles, s \in Steps, r \in Ranks : shard[ro][s][r] \notin Versions
    BY FileAssumption DEF Init
  <2>3. tracker \notin Steps
    BY FileAssumption DEF Init
  <2> QED
    BY <2>1, <2>2, <2>3 DEF Init, Bounded, Found, LoadingPhases, LoadPhases, TrainedPhases, SavePhases
<1> QED
  BY <1>1, <1>2

\* Leaving, in whatever way, keeps types and bounds.
LEMMA TypeProcessEnds ==
    ASSUME TypeOK, Bounded, NEW as \in EndPhases, ProcessEnds(as)
    PROVE  TypeOK' /\ Bounded'
<1>1. TypeOK'
  <2>1. saved' \in [Roles -> Seq(Steps)]
    BY EmptySeq DEF ProcessEnds
  <2>2. /\ shard' = shard /\ data' = data /\ tracker' = tracker /\ run' = run
        /\ doubtful' = doubtful /\ strays' = strays
        /\ phase' \in EndPhases /\ globalSteps' = 0 /\ epoch' = 0
        /\ loader' = NewLoader /\ weights' = Pretrained /\ rank' = AllIdle
    BY DEF ProcessEnds, disk
  <2> QED
    BY <2>1, <2>2, Constants DEF TypeOK
<1>2. Role' \in Roles
  BY Constants DEF ProcessEnds, Role, EndPhases
<1>3. Bounded'
  BY <1>2 DEF Bounded, Found, ProcessEnds, disk, EndPhases, LoadingPhases, LoadPhases,
              TrainedPhases, SavePhases
<1> QED
  BY <1>1, <1>3

LEMMA TypeStart == ASSUME TypeOK, Bounded, Start PROVE TypeOK' /\ Bounded'
<1> USE CountAssumption, Constants
<1>1. /\ NewRun
      /\ UNCHANGED <<shard, data, tracker, doubtful, epoch, loader, weights, saved, rank>>
      /\ strays' \in BOOLEAN
      /\ \/ phase' = "ready" /\ globalSteps' = globalSteps
         \/ phase' = "load_actor" /\ globalSteps' \in Steps
         \/ phase' = "down" /\ globalSteps' = globalSteps
  <2>1. CASE StartFromScratch \/ StartFails
    BY <2>1 DEF StartFromScratch, StartFails, NewRun, disk, job
  <2>2. CASE StartFromTracker \/ StartFromPath
    <3>1. PICK s \in Steps : ResumeFrom(s)
      BY <2>2 DEF StartFromTracker, StartFromPath
    <3>2. strays' \in BOOLEAN
      BY <3>1 DEF ResumeFrom
    <3> QED
      BY <3>1, <3>2 DEF ResumeFrom, NewRun, disk
  <2> QED
    BY <2>1, <2>2 DEF Start
<1>2. /\ globalSteps = 0 /\ rank = AllIdle
      /\ run \in Nat /\ run' = run + 1 /\ run' \in 0 .. MaxRuns
  BY <1>1 DEF NewRun, Bounded, TypeOK
<1>3. TypeOK'
  BY <1>1, <1>2 DEF TypeOK, UpPhases, EndPhases, LoadPhases, Steps
<1>4. Role' \in Roles
  BY <1>1 DEF Role
<1>5. \A ro \in Roles, s \in Steps, r \in Ranks :
         shard'[ro][s][r] \in Versions => s < TotalSteps + run'
  BY <1>1, <1>2 DEF Bounded, Steps
<1>6. tracker' \in Steps => tracker' <= TotalSteps + run'
  BY <1>1, <1>2 DEF Bounded, Steps
<1>7. rank'[Rank0] # "loaded"
  BY <1>1, <1>2, RankAssumption DEF AllIdle
<1>8. Bounded'
  BY <1>1, <1>2, <1>4, <1>5, <1>6, <1>7
     DEF Bounded, Found, EndPhases, LoadingPhases, LoadPhases, TrainedPhases, SavePhases, Steps
<1> QED
  BY <1>3, <1>8

\* Actions that leave the directory's shards, the tracker and the run alone
\* have only the phase and the step counter to keep within bounds.
LEMMA BoundedByPhase ==
    ASSUME TypeOK, Bounded, UNCHANGED <<shard, tracker, run>>, Role' \in Roles,
           phase' \notin EndPhases,
           phase' \in LoadingPhases => phase \in LoadingPhases /\ globalSteps' \in Steps,
           Found' => globalSteps' < TotalSteps + run,
           phase' \in {"train"} \union TrainedPhases => globalSteps' \in 1 .. (TotalSteps + run)
    PROVE  Bounded'
BY DEF Bounded

LEMMA TypeDriver == ASSUME TypeOK, Bounded, Driver PROVE TypeOK' /\ Bounded'
<1> USE CountAssumption, Constants
<1>0. TotalSteps \in Nat /\ run \in Nat /\ run <= MaxRuns /\ globalSteps \in Nat
  BY DEF TypeOK
<1>1. CASE LoadFails \/ EpochsExhausted \/ Finish
  BY <1>1, TypeProcessEnds DEF LoadFails, EpochsExhausted, Finish, EndPhases
<1>2. CASE LoadDone
  <2>1. TypeOK'
    BY <1>2 DEF TypeOK, LoadDone, disk, UpPhases, LoadPhases
  <2>2. Role' \in Roles
    BY <1>2 DEF LoadDone, Role, Roles
  <2> QED
    BY <1>2, <2>1, <2>2, BoundedByPhase, RankAssumption
       DEF Bounded, Found, LoadDone, disk, EndPhases, LoadingPhases, LoadPhases, TrainedPhases, SavePhases
<1>3. CASE LoadLoader
  <2>1. loader' \in Loaders
    BY <1>3 DEF LoadLoader, TypeOK, Bounded, LoadingPhases, FileStates
  <2>2. TypeOK'
    BY <1>3, <2>1 DEF TypeOK, LoadLoader, disk, UpPhases
  <2>3. Role' \in Roles
    BY <1>3 DEF LoadLoader, Role
  <2> QED
    BY <1>3, <2>2, <2>3, BoundedByPhase
       DEF Bounded, Found, LoadLoader, disk, EndPhases, LoadingPhases, LoadPhases, TrainedPhases, SavePhases
<1>4. CASE BeginTraining
  <2>1. globalSteps' \in 1 .. (TotalSteps + run)
    BY <1>0, <1>4 DEF BeginTraining, Bounded, Found
  <2>2. TypeOK'
    BY <1>0, <1>4, <2>1 DEF TypeOK, BeginTraining, disk, UpPhases, MaxStep
  <2>3. Role' \in Roles
    BY <1>4 DEF BeginTraining, Role
  <2> QED
    BY <1>4, <2>1, <2>2, <2>3, BoundedByPhase
       DEF BeginTraining, Found, disk, EndPhases, LoadingPhases, LoadPhases, TrainedPhases, SavePhases
<1>5. CASE TrainStep
  <2>1. loader' \in Loaders
    BY <1>5 DEF TrainStep, TypeOK, Loaders
  <2>2. [run |-> run, step |-> globalSteps] \in Versions
    BY DEF TypeOK, Versions
  <2>3. weights' \in [Roles -> [Ranks -> Versions]]
    BY <1>5, <2>2 DEF TrainStep
  <2>4. TypeOK'
    BY <1>5, <2>1, <2>3 DEF TypeOK, TrainStep, disk, UpPhases, SavePhases
  <2>5. Role' \in Roles
    BY <1>5 DEF TrainStep, Role
  <2> QED
    BY <1>5, <2>4, <2>5, BoundedByPhase
       DEF TrainStep, Bounded, Found, disk, EndPhases, LoadingPhases, LoadPhases, TrainedPhases, SavePhases
<1>6. CASE NextEpoch
  <2>1. loader' \in Loaders
    BY <1>6 DEF NextEpoch, TypeOK, Loaders
  <2>2. TypeOK'
    BY <1>6, <2>1 DEF TypeOK, NextEpoch, disk
  <2>3. Role' \in Roles
    BY <1>6 DEF NextEpoch, Role
  <2> QED
    BY <1>6, <2>2, <2>3, BoundedByPhase
       DEF NextEpoch, Bounded, Found, disk, EndPhases, LoadingPhases, LoadPhases
<1>7. CASE NextStep
  <2>1. globalSteps' \in 1 .. (TotalSteps + run)
    BY <1>0, <1>7 DEF NextStep, IsLastStep
  <2>2. TypeOK'
    BY <1>0, <1>7, <2>1 DEF TypeOK, NextStep, disk, UpPhases, MaxStep
  <2>3. Role' \in Roles
    BY <1>7 DEF NextStep, Role
  <2> QED
    BY <1>7, <2>1, <2>2, <2>3, BoundedByPhase
       DEF NextStep, Found, disk, EndPhases, LoadingPhases, LoadPhases, TrainedPhases, SavePhases
<1>8. CASE Rotate
  <2>1. KeepStart(Role) \in Nat
    BY DEF KeepStart, MaxKeep, TypeOK, Bounded
  <2>2. saved' \in [Roles -> Seq(Steps)]
    <3> DEFINE old == saved[Role]
    <3>1. old \in Seq(Steps)
      BY DEF TypeOK, Bounded
    <3>2. SubSeq(old, KeepStart(Role) + 1, Len(old)) \in Seq(Steps)
      <4>1. Len(old) \in Nat /\ \A i \in 1 .. Len(old) : old[i] \in Steps
        BY <3>1, LenProperties, ElementOfSeq
      <4>2. \A i \in KeepStart(Role) + 1 .. Len(old) : old[i] \in Steps
        BY <2>1, <4>1
      <4> QED
        BY <2>1, <4>1, <4>2, SubSeqProperties
    <3> QED
      BY <1>8, <3>2 DEF Rotate, TypeOK
  <2>3. shard' \in [Roles -> [Steps -> [Ranks -> FileStates \union Versions]]]
    BY <1>8 DEF Rotate, TypeOK, FileStates
  <2>4. TypeOK'
    BY <1>8, <2>2, <2>3 DEF TypeOK, Rotate, RankPhases
  <2>5. \A ro \in Roles, s \in Steps, r \in Ranks :
           shard'[ro][s][r] \in Versions => shard[ro][s][r] \in Versions
    BY <1>8, FileAssumption DEF Rotate
  <2> QED
    BY <1>8, <2>4, <2>5 DEF Rotate, Bounded, Found, Role, EndPhases, LoadingPhases, LoadPhases, SavePhases
<1>9. CASE SaveDone
  <2>1. globalSteps \in Steps
    BY <1>0, <1>9 DEF SaveDone, Bounded, TrainedPhases, Steps, MaxStep
  <2>2. saved' \in [Roles -> Seq(Steps)]
    <3>1. Append(saved[Role], globalSteps) \in Seq(Steps)
      BY <2>1, AppendProperties DEF TypeOK, Bounded
    <3> QED
      BY <1>9, <3>1 DEF SaveDone, TypeOK
  <2>3. TypeOK'
    BY <1>9, <2>2 DEF TypeOK, SaveDone, disk, UpPhases, SavePhases
  <2>4. Role' \in Roles
    BY <1>9 DEF SaveDone, Role, Roles
  <2> QED
    BY <1>9, <2>3, <2>4, BoundedByPhase
       DEF SaveDone, Bounded, Found, disk, EndPhases, LoadingPhases, LoadPhases, TrainedPhases, SavePhases
<1>10. CASE BeginData \/ EndData
  <2>1. TypeOK'
    BY <1>10 DEF TypeOK, BeginData, EndData, disk, job, UpPhases, FileStates
  <2>2. Role' \in Roles
    BY <1>10 DEF BeginData, EndData, Role
  <2> QED
    BY <1>10, <2>1, <2>2, BoundedByPhase
       DEF BeginData, EndData, Bounded, Found, job, EndPhases, LoadingPhases, LoadPhases, TrainedPhases, SavePhases
<1>11. CASE OpenTracker
  <2>1. TypeOK'
    BY <1>11 DEF TypeOK, OpenTracker, job, UpPhases, FileStates
  <2>2. Role' \in Roles
    BY <1>11 DEF OpenTracker, Role
  <2>3. tracker' \notin Steps
    BY <1>11, FileAssumption DEF OpenTracker
  <2> QED
    BY <1>11, <2>1, <2>2, <2>3
       DEF OpenTracker, Bounded, Found, job, EndPhases, LoadingPhases, LoadPhases, TrainedPhases, SavePhases
<1>12. CASE WriteTracker
  <2>1. globalSteps \in Steps /\ globalSteps <= TotalSteps + run
    BY <1>0, <1>12 DEF WriteTracker, Bounded, TrainedPhases, Steps, MaxStep
  <2>2. TypeOK'
    BY <1>12, <2>1 DEF TypeOK, WriteTracker, job, UpPhases
  <2>3. Role' \in Roles
    BY <1>12 DEF WriteTracker, Role
  <2> QED
    BY <1>12, <2>1, <2>2, <2>3
       DEF WriteTracker, Bounded, Found, job, EndPhases, LoadingPhases, LoadPhases, TrainedPhases, SavePhases
<1> QED
  BY <1>1, <1>2, <1>3, <1>4, <1>5, <1>6, <1>7, <1>8, <1>9, <1>10, <1>11, <1>12 DEF Driver

LEMMA TypeRank ==
    ASSUME TypeOK, Bounded, NEW r \in Ranks, RankStep(r)
    PROVE  TypeOK' /\ Bounded'
<1> USE CountAssumption, Constants
<1>0. Role \in Roles
  BY DEF Bounded
<1>1. CASE LoadShard(r)
  <2>1. weights' \in [Roles -> [Ranks -> Versions]]
    BY <1>0, <1>1 DEF LoadShard, TypeOK
  <2>2. TypeOK'
    BY <1>1, <2>1 DEF TypeOK, LoadShard, disk, RankPhases
  <2>3. globalSteps < TotalSteps + run
    BY <1>0, <1>1 DEF LoadShard, Bounded, LoadingPhases
  <2> QED
    BY <1>1, <2>2, <2>3, BoundedByPhase
       DEF LoadShard, Bounded, disk, Role, EndPhases, LoadPhases, SavePhases, TrainedPhases
<1>2. CASE Prepare(r)
  <2>1. TypeOK'
    BY <1>2 DEF TypeOK, Prepare, disk, RankPhases
  <2> QED
    BY <1>2, <2>1, BoundedByPhase
       DEF Prepare, Bounded, Found, disk, Role, EndPhases, LoadingPhases, LoadPhases, SavePhases
<1>3. ASSUME BeginWrite(r) \/ EndWrite(r) PROVE TypeOK' /\ Bounded'
  <2>1. /\ globalSteps \in Steps /\ globalSteps <= TotalSteps + run /\ phase \in SavePhases
        /\ UNCHANGED <<tracker, run, phase, globalSteps>>
    BY <1>3 DEF BeginWrite, EndWrite, Bounded, TrainedPhases, TypeOK, Steps, MaxStep, SavePhases
  <2>2. PICK v \in FileStates \union Versions :
           shard' = [shard EXCEPT ![Role][globalSteps][r] = v]
    <3>1. CASE BeginWrite(r)
      BY <3>1 DEF BeginWrite, FileStates
    <3>2. CASE EndWrite(r)
      <4>1. weights[Role][r] \in Versions
        BY <1>0 DEF TypeOK
      <4> QED
        BY <3>2, <4>1 DEF EndWrite
    <3> QED
      BY <1>3, <3>1, <3>2
  <2>3. /\ shard' \in [Roles -> [Steps -> [Ranks -> FileStates \union Versions]]]
        /\ \A ro \in Roles, s \in Steps, q \in Ranks :
              s # globalSteps => shard'[ro][s][q] = shard[ro][s][q]
    BY <1>0, <2>1, <2>2, WriteFile DEF TypeOK
  <2>4. TypeOK'
    <3>1. doubtful' \subseteq Steps
      BY <1>3, <2>1 DEF TypeOK, BeginWrite, EndWrite
    <3> QED
      BY <1>3, <2>3, <3>1 DEF TypeOK, BeginWrite, EndWrite, RankPhases
  <2>5. \A ro \in Roles, s \in Steps, q \in Ranks :
           shard'[ro][s][q] \in Versions => s <= TotalSteps + run
    <3> TAKE ro \in Roles, s \in Steps, q \in Ranks
    <3>1. CASE s = globalSteps
      BY <2>1, <3>1
    <3>2. CASE s # globalSteps
      <4>1. shard'[ro][s][q] = shard[ro][s][q]
        BY <2>3, <3>2
      <4> QED
        BY <4>1 DEF Bounded
    <3> QED
      BY <3>1, <3>2
  <2>6. Role' \in Roles
    BY <1>0, <2>1 DEF Role
  <2> QED
    BY <2>1, <2>4, <2>5, <2>6
       DEF Bounded, Found, EndPhases, LoadingPhases, LoadPhases, SavePhases
<1> QED
  BY <1>1, <1>2, <1>3 DEF RankStep

LEMMA TypeStep == TypeOK /\ Bounded /\ [Next]_vars => TypeOK' /\ Bounded'
<1> SUFFICES ASSUME TypeOK, Bounded, [Next]_vars PROVE TypeOK' /\ Bounded'
  OBVIOUS
<1>1. CASE Start
  BY <1>1, TypeStart
<1>2. CASE Driver
  BY <1>2, TypeDriver
<1>3. CASE \E r \in Ranks : RankStep(r)
  BY <1>3, TypeRank
<1>4. CASE Crash
  BY <1>4, TypeProcessEnds DEF Crash, EndPhases
<1>5. CASE UNCHANGED vars
  BY <1>5 DEF vars, disk, job, TypeOK, Bounded, Found, Role
<1> QED
  BY <1>1, <1>2, <1>3, <1>4, <1>5 DEF Next

\* The directory and the job keep their types, for every instance: in particular
\* no restart, in any resume mode, ever trains or saves a step beyond MaxStep.
THEOREM TypeCorrect == Spec => [](TypeOK /\ Bounded)
BY TypeInit, TypeStep, PTL DEF Spec

--------------------------------------------------------------------------------
(* The tracker names a sound checkpoint, and training resumes from one *)

\* The job is always started with resume_mode auto, and keeps every checkpoint
\* or at least the last two.
AutoOnly == Modes = {"auto"}
KeepsTwo == MaxActorKeep # 1 /\ MaxCriticKeep # 1

\* Rotation spares the directory being written, and, unless it is to keep only
\* one, the directory the tracker names: what it removes comes before the last
\* directory rank 0 remembers.
LEMMA RotationSpares ==
    ASSUME TypeOK, Bounded, CheckpointInv, phase \in SavePhases
    PROVE  \A s \in Removed(Role) : s # globalSteps /\ (KeepsTwo => s # tracker)
<1> DEFINE old == saved[Role]
           k   == KeepStart(Role)
<1>1. Role \in Roles /\ old \in Seq(Steps) /\ Len(old) \in Nat
  BY LenProperties DEF Bounded, TypeOK
<1>2. \A i \in 1 .. Len(old) : old[i] \in Steps
  BY <1>1, ElementOfSeq
<1>3. SUFFICES ASSUME NEW i \in 1 .. k
               PROVE  old[i] # globalSteps /\ (KeepsTwo => old[i] # tracker)
  BY DEF Removed
<1>4. k \in 1 .. Len(old) /\ (KeepsTwo => k < Len(old))
  <2>1. MaxKeep(Role) \in Nat /\ (KeepsTwo => MaxKeep(Role) # 1)
    BY CountAssumption DEF MaxKeep, KeepsTwo
  <2> QED
    BY <1>1, <2>1 DEF KeepStart
<1>5. old[Len(old)] = tracker
  BY <1>1, <1>4 DEF CheckpointInv, Remembered, SavedNow, FoldersDone, TrainedPhases, SavePhases, Role
<1>6. tracker \in Steps /\ tracker < globalSteps
  <2>1. tracker \in Steps
    BY <1>1, <1>2, <1>4, <1>5
  <2> QED
    BY <2>1 DEF CheckpointInv, Saving, TrainedPhases, SavePhases
<1>7. i < Len(old) => old[i] < old[Len(old)]
  <2>1. i \in 1 .. Len(old) /\ Len(old) \in 1 .. Len(old)
    BY <1>1, <1>4
  <2> QED
    BY <1>1, <2>1 DEF CheckpointInv, Remembered
<1>8. old[i] \in Nat /\ tracker \in Nat /\ globalSteps \in Nat
  BY <1>1, <1>2, <1>4, <1>6, Constants DEF Steps, TypeOK
<1> HIDE DEF old, k
<1>9. CASE i = Len(old)
  BY <1>1, <1>4, <1>5, <1>6, <1>8, <1>9
<1>10. CASE i # Len(old)
  <2>1. i < Len(old)
    BY <1>1, <1>4, <1>10
  <2> QED
    BY <1>5, <1>6, <1>7, <1>8, <2>1
<1> QED
  BY <1>9, <1>10

LEMMA SafeInit == Init => CheckpointInv
<1> SUFFICES ASSUME Init PROVE CheckpointInv
  OBVIOUS
<1>1. tracker \notin Steps
  BY FileAssumption DEF Init
<1>2. \A ro \in Roles : Len(saved[ro]) = 0
  BY EmptySeq DEF Init
<1> QED
  BY <1>1, <1>2 DEF Init, CheckpointInv, TrackerUnmixed, CoherentResume, Quiet, Resuming, Saving, Remembered,
     LoadingPhases, LoadPhases, TrainedPhases, SavePhases

LEMMA SafeProcessEnds ==
    ASSUME TypeOK, Bounded, CheckpointInv, NEW as \in EndPhases, ProcessEnds(as)
    PROVE  CheckpointInv'
<1>1. phase' \in EndPhases /\ UNCHANGED <<shard, data, tracker>>
  BY DEF ProcessEnds, disk
<1>2. TrackerUnmixed'
  BY <1>1 DEF CheckpointInv, TrackerUnmixed, Unmixed
<1>3. \A ro \in Roles : saved'[ro] = <<>> /\ Len(saved'[ro]) = 0
  BY EmptySeq DEF ProcessEnds
<1>4. Remembered'
  BY <1>1, <1>3 DEF Remembered, EndPhases, TrainedPhases, SavePhases
<1>5. CoherentResume' /\ Resuming' /\ Saving' /\ Quiet'
  BY <1>1 DEF ProcessEnds, CoherentResume, Resuming, Saving, Quiet, EndPhases, LoadingPhases,
              LoadPhases, TrainedPhases, SavePhases
<1> QED
  BY <1>2, <1>4, <1>5 DEF CheckpointInv

LEMMA SafeStart ==
    ASSUME TypeOK, Bounded, CheckpointInv, AutoOnly, Start
    PROVE  CheckpointInv'
<1>1. /\ phase \in EndPhases
      /\ UNCHANGED <<shard, data, tracker, epoch, loader, weights, saved, rank>>
      /\ \/ phase' = "ready" /\ globalSteps' = globalSteps /\ tracker = Absent
         \/ phase' = "load_actor" /\ globalSteps' = tracker /\ tracker \in Steps
         \/ phase' = "down" /\ globalSteps' = globalSteps
  BY DEF Start, StartFromScratch, StartFromTracker, StartFromPath, StartFails, ResumeFrom,
         NewRun, disk, job, AutoOnly
<1>2. globalSteps = 0 /\ weights = Pretrained /\ loader = NewLoader /\ rank = AllIdle
  BY <1>1 DEF Bounded, CheckpointInv, Quiet, EndPhases, LoadPhases, SavePhases
<1>3. TrackerUnmixed'
  BY <1>1 DEF CheckpointInv, TrackerUnmixed, Unmixed
<1>4. Remembered'
  BY <1>1 DEF CheckpointInv, Remembered, EndPhases, TrainedPhases, SavePhases
<1>5. CoherentResume' /\ Saving' /\ Quiet'
  BY <1>1, <1>2 DEF CheckpointInv, CoherentResume, Saving, Quiet, EndPhases, LoadPhases,
                    TrainedPhases, SavePhases
<1>6. Resuming'
  <2>1. CASE phase' = "ready"
    <3>1. [run |-> 0, step |-> 0] \in Versions
      BY Constants, CountAssumption DEF Versions
    <3>2. \A ro \in Roles, r \in Ranks : weights'[ro][r] = [run |-> 0, step |-> 0]
      BY <1>1, <1>2 DEF Pretrained
    <3>3. globalSteps' = 0 /\ tracker' = Absent /\ loader'.drawn = 0
      BY <1>1, <1>2, <2>1 DEF NewLoader
    <3> QED
      BY <2>1, <3>1, <3>2, <3>3, FileAssumption DEF Resuming, Uniform, LoadingPhases, LoadPhases
  <2>2. CASE phase' = "load_actor"
    BY <1>1, <1>2, <2>2 DEF Resuming, LoadedBy, AllIdle, LoadingPhases, LoadPhases
  <2>3. CASE phase' = "down"
    BY <2>3 DEF Resuming, LoadingPhases, LoadPhases
  <2> QED
    BY <1>1, <2>1, <2>2, <2>3
<1> QED
  BY <1>3, <1>4, <1>5, <1>6 DEF CheckpointInv

\* Reading the checkpoint the tracker names.
LEMMA SafeLoading ==
    ASSUME TypeOK, Bounded, CheckpointInv,
           LoadDone \/ LoadLoader \/ \E r \in Ranks : LoadShard(r)
    PROVE  CheckpointInv'
<1> USE DEF LoadPhases, SavePhases, LoadingPhases, TrainedPhases, EndPhases
<1>1. UNCHANGED <<shard, data, tracker, globalSteps, saved>>
  BY DEF LoadDone, LoadLoader, LoadShard, disk
<1>2. phase \in LoadingPhases /\ phase' \in LoadingPhases \union {"ready"}
  BY DEF LoadDone, LoadLoader, LoadShard
<1>3. globalSteps = tracker /\ globalSteps \in Steps
  BY <1>2 DEF CheckpointInv, Resuming, Bounded
<1>4. TrackerUnmixed'
  BY <1>1 DEF CheckpointInv, TrackerUnmixed, Unmixed
<1>5. Remembered' /\ CoherentResume' /\ Saving'
  BY <1>1, <1>2 DEF CheckpointInv, Remembered, CoherentResume, Saving
<1>6. CASE LoadDone
  <2>1. Quiet'
    BY <1>6 DEF LoadDone, Quiet
  <2>2. \A ro \in Roles, r \in Ranks : LoadedBy(ro, r)' => LoadedBy(ro, r)
    BY <1>6 DEF LoadDone, LoadedBy, Role, Roles, AllIdle
  <2>3. Resuming'
    BY <1>1, <1>3, <1>6, <2>2 DEF LoadDone, CheckpointInv, Resuming
  <2> QED
    BY <1>4, <1>5, <2>1, <2>3 DEF CheckpointInv
<1>7. CASE LoadLoader
  <2>1. Quiet'
    BY <1>7 DEF LoadLoader, CheckpointInv, Quiet
  <2>2. Unmixed(globalSteps)
    BY <1>3 DEF CheckpointInv, TrackerUnmixed
  <2>3. loader' = data[globalSteps] /\ loader'.drawn = globalSteps
    BY <1>7, <2>2, FileAssumption DEF LoadLoader, Unmixed
  <2>4. \A ro \in Roles, r \in Ranks : weights'[ro][r] = shard[ro][globalSteps][r]
    BY <1>7 DEF LoadLoader, CheckpointInv, Resuming, LoadedBy
  <2>5. Uniform(globalSteps)'
    <3>1. PICK v \in Versions :
             /\ v.step = globalSteps
             /\ \A ro \in Roles, r \in Ranks : shard[ro][globalSteps][r] \in {Absent, v}
      BY <2>2 DEF Unmixed
    <3>2. \A ro \in Roles, r \in Ranks : weights'[ro][r] \in Versions
      BY <1>7 DEF LoadLoader, TypeOK
    <3>3. \A ro \in Roles, r \in Ranks : weights'[ro][r] = v
      BY <2>4, <3>1, <3>2, FileAssumption
    <3> QED
      BY <1>1, <3>1, <3>3 DEF Uniform
  <2>6. tracker # Torn
    BY <1>3, FileAssumption
  <2>7. Resuming'
    BY <1>1, <1>3, <1>7, <2>3, <2>5, <2>6 DEF LoadLoader, Resuming
  <2> QED
    BY <1>4, <1>5, <2>1, <2>7 DEF CheckpointInv
<1>8. ASSUME NEW r \in Ranks, LoadShard(r) PROVE CheckpointInv'
  <2>1. phase' = phase /\ phase \in LoadPhases /\ Role \in Roles
    BY <1>8 DEF LoadShard, Bounded
  <2>2. Quiet'
    BY <2>1 DEF Quiet
  <2>3. ASSUME NEW ro \in Roles, NEW q \in Ranks, LoadedBy(ro, q)'
        PROVE  weights'[ro][q] = shard[ro][globalSteps][q]
    <3>1. CASE ro = Role /\ q = r
      BY <1>8, <2>1, <3>1 DEF LoadShard, TypeOK
    <3>2. CASE ~(ro = Role /\ q = r)
      <4>1. LoadedBy(ro, q)
        BY <1>8, <2>1, <2>3, <3>2 DEF LoadedBy, LoadShard, Role, TypeOK
      <4>2. weights'[ro][q] = weights[ro][q]
        BY <1>8, <2>1, <3>2 DEF LoadShard, TypeOK
      <4> QED
        BY <1>2, <4>1, <4>2 DEF CheckpointInv, Resuming
    <3> QED
      BY <3>1, <3>2
  <2>4. Resuming'
    BY <1>1, <1>3, <2>1, <2>3 DEF Resuming
  <2> QED
    BY <1>4, <1>5, <2>2, <2>4 DEF CheckpointInv
<1> QED
  BY <1>6, <1>7, <1>8

\* Training a step and going on to the next.
LEMMA SafeTraining ==
    ASSUME TypeOK, Bounded, CheckpointInv,
           BeginTraining \/ TrainStep \/ NextEpoch \/ NextStep
    PROVE  CheckpointInv'
<1> USE DEF LoadPhases, SavePhases, LoadingPhases, TrainedPhases, EndPhases
<1>1. UNCHANGED <<shard, data, tracker, run, rank, saved>>
  BY DEF BeginTraining, TrainStep, NextEpoch, NextStep, disk
<1>2. TrackerUnmixed'
  BY <1>1 DEF CheckpointInv, TrackerUnmixed, Unmixed
<1>3. rank = AllIdle
  BY DEF BeginTraining, TrainStep, NextEpoch, NextStep, CheckpointInv, Quiet
<1>4. globalSteps \in Nat /\ \A s \in Steps : s \in Nat
  BY Constants DEF TypeOK, Steps
<1>5. CASE BeginTraining
  <2>1. phase = "ready" /\ phase' = "train" /\ globalSteps' = globalSteps + 1 /\ UNCHANGED <<loader, weights>>
    BY <1>5 DEF BeginTraining
  <2>2. Uniform(globalSteps) /\ loader.drawn = globalSteps /\ tracker # Torn
        /\ (tracker \in Steps => tracker = globalSteps)
    BY <2>1 DEF CheckpointInv, Resuming
  <2>3. CoherentResume'
    BY <1>4, <2>1, <2>2 DEF CoherentResume, Uniform
  <2>4. Saving'
    BY <1>1, <1>4, <2>1, <2>2 DEF Saving
  <2>5. \A ro \in Roles : Len(saved[ro]) = 0
    BY <2>1, EmptySeq DEF CheckpointInv, Remembered
  <2>6. Remembered' /\ Quiet' /\ Resuming'
    BY <1>1, <1>3, <2>1, <2>5 DEF Remembered, Quiet, Resuming, SavedNow, FoldersDone
  <2> QED
    BY <1>2, <2>3, <2>4, <2>6 DEF CheckpointInv
<1>6. CASE TrainStep
  <2>1. phase = "train" /\ phase' \in {"save_actor", "step_done"} /\ globalSteps' = globalSteps
    BY <1>6 DEF TrainStep
  <2>2. loader.drawn = globalSteps - 1 /\ loader'.drawn = globalSteps
    BY <1>4, <1>6, <2>1 DEF TrainStep, CheckpointInv, CoherentResume
  <2>3. \A ro \in Roles, r \in Ranks : weights'[ro][r] = Current'
    BY <1>1, <1>6, <2>1 DEF TrainStep, Current
  <2>4. \A ro \in Roles, r \in Ranks : ~WrittenBy(ro, r)' /\ ~SavedNow(ro)'
    BY <1>1, <1>3, <2>1 DEF WrittenBy, SavedNow, FoldersDone, AllIdle
  <2>5. tracker # Torn /\ (tracker \in Steps => tracker < globalSteps)
    BY <2>1 DEF CheckpointInv, Saving
  <2>6. Saving'
    BY <1>1, <1>4, <2>1, <2>2, <2>3, <2>4, <2>5 DEF Saving
  <2>7. \A ro \in Roles : ~SavedNow(ro) /\ ~SavedNow(ro)'
    BY <2>1 DEF SavedNow, FoldersDone
  <2>8. Remembered' /\ Quiet' /\ Resuming' /\ CoherentResume'
    BY <1>1, <1>3, <2>1, <2>7 DEF CheckpointInv, Remembered, Quiet, Resuming, CoherentResume
  <2> QED
    BY <1>2, <2>6, <2>8 DEF CheckpointInv
<1>7. CASE NextEpoch
  <2>1. /\ phase = "train" /\ phase' = "train" /\ UNCHANGED <<globalSteps, weights>>
        /\ loader'.drawn = loader.drawn
    BY <1>7 DEF NextEpoch
  <2>2. CoherentResume' /\ Saving'
    BY <1>1, <2>1 DEF CheckpointInv, CoherentResume, Saving
  <2>3. Remembered' /\ Quiet' /\ Resuming'
    BY <1>1, <1>3, <2>1 DEF CheckpointInv, Remembered, Quiet, Resuming, SavedNow
  <2> QED
    BY <1>2, <2>2, <2>3 DEF CheckpointInv
<1>8. CASE NextStep
  <2>1. phase = "step_done" /\ phase' = "train" /\ globalSteps' = globalSteps + 1 /\ UNCHANGED <<loader, weights>>
    BY <1>8 DEF NextStep
  <2>2. /\ \A ro \in Roles, r \in Ranks : weights[ro][r] = Current
        /\ loader.drawn = globalSteps /\ tracker # Torn
        /\ (tracker \in Steps => tracker <= globalSteps)
    BY <2>1 DEF CheckpointInv, Saving
  <2>3. Current \in Versions /\ Current.step = globalSteps
    BY DEF Current, Versions, TypeOK
  <2>4. CoherentResume'
    BY <1>4, <2>1, <2>2, <2>3 DEF CoherentResume
  <2>5. Saving'
    BY <1>1, <1>4, <2>1, <2>2 DEF Saving
  <2>6. \A ro \in Roles : ~SavedNow(ro) /\ ~SavedNow(ro)'
    BY <2>1 DEF SavedNow, FoldersDone
  <2>7. Remembered' /\ Quiet' /\ Resuming'
    BY <1>1, <1>3, <2>1, <2>6 DEF CheckpointInv, Remembered, Quiet, Resuming
  <2> QED
    BY <1>2, <2>4, <2>5, <2>7 DEF CheckpointInv
<1> QED
  BY <1>5, <1>6, <1>7, <1>8

\* Removing old directories.
LEMMA SafeRotate ==
    ASSUME TypeOK, Bounded, CheckpointInv, Rotate
    PROVE  CheckpointInv'
<1> USE DEF LoadPhases, SavePhases, LoadingPhases, TrainedPhases, EndPhases
<1> DEFINE old == saved[Role]
           k == KeepStart(Role)
<1>1. /\ phase \in SavePhases
      /\ UNCHANGED <<data, tracker, run, phase, globalSteps, loader, weights>>
      /\ Role \in Roles
  BY DEF Rotate, Bounded
<1>2. \A s \in Removed(Role) : s # globalSteps
  BY <1>1, RotationSpares
<1>3. \A ro \in Roles, s \in Steps, r \in Ranks :
         /\ shard'[ro][s][r] \in {Absent, shard[ro][s][r]}
         /\ s = globalSteps => shard'[ro][s][r] = shard[ro][s][r]
  BY <1>1, <1>2 DEF Rotate, TypeOK
<1>4. TrackerUnmixed'
  BY <1>1, <1>3 DEF CheckpointInv, TrackerUnmixed, Unmixed
<1>5. \A ro \in Roles, r \in Ranks : WrittenBy(ro, r)' => WrittenBy(ro, r)
  BY <1>1, RankAssumption DEF Rotate, WrittenBy, Role, TypeOK
<1>6. globalSteps \in Steps
  BY <1>1, CountAssumption DEF Bounded, TypeOK, Steps, MaxStep
<1>7. Saving'
  BY <1>1, <1>3, <1>5, <1>6 DEF CheckpointInv, Saving, Current
<1>8. Remembered'
  <2>1. /\ old \in Seq(Steps) /\ Len(old) \in Nat /\ \A i \in 1 .. Len(old) : old[i] \in Steps
    BY <1>1, LenProperties, ElementOfSeq DEF TypeOK
  <2>2. k \in 0 .. Len(old)
    <3>1. MaxKeep(Role) \in Nat
      BY CountAssumption DEF MaxKeep
    <3> QED
      BY <2>1, <3>1 DEF KeepStart
  <2> DEFINE new == SubSeq(old, k + 1, Len(old))
  <2>3. /\ Len(new) = Len(old) - k
        /\ \A i \in 1 .. Len(new) : new[i] = old[i + k]
    <3>1. \A i \in k + 1 .. Len(old) : old[i] \in Steps
      BY <2>1, <2>2
    <3>2. /\ Len(new) = IF k + 1 <= Len(old) THEN Len(old) - (k + 1) + 1 ELSE 0
          /\ \A i \in 1 .. Len(old) - (k + 1) + 1 : new[i] = old[k + 1 + i - 1]
      BY <2>1, <2>2, <3>1, SubSeqProperties
    <3> HIDE DEF new, old, k
    <3>3. Len(new) = Len(old) - k
      BY <2>1, <2>2, <3>2
    <3>4. ASSUME NEW i \in 1 .. Len(new) PROVE new[i] = old[i + k]
      <4>1. i \in 1 .. Len(old) - (k + 1) + 1 /\ k + 1 + i - 1 = i + k
        BY <2>1, <2>2, <3>3
      <4> QED
        BY <3>2, <4>1
    <3> QED
      BY <3>3, <3>4
  <2>4. \A ro \in Roles : saved'[ro] = IF ro = Role THEN new ELSE saved[ro]
    BY <1>1 DEF Rotate, TypeOK
  <2>5. ~SavedNow(Role) /\ \A ro \in Roles : SavedNow(ro)' <=> SavedNow(ro)
    BY <1>1 DEF SavedNow, FoldersDone, Role
  <2>6. \A i, j \in 1 .. Len(new) : i < j => new[i] < new[j]
    <3> SUFFICES ASSUME NEW i \in 1 .. Len(new), NEW j \in 1 .. Len(new), i < j
                 PROVE  new[i] < new[j]
      OBVIOUS
    <3>1. i + k \in 1 .. Len(old) /\ j + k \in 1 .. Len(old) /\ i + k < j + k
      <4> DEFINE lo == Len(old)
                 ln == Len(new)
      <4>1. lo \in Nat /\ k \in Nat /\ ln = lo - k
        BY <2>1, <2>2, <2>3
      <4>2. i \in 1 .. ln /\ j \in 1 .. ln
        OBVIOUS
      <4> HIDE DEF lo, ln, k
      <4>3. i + k \in 1 .. lo /\ j + k \in 1 .. lo /\ i + k < j + k
        BY <4>1, <4>2
      <4> QED
        BY <4>3 DEF lo
    <3>2. old[i + k] < old[j + k]
      BY <1>1, <3>1 DEF CheckpointInv, Remembered
    <3> QED
      BY <2>3, <3>2
  <2>7. Len(new) > 0 => new[Len(new)] = tracker
    <3> HIDE DEF new, old, k
    <3>1. Len(new) > 0 => new[Len(new)] = old[Len(old)] /\ Len(old) > 0
      <4> SUFFICES ASSUME Len(new) > 0
                   PROVE  new[Len(new)] = old[Len(old)] /\ Len(old) > 0
        OBVIOUS
      <4>1. Len(new) \in 1 .. Len(new) /\ Len(new) + k = Len(old)
        BY <2>1, <2>2, <2>3
      <4>2. new[Len(new)] = old[Len(new) + k]
        BY <2>3, <4>1
      <4> QED
        BY <2>1, <2>2, <4>1, <4>2
    <3>2. Len(old) > 0 => old[Len(old)] = tracker
      BY <1>1, <2>5 DEF CheckpointInv, Remembered, old
    <3> QED
      BY <3>1, <3>2
  <2> HIDE DEF new, old, k
  <2> QED
    BY <1>1, <2>4, <2>5, <2>6, <2>7 DEF CheckpointInv, Remembered
<1>9. Quiet' /\ Resuming' /\ CoherentResume'
  BY <1>1 DEF Quiet, Resuming, CoherentResume
<1> QED
  BY <1>4, <1>7, <1>8, <1>9 DEF CheckpointInv

\* The ranks writing their shards.
LEMMA SafeWriting ==
    ASSUME TypeOK, Bounded, CheckpointInv, NEW r \in Ranks,
           Prepare(r) \/ BeginWrite(r) \/ EndWrite(r)
    PROVE  CheckpointInv'
<1> USE DEF LoadPhases, SavePhases, LoadingPhases, TrainedPhases, EndPhases
<1>1. /\ phase \in SavePhases
      /\ UNCHANGED <<data, tracker, run, phase, globalSteps, loader, weights, saved>>
      /\ Role \in Roles
  BY DEF Prepare, BeginWrite, EndWrite, Bounded, disk
<1>2. globalSteps \in Steps /\ (tracker \in Steps => tracker # globalSteps)
  <2>1. globalSteps \in Steps
    BY <1>1, CountAssumption DEF Bounded, TypeOK, Steps, MaxStep
  <2>2. tracker \in Steps => tracker < globalSteps
    BY <1>1 DEF CheckpointInv, Saving
  <2> QED
    BY <2>1, <2>2, Constants DEF Steps
<1>3. \A ro \in Roles, s \in Steps, q \in Ranks :
         (ro # Role \/ s # globalSteps \/ q # r) => shard'[ro][s][q] = shard[ro][s][q]
  <2>1. CASE Prepare(r)
    BY <2>1 DEF Prepare, disk
  <2>2. CASE BeginWrite(r)
    BY <1>1, <1>2, <2>2, WriteFile DEF BeginWrite, TypeOK, FileStates
  <2>3. CASE EndWrite(r)
    <3>1. weights[Role][r] \in Versions
      BY <1>1 DEF TypeOK
    <3> QED
      BY <1>1, <1>2, <2>3, <3>1, WriteFile DEF EndWrite, TypeOK
  <2> QED
    BY <2>1, <2>2, <2>3
<1>4. EndWrite(r) => shard'[Role][globalSteps][r] = Current
  <2> SUFFICES ASSUME EndWrite(r) PROVE shard'[Role][globalSteps][r] = Current
    OBVIOUS
  <2>1. weights[Role][r] = Current /\ weights[Role][r] \in Versions
    BY <1>1 DEF CheckpointInv, Saving, TypeOK
  <2> QED
    BY <1>1, <1>2, <2>1, WriteFile DEF EndWrite, TypeOK
<1>5. TrackerUnmixed'
  BY <1>1, <1>2, <1>3 DEF CheckpointInv, TrackerUnmixed, Unmixed
<1>6. ASSUME NEW ro \in Roles, NEW q \in Ranks, WrittenBy(ro, q)'
      PROVE  shard'[ro][globalSteps][q] = Current
  <2>1. CASE ro = Role /\ q = r
    <3>1. rank'[r] = "written"
      BY <1>1, <1>6, <2>1 DEF WrittenBy, FoldersDone, Role
    <3>2. EndWrite(r)
      BY <3>1 DEF Prepare, BeginWrite, EndWrite, TypeOK
    <3> QED
      BY <1>4, <2>1, <3>2
  <2>2. CASE ~(ro = Role /\ q = r)
    <3>1. WrittenBy(ro, q)
      BY <1>1, <1>6, <2>2 DEF WrittenBy, Role, Prepare, BeginWrite, EndWrite, TypeOK
    <3>2. shard[ro][globalSteps][q] = Current
      BY <1>1, <3>1 DEF CheckpointInv, Saving
    <3> QED
      BY <1>2, <1>3, <2>2, <3>2
  <2> QED
    BY <2>1, <2>2
<1>7. Saving'
  BY <1>1, <1>6 DEF CheckpointInv, Saving, Current
<1>8. Remembered' /\ Quiet' /\ Resuming' /\ CoherentResume'
  BY <1>1 DEF CheckpointInv, Remembered, SavedNow, Quiet, Resuming, CoherentResume
<1> QED
  BY <1>5, <1>7, <1>8 DEF CheckpointInv

\* The end of a group's call: rank 0 remembers the new directory.
LEMMA SafeSaveDone ==
    ASSUME TypeOK, Bounded, CheckpointInv, SaveDone
    PROVE  CheckpointInv'
<1> USE DEF LoadPhases, SavePhases, LoadingPhases, TrainedPhases, EndPhases
<1> DEFINE old == saved[Role]
           new == Append(old, globalSteps)
<1>1. /\ phase \in SavePhases /\ phase' \in {"save_critic", "save_data"}
      /\ UNCHANGED <<shard, data, tracker, run, globalSteps, loader, weights>>
      /\ Role \in Roles
  BY DEF SaveDone, Bounded, disk
<1>2. TrackerUnmixed'
  BY <1>1 DEF CheckpointInv, TrackerUnmixed, Unmixed
<1>3. \A ro \in Roles, r \in Ranks : WrittenBy(ro, r)' => WrittenBy(ro, r)
  BY DEF SaveDone, WrittenBy, FoldersDone, Role, Roles, AllIdle
<1>4. Saving'
  BY <1>1, <1>3 DEF CheckpointInv, Saving, Current
<1>5. Quiet' /\ Resuming' /\ CoherentResume'
  BY <1>1 DEF SaveDone, Quiet, Resuming, CoherentResume
<1>6. globalSteps \in Steps /\ (tracker \in Steps => tracker < globalSteps)
  BY <1>1, CountAssumption DEF Bounded, TypeOK, Steps, MaxStep, CheckpointInv, Saving
<1>7. /\ old \in Seq(Steps) /\ Len(old) \in Nat /\ \A i \in 1 .. Len(old) : old[i] \in Steps
  BY <1>1, LenProperties, ElementOfSeq DEF TypeOK
<1>8. /\ Len(new) = Len(old) + 1 /\ new[Len(old) + 1] = globalSteps
      /\ \A i \in 1 .. Len(old) : new[i] = old[i]
  BY <1>6, <1>7, AppendProperties
<1>9. \A i \in 1 .. Len(old) : old[i] < globalSteps
  <2> SUFFICES ASSUME NEW i \in 1 .. Len(old) PROVE old[i] < globalSteps
    OBVIOUS
  <2>1. ~SavedNow(Role)
    BY <1>1 DEF SavedNow, FoldersDone, Role
  <2>2. old[Len(old)] = tracker /\ Len(old) \in 1 .. Len(old)
    BY <1>1, <1>7, <2>1 DEF CheckpointInv, Remembered
  <2>3. tracker \in Steps /\ tracker < globalSteps
    BY <1>6, <1>7, <2>2
  <2>4. i < Len(old) => old[i] < old[Len(old)]
    BY <1>1, <2>2 DEF CheckpointInv, Remembered
  <2>5. old[i] \in Nat /\ old[Len(old)] \in Nat /\ globalSteps \in Nat
    BY <1>6, <1>7, <2>2, Constants DEF Steps
  <2>6. CASE i = Len(old)
    BY <2>2, <2>3, <2>6
  <2>7. CASE i # Len(old)
    <3>1. i < Len(old)
      BY <1>7, <2>7
    <3> QED
      BY <2>2, <2>3, <2>4, <2>5, <3>1
  <2> QED
    BY <2>6, <2>7
<1>10. \A i, j \in 1 .. Len(new) : i < j => new[i] < new[j]
  <2> SUFFICES ASSUME NEW i \in 1 .. Len(new), NEW j \in 1 .. Len(new), i < j
               PROVE  new[i] < new[j]
    OBVIOUS
  <2>1. i \in 1 .. Len(old) /\ new[i] = old[i]
    BY <1>7, <1>8
  <2>2. CASE j = Len(old) + 1
    BY <1>8, <1>9, <2>1, <2>2
  <2>3. CASE j \in 1 .. Len(old)
    <3>1. old[i] < old[j]
      BY <1>1, <2>1, <2>3 DEF CheckpointInv, Remembered
    <3> QED
      BY <1>8, <2>1, <2>3, <3>1
  <2> QED
    BY <1>7, <1>8, <2>2, <2>3
<1>11. \A ro \in Roles : saved'[ro] = IF ro = Role THEN new ELSE saved[ro]
  BY <1>1 DEF SaveDone, TypeOK
<1>12. Len(new) > 0 /\ new[Len(new)] = globalSteps
  BY <1>7, <1>8
<1>13. \A ro \in Roles : SavedNow(ro)' <=> (ro = Role \/ SavedNow(ro))
  BY <1>1 DEF SaveDone, SavedNow, FoldersDone, Role, Roles
<1> HIDE DEF new, old
<1>14. Remembered'
  BY <1>1, <1>10, <1>11, <1>12, <1>13 DEF CheckpointInv, Remembered
<1> QED
  BY <1>2, <1>4, <1>5, <1>14 DEF CheckpointInv

\* The driver writing data.pt and the tracker.
LEMMA SafeCommit ==
    ASSUME TypeOK, Bounded, CheckpointInv,
           BeginData \/ EndData \/ OpenTracker \/ WriteTracker
    PROVE  CheckpointInv'
<1> USE DEF LoadPhases, SavePhases, LoadingPhases, TrainedPhases, EndPhases
<1>1. /\ phase \in FoldersDone
      /\ UNCHANGED <<shard, run, globalSteps, loader, weights, saved, rank>>
  BY DEF BeginData, EndData, OpenTracker, WriteTracker, FoldersDone, job
<1>2. globalSteps \in Steps /\ Current \in Versions /\ Current.step = globalSteps
  BY <1>1, CountAssumption DEF Bounded, TypeOK, Steps, MaxStep, FoldersDone, Current, Versions
<1>3. /\ tracker \in Steps => tracker < globalSteps
      /\ phase # "write_tracker" => tracker # Torn
      /\ loader.drawn = globalSteps
      /\ \A ro \in Roles, r \in Ranks : weights[ro][r] = Current /\ shard[ro][globalSteps][r] = Current
  BY <1>1 DEF CheckpointInv, Saving, FoldersDone, WrittenBy
<1>4. \A ro \in Roles : Len(saved[ro]) > 0 /\ saved[ro][Len(saved[ro])] = globalSteps
  BY <1>1 DEF CheckpointInv, Remembered, SavedNow, FoldersDone
<1>5. \A s \in Steps : s \in Nat
  BY Constants DEF Steps
<1>6. TrackerUnmixed'
  <2>1. CASE BeginData \/ EndData
    <3>1. tracker' = tracker /\ \A s \in Steps : s # globalSteps => data'[s] = data[s]
      BY <1>2, <2>1 DEF BeginData, EndData, TypeOK
    <3> QED
      BY <1>1, <1>3, <1>5, <3>1 DEF CheckpointInv, TrackerUnmixed, Unmixed
  <2>2. CASE OpenTracker
    BY <2>2, FileAssumption DEF OpenTracker, TrackerUnmixed
  <2>3. CASE WriteTracker
    <3>1. data[globalSteps] = loader
      BY <2>3 DEF WriteTracker, CheckpointInv, Saving
    <3> QED
      BY <1>1, <1>2, <1>3, <2>3, <3>1 DEF WriteTracker, TrackerUnmixed, Unmixed, TypeOK
  <2> QED
    BY <2>1, <2>2, <2>3
<1>7. CASE BeginData \/ EndData \/ OpenTracker
  <2>1. /\ phase' \in FoldersDone
        /\ tracker' \in Steps => tracker' < globalSteps
        /\ phase' # "write_tracker" => tracker' # Torn
    BY <1>3, <1>7, FileAssumption DEF BeginData, EndData, OpenTracker, FoldersDone
  <2>2. phase' \in {"open_tracker", "write_tracker"} => data'[globalSteps] = loader
    BY <1>2, <1>7 DEF BeginData, EndData, OpenTracker, TypeOK, CheckpointInv, Saving
  <2>3. Saving'
    BY <1>1, <1>3, <2>1, <2>2 DEF Saving, FoldersDone, Current
  <2>4. Remembered' /\ Quiet' /\ Resuming' /\ CoherentResume'
    BY <1>1, <1>4, <2>1 DEF CheckpointInv, Remembered, SavedNow, FoldersDone, Quiet, Resuming, CoherentResume
  <2> QED
    BY <1>6, <2>3, <2>4 DEF CheckpointInv
<1>8. CASE WriteTracker
  <2>1. phase' = "step_done" /\ tracker' = globalSteps /\ tracker' # Torn
    BY <1>2, <1>8, FileAssumption DEF WriteTracker
  <2>2. Saving'
    BY <1>1, <1>2, <1>3, <1>5, <2>1 DEF Saving, FoldersDone, Current, WrittenBy
  <2>3. \A ro \in Roles : ~SavedNow(ro)'
    BY <2>1 DEF SavedNow, FoldersDone
  <2>4. Remembered' /\ Quiet' /\ Resuming' /\ CoherentResume'
    BY <1>1, <1>4, <2>1, <2>3 DEF CheckpointInv, Remembered, FoldersDone, Quiet, Resuming, CoherentResume
  <2> QED
    BY <1>6, <2>2, <2>4 DEF CheckpointInv
<1> QED
  BY <1>7, <1>8

LEMMA SafeStep ==
    ASSUME AutoOnly
    PROVE  TypeOK /\ Bounded /\ CheckpointInv /\ [Next]_vars => CheckpointInv'
<1> SUFFICES ASSUME TypeOK, Bounded, CheckpointInv, [Next]_vars PROVE CheckpointInv'
  OBVIOUS
<1>1. CASE Start
  BY <1>1, SafeStart
<1>2. CASE Driver
  <2>1. CASE LoadFails \/ EpochsExhausted \/ Finish
    BY <2>1, SafeProcessEnds DEF LoadFails, EpochsExhausted, Finish, EndPhases
  <2> QED
    BY <1>2, <2>1, SafeLoading, SafeTraining, SafeRotate, SafeSaveDone, SafeCommit DEF Driver
<1>3. CASE \E r \in Ranks : RankStep(r)
  BY <1>3, SafeLoading, SafeWriting DEF RankStep
<1>4. CASE Crash
  BY <1>4, SafeProcessEnds DEF Crash, EndPhases
<1>5. CASE UNCHANGED vars
  BY <1>5 DEF vars, disk, job, CheckpointInv, TrackerUnmixed, Unmixed, CoherentResume, Quiet, Resuming,
              Uniform, LoadedBy, Saving, WrittenBy, Remembered, SavedNow, Current, Role
<1> QED
  BY <1>1, <1>2, <1>3, <1>4, <1>5 DEF Next

\* The files of a committed step change only when rotation removes them.
LEMMA SoundStep ==
    ASSUME KeepsTwo
    PROVE  TypeOK /\ Bounded /\ CheckpointInv /\ TrackerSound /\ [Next]_vars => TrackerSound'
<1> SUFFICES ASSUME TypeOK, Bounded, CheckpointInv, TrackerSound, [Next]_vars PROVE TrackerSound'
  OBVIOUS
<1> USE DEF LoadPhases, SavePhases, LoadingPhases, TrainedPhases
<1>1. CASE UNCHANGED disk
  BY <1>1 DEF disk, TrackerSound, Sound
<1>2. ASSUME UNCHANGED <<data, tracker>>,
             \A ro \in Roles, r \in Ranks :
                tracker \in Steps => shard'[ro][tracker][r] = shard[ro][tracker][r]
      PROVE  TrackerSound'
  BY <1>2 DEF TrackerSound, Sound
<1>3. CASE Rotate
  <2>1. phase \in SavePhases /\ Role \in Roles /\ UNCHANGED <<data, tracker>>
    BY <1>3 DEF Rotate, Bounded
  <2>2. \A ro \in Roles, s \in Steps, r \in Ranks : s = tracker => shard'[ro][s][r] = shard[ro][s][r]
    BY <1>3, <2>1, RotationSpares DEF Rotate, TypeOK
  <2> QED
    BY <1>2, <2>1, <2>2
<1>4. ASSUME NEW r \in Ranks, BeginWrite(r) \/ EndWrite(r) PROVE TrackerSound'
  <2>1. phase \in SavePhases /\ Role \in Roles /\ UNCHANGED <<data, tracker>>
    BY <1>4 DEF BeginWrite, EndWrite, Bounded
  <2>2. globalSteps \in Steps
    BY <2>1, CountAssumption DEF Bounded, TypeOK, Steps, MaxStep
  <2>3. tracker \in Steps => tracker # globalSteps
    <3>1. tracker \in Steps => tracker < globalSteps
      BY <2>1 DEF CheckpointInv, Saving
    <3> QED
      BY <2>2, <3>1, Constants DEF Steps
  <2>4. \E v \in FileStates \union Versions : shard' = [shard EXCEPT ![Role][globalSteps][r] = v]
    <3>1. weights[Role][r] \in Versions
      BY <2>1 DEF TypeOK
    <3>2. CASE BeginWrite(r)
      BY <3>2 DEF BeginWrite, FileStates
    <3>3. CASE EndWrite(r)
      BY <3>1, <3>3 DEF EndWrite
    <3> QED
      BY <1>4, <3>2, <3>3
  <2>5. \A ro \in Roles, s \in Steps, q \in Ranks :
           s # globalSteps => shard'[ro][s][q] = shard[ro][s][q]
    BY <2>1, <2>2, <2>4, WriteFile DEF TypeOK
  <2> QED
    BY <1>2, <2>1, <2>3, <2>5
<1>5. CASE BeginData \/ EndData \/ OpenTracker \/ WriteTracker
  <2>1. phase \in FoldersDone /\ UNCHANGED shard
    BY <1>5 DEF BeginData, EndData, OpenTracker, WriteTracker, FoldersDone, job
  <2>2. globalSteps \in Steps /\ Current \in Versions /\ Current.step = globalSteps
    BY <2>1, CountAssumption DEF Bounded, TypeOK, Steps, MaxStep, FoldersDone, Current, Versions
  <2>3. CASE BeginData \/ EndData
    <3>1. tracker' = tracker /\ \A s \in Steps : s # globalSteps => data'[s] = data[s]
      BY <2>2, <2>3 DEF BeginData, EndData, TypeOK
    <3>2. tracker \in Steps => tracker < globalSteps
      BY <2>1 DEF CheckpointInv, Saving, FoldersDone
    <3> QED
      BY <2>1, <2>2, <3>1, <3>2, Constants DEF TrackerSound, Sound, Steps
  <2>4. CASE OpenTracker
    BY <2>4, FileAssumption DEF OpenTracker, TrackerSound
  <2>5. CASE WriteTracker
    <3>1. /\ tracker' = globalSteps /\ data' = data /\ data[globalSteps] = loader
          /\ loader.drawn = globalSteps
      BY <2>5 DEF WriteTracker, CheckpointInv, Saving
    <3>2. \A ro \in Roles, r \in Ranks : shard[ro][globalSteps][r] = Current
      BY <2>1 DEF CheckpointInv, Saving, WrittenBy, FoldersDone
    <3> QED
      BY <2>1, <2>2, <3>1, <3>2 DEF TrackerSound, Sound, TypeOK
  <2> QED
    BY <1>5, <2>3, <2>4, <2>5
<1>6. CASE Start
  BY <1>1, <1>6 DEF Start, StartFromScratch, StartFromTracker, StartFromPath, StartFails, ResumeFrom
<1>7. CASE LoadFails \/ LoadDone \/ LoadLoader \/ EpochsExhausted \/ Finish \/ Crash \/ SaveDone
  BY <1>1, <1>7 DEF LoadFails, LoadDone, LoadLoader, EpochsExhausted, Finish, Crash, ProcessEnds, SaveDone, disk
<1>8. CASE BeginTraining \/ TrainStep \/ NextEpoch \/ NextStep
  BY <1>1, <1>8 DEF BeginTraining, TrainStep, NextEpoch, NextStep
<1>9. CASE \E r \in Ranks : LoadShard(r) \/ Prepare(r)
  BY <1>1, <1>9 DEF LoadShard, Prepare
<1>10. CASE UNCHANGED vars
  BY <1>1, <1>10 DEF vars
<1> QED
  BY <1>3, <1>4, <1>5, <1>6, <1>7, <1>8, <1>9, <1>10 DEF Next, Driver, RankStep

\* In resume_mode auto, with at least two checkpoints kept (or all of them), a
\* kill at any point of training, rotation or saving leaves a tracker whose step,
\* if it can be read, names a complete checkpoint written by one run.
THEOREM Resumable ==
    ASSUME AutoOnly, KeepsTwo
    PROVE  Spec => []TrackerSound
<1>1. Init => CheckpointInv /\ TrackerSound
  BY SafeInit, FileAssumption DEF Init, TrackerSound
<1>2. TypeOK /\ Bounded /\ CheckpointInv /\ [Next]_vars => CheckpointInv'
  BY SafeStep
<1>3. TypeOK /\ Bounded /\ CheckpointInv /\ TrackerSound /\ [Next]_vars => TrackerSound'
  BY SoundStep
<1> QED
  BY <1>1, <1>2, <1>3, TypeCorrect, PTL DEF Spec

\* In resume_mode auto, whatever the retention limits and wherever the job is
\* killed, every step that is ever trained starts from weights and a dataloader
\* that agree: a checkpoint that is incomplete is never resumed from.
THEOREM Coherent ==
    ASSUME AutoOnly
    PROVE  Spec => []CoherentResume
<1>1. Init => CheckpointInv
  BY SafeInit
<1>2. TypeOK /\ Bounded /\ CheckpointInv /\ [Next]_vars => CheckpointInv'
  BY SafeStep
<1>3. CheckpointInv => CoherentResume
  BY DEF CheckpointInv
<1> QED
  BY <1>1, <1>2, <1>3, TypeCorrect, PTL DEF Spec

--------------------------------------------------------------------------------
(* The trainer implements DurableTraining *)

\* The one window in which a kill leaves a tracker nobody can read.
NeverKilledInTracker == "write_tracker" \notin CrashAt

TornWindow == tracker = Torn <=> phase = "write_tracker"

LEMMA TornWindowStep ==
    ASSUME NeverKilledInTracker, TypeOK, Bounded, CheckpointInv, TornWindow, [Next]_vars
    PROVE  TornWindow'
<1> USE DEF TornWindow
<1>1. CASE Start
  BY <1>1 DEF Start, StartFromScratch, StartFromTracker, StartFromPath, StartFails, ResumeFrom,
              NewRun, EndPhases, disk
<1>2. CASE WriteTracker
  BY <1>2, FileAssumption, CountAssumption
     DEF WriteTracker, Bounded, TypeOK, TrainedPhases, Steps, MaxStep
<1>3. CASE OpenTracker
  BY <1>3 DEF OpenTracker
<1>4. CASE Driver /\ ~WriteTracker /\ ~OpenTracker
  <2>1. CASE LoadFails \/ EpochsExhausted \/ Finish
    BY <2>1 DEF LoadFails, EpochsExhausted, Finish, ProcessEnds, LoadPhases, disk
  <2>2. CASE LoadDone \/ LoadLoader \/ BeginTraining \/ TrainStep \/ NextEpoch \/ NextStep
    BY <2>2 DEF LoadDone, LoadLoader, BeginTraining, TrainStep, NextEpoch, NextStep, LoadPhases, disk
  <2>3. CASE Rotate \/ SaveDone \/ BeginData \/ EndData
    BY <2>3 DEF Rotate, SaveDone, BeginData, EndData, SavePhases, disk
  <2> QED
    BY <1>4, <2>1, <2>2, <2>3 DEF Driver
<1>5. CASE \E r \in Ranks : RankStep(r)
  BY <1>5 DEF RankStep, LoadShard, Prepare, BeginWrite, EndWrite, disk
<1>6. CASE Crash
  BY <1>6 DEF Crash, ProcessEnds, NeverKilledInTracker, disk
<1>7. CASE UNCHANGED vars
  BY <1>7 DEF vars, disk
<1> QED
  BY <1>1, <1>2, <1>3, <1>4, <1>5, <1>6, <1>7 DEF Next

\* What the refinement mapping is, phase by phase.
MappingFacts ==
    /\ Running <=> phase \in {"train"} \union TrainedPhases
    /\ phase = "train" => Done = globalSteps - 1
    /\ phase \in TrainedPhases => Done = globalSteps
    /\ ~Running => Done = 0
    /\ tracker \in Steps => Committed = tracker
    /\ tracker \notin Steps => Committed = IF phase = "write_tracker" THEN globalSteps ELSE 0

LEMMA Mapping == TypeOK /\ Bounded /\ CheckpointInv => MappingFacts
<1> SUFFICES ASSUME TypeOK, Bounded, CheckpointInv PROVE MappingFacts
  OBVIOUS
<1>1. Running <=> phase \in {"train"} \union TrainedPhases
  BY DEF Running, TypeOK, UpPhases, EndPhases, LoadPhases, SavePhases, TrainedPhases
<1>2. phase = "train" => Done = globalSteps - 1
  BY <1>1, Constants, RankAssumption DEF Done, CheckpointInv, CoherentResume
<1>3. phase \in TrainedPhases => Done = globalSteps
  BY <1>1, Constants, RankAssumption DEF Done, CheckpointInv, Saving, Current
<1> QED
  BY <1>1, <1>2, <1>3 DEF MappingFacts, Done, Committed

LEMMA RefinementInit == Init => Durable!Init
BY FileAssumption DEF Init, Durable!Init, Running, Done, Committed, UpPhases, LoadPhases, SavePhases

LEMMA RefinementStep ==
    ASSUME NeverKilledInTracker, TypeOK, Bounded, CheckpointInv, TornWindow,
           TypeOK', Bounded', CheckpointInv', [Next]_vars
    PROVE  [Durable!Next]_(Durable!vars)
<1> USE DEF LoadPhases, SavePhases, TrainedPhases, EndPhases, MappingFacts
<1> DEFINE Up == phase \in {"train"} \union TrainedPhases
<1>0. /\ globalSteps \in Nat /\ \A s \in Steps : s \in Nat
      /\ Running \in BOOLEAN /\ Running' \in BOOLEAN
  BY Constants DEF TypeOK, Steps, Running
<1>m. MappingFacts
  BY Mapping
<1>n. MappingFacts'
  BY Mapping, PTL
<1>t. tracker = Torn <=> phase = "write_tracker"
  BY DEF TornWindow
\* Steps outside training, and those inside it that neither train nor commit.
<1>1. ASSUME ~Up, ~Up', UNCHANGED tracker, phase # "write_tracker", phase' # "write_tracker"
      PROVE  UNCHANGED <<Running, Done, Committed>>
  BY <1>0, <1>m, <1>n, <1>1
<1>2. ASSUME Up, Up', UNCHANGED <<tracker, globalSteps>>,
             phase = "train" <=> phase' = "train",
             phase = "write_tracker" <=> phase' = "write_tracker"
      PROVE  UNCHANGED <<Running, Done, Committed>>
  BY <1>0, <1>m, <1>n, <1>2
\* Leaving.
<1>3. ASSUME phase' \in EndPhases, UNCHANGED tracker, phase # "write_tracker"
      PROVE  Durable!Stop \/ UNCHANGED <<Running, Done, Committed>>
  <2>1. ~Up' /\ phase' # "write_tracker"
    BY <1>3
  <2>2. UNCHANGED Committed
    BY <1>3, <1>m, <1>n, <2>1
  <2> QED
    BY <1>0, <1>m, <1>n, <2>1, <2>2 DEF Durable!Stop
<1>4. CASE Start
  BY <1>1, <1>4 DEF Start, StartFromScratch, StartFromTracker, StartFromPath, StartFails, ResumeFrom,
         NewRun, disk, Durable!vars
<1>5. CASE LoadFails \/ EpochsExhausted \/ Finish \/ Crash
  <2>1. phase' \in EndPhases /\ UNCHANGED tracker /\ phase # "write_tracker"
    BY <1>5 DEF LoadFails, EpochsExhausted, Finish, Crash, ProcessEnds, disk, NeverKilledInTracker
  <2> QED
    BY <1>3, <2>1 DEF Durable!Next, Durable!vars
<1>6. CASE LoadDone \/ LoadLoader \/ \E r \in Ranks : LoadShard(r)
  BY <1>1, <1>6 DEF LoadDone, LoadLoader, LoadShard, disk, Durable!vars
<1>7. CASE BeginTraining
  <2>1. /\ phase = "ready" /\ phase' = "train" /\ globalSteps' = globalSteps + 1
        /\ UNCHANGED tracker
    BY <1>7 DEF BeginTraining, disk
  <2>2. globalSteps = Committed
    <3>1. /\ tracker \notin Steps => globalSteps = 0
          /\ tracker \in Steps => globalSteps = tracker
      BY <2>1 DEF CheckpointInv, Resuming
    <3> QED
      BY <1>m, <2>1, <3>1
  <2> QED
    BY <1>0, <1>m, <1>n, <2>1, <2>2 DEF Durable!Next, Durable!Resume
<1>8. CASE TrainStep
  <2>1. /\ phase = "train" /\ phase' \in {"save_actor", "step_done"}
        /\ UNCHANGED <<tracker, globalSteps>>
    BY <1>8 DEF TrainStep, disk
  <2>2. Running /\ Running' /\ Done = globalSteps - 1 /\ Done' = globalSteps
    BY <1>m, <1>n, <2>1
  <2>3. UNCHANGED Committed
    BY <1>m, <1>n, <2>1
  <2> QED
    BY <1>0, <2>2, <2>3 DEF Durable!Next, Durable!Train
<1>9. CASE NextStep
  <2>1. /\ phase = "step_done" /\ phase' = "train" /\ globalSteps' = globalSteps + 1
        /\ UNCHANGED tracker
    BY <1>9 DEF NextStep, disk
  <2> QED
    BY <1>0, <1>m, <1>n, <2>1 DEF Durable!vars
<1>10. CASE NextEpoch \/ Rotate \/ SaveDone \/ BeginData \/ EndData
  BY <1>2, <1>10 DEF NextEpoch, Rotate, SaveDone, BeginData, EndData, disk, job, Durable!vars
<1>11. CASE \E r \in Ranks : Prepare(r) \/ BeginWrite(r) \/ EndWrite(r)
  BY <1>2, <1>11 DEF Prepare, BeginWrite, EndWrite, disk, Durable!vars
<1>12. CASE OpenTracker
  <2>1. /\ phase = "open_tracker" /\ phase' = "write_tracker" /\ tracker' \notin Steps
        /\ UNCHANGED globalSteps
    BY <1>12, FileAssumption DEF OpenTracker, job
  <2>2. Committed < globalSteps
    <3>1. tracker \in Steps => tracker < globalSteps
      BY <2>1 DEF CheckpointInv, Saving
    <3>2. globalSteps > 0
      BY <2>1, CountAssumption DEF Bounded, TypeOK
    <3> QED
      BY <1>0, <1>m, <2>1, <3>1, <3>2
  <2> QED
    BY <1>0, <1>m, <1>n, <2>1, <2>2 DEF Durable!Next, Durable!Commit
<1>13. CASE WriteTracker
  <2>1. /\ phase = "write_tracker" /\ phase' = "step_done" /\ tracker' = globalSteps
        /\ globalSteps' = globalSteps
    BY <1>13 DEF WriteTracker, job
  <2>2. globalSteps \in Steps
    BY <2>1, CountAssumption DEF Bounded, TypeOK, Steps, MaxStep
  <2>3. tracker \notin Steps
    BY <1>t, <2>1, FileAssumption
  <2> QED
    BY <1>0, <1>m, <1>n, <2>1, <2>2, <2>3 DEF Durable!vars
<1>14. CASE UNCHANGED vars
  BY <1>14 DEF vars, disk, job, Running, Done, Committed, Durable!vars
<1> QED
  BY <1>4, <1>5, <1>6, <1>7, <1>8, <1>9, <1>10, <1>11, <1>12, <1>13, <1>14
     DEF Next, Driver, RankStep

\* Every behaviour of the trainer in resume_mode auto, with any retention limits,
\* that is never killed between truncating the tracker and writing it, is one of
\* DurableTraining: each run goes on from exactly the step committed last, and
\* commits only ever move to a later step that has been trained.
THEOREM Refinement ==
    ASSUME AutoOnly, NeverKilledInTracker
    PROVE  Spec => ImplementsDurableTraining
<1>1. Init => Durable!Init
  BY RefinementInit
<1>2. Init => CheckpointInv /\ TornWindow
  BY SafeInit, FileAssumption DEF Init, TornWindow
<1>3. TypeOK /\ Bounded /\ CheckpointInv /\ [Next]_vars => CheckpointInv'
  BY SafeStep
<1>4. TypeOK /\ Bounded /\ CheckpointInv /\ TornWindow /\ [Next]_vars => TornWindow'
  BY TornWindowStep
<1>5. /\ TypeOK /\ Bounded /\ CheckpointInv /\ TornWindow
      /\ TypeOK' /\ Bounded' /\ CheckpointInv' /\ [Next]_vars
      => [Durable!Next]_(Durable!vars)
  BY RefinementStep
<1> QED
  BY <1>1, <1>2, <1>3, <1>4, <1>5, TypeCorrect, PTL
     DEF Spec, ImplementsDurableTraining, Durable!Spec

--------------------------------------------------------------------------------
(* How much training a kill can lose *)

LEMMA Remainder ==
    ASSUME NEW n \in Nat \ {0}, NEW g \in Nat \ {0}
    PROVE  /\ g % n \in 0 .. (n - 1) /\ (g - 1) % n \in 0 .. (n - 1)
           /\ g % n # 0 => g % n = ((g - 1) % n) + 1
<1> DEFINE a == g % n
           b == (g - 1) % n
           c == g \div n
           d == (g - 1) \div n
<1>1. a \in 0 .. (n - 1) /\ b \in 0 .. (n - 1) /\ c \in Nat /\ d \in Nat
  OBVIOUS
<1>2. g = n * c + a /\ g - 1 = n * d + b
  OBVIOUS
<1> HIDE DEF a, b, c, d
<1>3. n * c + a = n * d + b + 1
  BY <1>1, <1>2
<1>4. n * (c - d) = b + 1 - a
  BY <1>1, <1>3
<1>5. ASSUME a # 0 PROVE c = d
  <2>1. -n < b + 1 - a /\ b + 1 - a < n
    BY <1>1, <1>5
  <2>2. CASE c - d >= 1
    <3>1. n * (c - d) >= n
      BY <1>1, <2>2
    <3> QED
      BY <1>1, <1>4, <2>1, <3>1
  <2>3. CASE d - c >= 1
    <3>1. n * (d - c) >= n
      BY <1>1, <2>3
    <3>2. n * (d - c) = a - b - 1
      BY <1>1, <1>4
    <3> QED
      BY <1>1, <2>1, <3>1, <3>2
  <2> QED
    BY <1>1, <2>2, <2>3
<1>6. a # 0 => a = b + 1
  BY <1>1, <1>4, <1>5
<1> QED
  BY <1>1, <1>6 DEF a, b

\* The steps trained since the last commit are no more than those since the last
\* multiple of save_freq.
SinceMultiple ==
    SaveFreq > 0 =>
        /\ phase = "train" => globalSteps - 1 - Committed <= (globalSteps - 1) % SaveFreq
        /\ phase = "step_done" => globalSteps - Committed <= globalSteps % SaveFreq

LEMMA SinceMultipleStep ==
    ASSUME TypeOK, Bounded, CheckpointInv, SinceMultiple, [Next]_vars
    PROVE  SinceMultiple'
<1> USE DEF LoadPhases, SavePhases, TrainedPhases, EndPhases
<1>0. /\ globalSteps \in Nat /\ SaveFreq \in Nat /\ \A s \in Steps : s \in Nat
      /\ MappingFacts
  BY Constants, CountAssumption, Mapping DEF TypeOK, Steps
<1>1. Committed \in Nat
  BY <1>0 DEF Committed
<1>2. ASSUME phase' \notin {"train", "step_done"} PROVE SinceMultiple'
  BY <1>2 DEF SinceMultiple
<1>3. CASE BeginTraining
  <2>1. /\ phase = "ready" /\ phase' = "train" /\ globalSteps' = globalSteps + 1
        /\ tracker' = tracker
    BY <1>3 DEF BeginTraining, disk
  <2>2. Committed' = globalSteps
    <3>1. /\ tracker \notin Steps => globalSteps = 0
          /\ tracker \in Steps => globalSteps = tracker
      BY <2>1 DEF CheckpointInv, Resuming
    <3> QED
      BY <2>1, <3>1 DEF Committed
  <2>3. ASSUME SaveFreq > 0 PROVE globalSteps % SaveFreq \in Nat
    <3>1. (globalSteps + 1 - 1) % SaveFreq \in 0 .. (SaveFreq - 1)
      BY <1>0, <2>3, Remainder
    <3> QED
      BY <1>0, <2>3, <3>1
  <2> QED
    BY <1>0, <2>1, <2>2, <2>3 DEF SinceMultiple
<1>4. CASE TrainStep
  <2>1. /\ phase = "train" /\ globalSteps' = globalSteps /\ tracker' = tracker
        /\ phase' = IF SavesNow THEN "save_actor" ELSE "step_done"
    BY <1>4 DEF TrainStep, disk
  <2>2. globalSteps > 0
    BY <1>0, <2>1 DEF Bounded
  <2>3. Committed' = Committed
    BY <2>1 DEF Committed
  <2>4. ASSUME SaveFreq > 0, phase' = "step_done"
        PROVE  globalSteps % SaveFreq = ((globalSteps - 1) % SaveFreq) + 1
    <3>1. globalSteps % SaveFreq # 0
      BY <2>1, <2>4 DEF SavesNow
    <3>2. globalSteps \in Nat \ {0} /\ SaveFreq \in Nat \ {0}
      BY <1>0, <2>2, <2>4
    <3> QED
      BY <3>1, <3>2, Remainder
  <2>5. ASSUME SaveFreq > 0 PROVE (globalSteps - 1) % SaveFreq \in Nat
    BY <1>0, <2>2, <2>5, Remainder
  <2> QED
    BY <1>0, <1>1, <2>1, <2>3, <2>4, <2>5 DEF SinceMultiple
<1>5. CASE NextEpoch
  BY <1>5 DEF NextEpoch, disk, Committed, SinceMultiple
<1>6. CASE NextStep
  <2>1. /\ phase = "step_done" /\ phase' = "train" /\ globalSteps' = globalSteps + 1
        /\ tracker' = tracker
    BY <1>6 DEF NextStep, disk
  <2>2. Committed' = Committed /\ globalSteps' - 1 = globalSteps
    BY <1>0, <2>1 DEF Committed
  <2> QED
    BY <2>1, <2>2 DEF SinceMultiple
<1>7. CASE WriteTracker
  <2>1. phase' = "step_done" /\ tracker' = globalSteps /\ globalSteps' = globalSteps
        /\ phase = "write_tracker"
    BY <1>7 DEF WriteTracker, job
  <2>2. globalSteps \in Steps /\ globalSteps > 0
    BY <1>0, <2>1, CountAssumption DEF Bounded, TypeOK, Steps, MaxStep
  <2>3. Committed' = globalSteps
    BY <2>1, <2>2 DEF Committed
  <2>4. ASSUME SaveFreq > 0 PROVE globalSteps % SaveFreq \in Nat
    BY <1>0, <2>2, <2>4, Remainder
  <2> QED
    BY <1>0, <2>1, <2>3, <2>4 DEF SinceMultiple
<1>8. CASE Start
  BY <1>2, <1>8 DEF Start, StartFromScratch, StartFromTracker, StartFromPath, StartFails, ResumeFrom
<1>9. CASE LoadFails \/ EpochsExhausted \/ Finish \/ Crash
  BY <1>2, <1>9 DEF LoadFails, EpochsExhausted, Finish, Crash, ProcessEnds
<1>10. CASE LoadDone \/ LoadLoader \/ Rotate \/ SaveDone \/ BeginData \/ EndData \/ OpenTracker
  BY <1>2, <1>10 DEF LoadDone, LoadLoader, Rotate, SaveDone, BeginData, EndData, OpenTracker
<1>11. CASE \E r \in Ranks : RankStep(r)
  BY <1>2, <1>11 DEF RankStep, LoadShard, Prepare, BeginWrite, EndWrite
<1>12. CASE UNCHANGED vars
  BY <1>12 DEF vars, disk, job, Committed, SinceMultiple
<1> QED
  BY <1>3, <1>4, <1>5, <1>6, <1>7, <1>8, <1>9, <1>10, <1>11, <1>12 DEF Next, Driver

\* In resume_mode auto, wherever the job is killed and however it rotates, a step
\* never starts with save_freq steps or more that a kill would lose.
THEOREM BoundedLoss ==
    ASSUME AutoOnly
    PROVE  Spec => []LossBounded
<1>1. Init => CheckpointInv /\ SinceMultiple
  BY SafeInit DEF Init, SinceMultiple
<1>2. TypeOK /\ Bounded /\ CheckpointInv /\ [Next]_vars => CheckpointInv'
  BY SafeStep
<1>3. TypeOK /\ Bounded /\ CheckpointInv /\ SinceMultiple /\ [Next]_vars => SinceMultiple'
  BY SinceMultipleStep
<1>4. TypeOK /\ Bounded /\ CheckpointInv /\ SinceMultiple => LossBounded
  <2> SUFFICES ASSUME TypeOK, Bounded, CheckpointInv, SinceMultiple, phase = "train", SaveFreq > 0
               PROVE  globalSteps - 1 - Committed < SaveFreq
    BY DEF LossBounded
  <2>1. globalSteps \in Nat \ {0} /\ SaveFreq \in Nat /\ \A s \in Steps : s \in Nat
    BY CountAssumption, Constants DEF TypeOK, Bounded, Steps
  <2>2. Committed \in Nat
    BY <2>1 DEF Committed
  <2>3. (globalSteps - 1) % SaveFreq \in 0 .. (SaveFreq - 1)
    BY <2>1, Remainder
  <2> QED
    BY <2>1, <2>2, <2>3 DEF SinceMultiple
<1> QED
  BY <1>1, <1>2, <1>3, <1>4, TypeCorrect, PTL DEF Spec

--------------------------------------------------------------------------------
(* How many directories a run leaves behind *)

Mine(ro) == {s \in Steps : \E r \in Ranks :
                /\ shard[ro][s][r] \in Versions
                /\ shard[ro][s][r].run = run}

Remembers(ro) == {saved[ro][i] : i \in 1 .. Len(saved[ro])}

\* Rank 0 has rotated the group's folders and the ranks are writing the new one.
Rotated(ro) == phase \in SavePhases /\ ro = Role /\ rank[Rank0] # "idle"

\* What the run has written is what rank 0 remembers, and the folder being
\* written, for which rotation made room.
Listed == \A ro \in Roles :
    /\ Mine(ro) \subseteq Remembers(ro) \union (IF Rotated(ro) THEN {globalSteps} ELSE {})
    /\ MaxKeep(ro) > 0 => Len(saved[ro]) <= MaxKeep(ro) - (IF Rotated(ro) THEN 1 ELSE 0)

\* Nothing is of a run to come, and no rank writes before rank 0 has rotated.
Retention ==
    /\ RetainedByRun
    /\ \A ro \in Roles, r \in Ranks :
          /\ weights[ro][r].run <= run
          /\ \A s \in Steps : shard[ro][s][r] \in Versions => shard[ro][s][r].run <= run
    /\ phase \in SavePhases =>
          \A r \in Ranks : rank[r] \in {"writing", "written"} => rank[Rank0] # "idle"
    /\ phase \in LoadingPhases \union {"ready"} =>
          \A ro \in Roles : Mine(ro) = {} /\ Len(saved[ro]) = 0
    /\ phase \in {"train"} \union TrainedPhases => Listed
    /\ phase \in EndPhases => \A ro \in Roles : Len(saved[ro]) = 0
    /\ phase \notin LoadPhases \union SavePhases => rank = AllIdle

LEMMA CountRemembered ==
    ASSUME NEW q \in Seq(Steps), NEW x, NEW T
    PROVE  /\ T \subseteq {q[i] : i \in 1 .. Len(q)} => Cardinality(T) <= Len(q)
           /\ T \subseteq {q[i] : i \in 1 .. Len(q)} \union {x} => Cardinality(T) <= Len(q) + 1
<1> DEFINE R == {q[i] : i \in 1 .. Len(q)}
           f == [i \in 1 .. Len(q) |-> q[i]]
<1>1. Len(q) \in Nat
  BY LenProperties
<1>2. IsFiniteSet(1 .. Len(q)) /\ Cardinality(1 .. Len(q)) = Len(q)
  BY <1>1, FS_Interval
<1>3. f \in Surjection(1 .. Len(q), R)
  BY DEF Surjection
<1>4. IsFiniteSet(R) /\ Cardinality(R) <= Len(q)
  BY <1>2, <1>3, FS_Surjection
<1>5. IsFiniteSet(R \union {x}) /\ Cardinality(R \union {x}) <= Len(q) + 1
  <2>1. Cardinality(R) \in Nat
    BY <1>4, FS_CardinalityType
  <2> HIDE DEF R
  <2>2. /\ IsFiniteSet(R \union {x})
        /\ Cardinality(R \union {x}) = IF x \in R THEN Cardinality(R) ELSE Cardinality(R) + 1
    BY <1>4, FS_AddElement
  <2> QED
    BY <1>1, <1>4, <2>1, <2>2
<1>6. ASSUME NEW S, IsFiniteSet(S), T \subseteq S
      PROVE  Cardinality(T) <= Cardinality(S) /\ Cardinality(T) \in Nat /\ Cardinality(S) \in Nat
  <2>1. IsFiniteSet(T) /\ Cardinality(T) <= Cardinality(S)
    BY <1>6, FS_Subset
  <2> QED
    BY <1>6, <2>1, FS_CardinalityType
<1> HIDE DEF R, f
<1>7. T \subseteq R => Cardinality(T) <= Len(q)
  BY <1>1, <1>4, <1>6
<1>8. T \subseteq R \union {x} => Cardinality(T) <= Len(q) + 1
  BY <1>1, <1>5, <1>6
<1> QED
  BY <1>7, <1>8 DEF R

\* The bound on the list bounds the directories.
LEMMA ListedIsRetained == TypeOK /\ Listed => RetainedByRun
<1> SUFFICES ASSUME TypeOK, Listed, NEW ro \in Roles, MaxKeep(ro) > 0
             PROVE  Cardinality(Mine(ro)) <= MaxKeep(ro)
  BY DEF RetainedByRun, Mine
<1>1. saved[ro] \in Seq(Steps) /\ Len(saved[ro]) \in Nat /\ MaxKeep(ro) \in Nat
  BY CountAssumption, LenProperties DEF TypeOK, MaxKeep
<1>2. Cardinality(Mine(ro)) \in Nat
  <2>1. IsFiniteSet(Steps)
    BY Constants, FS_Interval DEF Steps
  <2>2. Mine(ro) \subseteq Steps
    BY DEF Mine
  <2> QED
    BY <2>1, <2>2, FS_Subset, FS_CardinalityType
<1>3. CASE Rotated(ro)
  <2>1. Mine(ro) \subseteq Remembers(ro) \union {globalSteps} /\ Len(saved[ro]) <= MaxKeep(ro) - 1
    BY <1>3 DEF Listed
  <2>2. Cardinality(Mine(ro)) <= Len(saved[ro]) + 1
    BY <1>1, <2>1, CountRemembered DEF Remembers
  <2> QED
    BY <1>1, <1>2, <2>1, <2>2
<1>4. CASE ~Rotated(ro)
  <2>1. Mine(ro) \subseteq Remembers(ro) /\ Len(saved[ro]) <= MaxKeep(ro)
    BY <1>1, <1>4 DEF Listed
  <2>2. Cardinality(Mine(ro)) <= Len(saved[ro])
    BY <1>1, <2>1, CountRemembered DEF Remembers
  <2> QED
    BY <1>1, <1>2, <2>1, <2>2
<1> QED
  BY <1>3, <1>4

\* Steps between calls leave the folders and the list alone.
LEMMA RetentionOutsideSaving ==
    ASSUME TypeOK, Bounded, Retention, UNCHANGED <<shard, run, saved>>,
           \A ro \in Roles, r \in Ranks : weights'[ro][r].run <= run,
           phase' \in SavePhases =>
               \A r \in Ranks : rank'[r] \in {"writing", "written"} => rank'[Rank0] # "idle",
           phase' \in LoadingPhases \union {"ready"} => phase \in LoadingPhases,
           phase' \in {"train"} \union TrainedPhases =>
               /\ phase \in {"ready", "train"} \union TrainedPhases
               /\ \A ro \in Roles : ~Rotated(ro) /\ ~Rotated(ro)',
           phase' \notin EndPhases,
           phase' \notin LoadPhases \union SavePhases => rank' = AllIdle
    PROVE  Retention'
<1>1. \A ro \in Roles : Mine(ro)' = Mine(ro) /\ Remembers(ro)' = Remembers(ro)
  BY DEF Mine, Remembers
<1>2. RetainedByRun'
  BY DEF Retention, RetainedByRun
<1>3. \A ro \in Roles : MaxKeep(ro) \in Nat
  BY CountAssumption DEF MaxKeep
<1>4. ASSUME phase' \in {"train"} \union TrainedPhases PROVE Listed'
  <2>1. CASE phase = "ready"
    BY <1>1, <1>3, <1>4, <2>1 DEF Retention, Listed
  <2>2. CASE phase # "ready"
    BY <1>1, <1>3, <1>4, <2>2 DEF Retention, Listed
  <2> QED
    BY <2>1, <2>2
<1>5. \A ro \in Roles, r \in Ranks, s \in Steps :
         shard'[ro][s][r] \in Versions => shard'[ro][s][r].run <= run'
  BY DEF Retention
<1>6. phase' \in LoadingPhases \union {"ready"} => \A ro \in Roles : Mine(ro)' = {} /\ Len(saved'[ro]) = 0
  BY <1>1 DEF Retention
<1> QED
  BY <1>2, <1>4, <1>5, <1>6 DEF Retention

LEMMA RetentionSteps ==
    ASSUME TypeOK, Bounded, Retention,
           \/ LoadDone \/ LoadLoader \/ \E r \in Ranks : LoadShard(r)
           \/ BeginTraining \/ TrainStep \/ NextEpoch \/ NextStep
           \/ BeginData \/ EndData \/ OpenTracker \/ WriteTracker
    PROVE  Retention'
<1> USE DEF LoadPhases, SavePhases, LoadingPhases, TrainedPhases, EndPhases
<1>1. UNCHANGED <<shard, run, saved>>
  BY DEF LoadDone, LoadLoader, LoadShard, BeginTraining, TrainStep, NextEpoch, NextStep,
         BeginData, EndData, OpenTracker, WriteTracker, disk, job
<1>2. /\ phase \notin SavePhases
      /\ phase' \in LoadingPhases \union {"ready"} => phase \in LoadingPhases
      /\ phase' \in {"train"} \union TrainedPhases => phase \in {"ready", "train"} \union TrainedPhases
      /\ phase' \notin EndPhases
  BY DEF LoadDone, LoadLoader, LoadShard, BeginTraining, TrainStep, NextEpoch, NextStep,
         BeginData, EndData, OpenTracker, WriteTracker
<1>3. /\ phase' \notin LoadPhases => rank' = AllIdle
      /\ phase' \in SavePhases => rank' = AllIdle
  BY DEF LoadDone, LoadLoader, LoadShard, BeginTraining, TrainStep, NextEpoch, NextStep,
         BeginData, EndData, OpenTracker, WriteTracker, job, Retention
<1>4. \A ro \in Roles : ~Rotated(ro) /\ ~Rotated(ro)'
  BY <1>2, <1>3, RankAssumption DEF Rotated, AllIdle
<1>5. \A ro \in Roles, r \in Ranks : weights'[ro][r].run <= run
  <2>0. run \in Nat
    BY DEF TypeOK
  <2>1. CASE TrainStep
    BY <2>0, <2>1 DEF TrainStep
  <2>2. ASSUME NEW q \in Ranks, LoadShard(q)
        PROVE  \A ro \in Roles, r \in Ranks : weights'[ro][r].run <= run
    <3>1. Role \in Roles /\ globalSteps \in Steps /\ shard[Role][globalSteps][q] \in Versions
      BY <2>2 DEF LoadShard, Bounded
    <3>2. shard[Role][globalSteps][q].run <= run
      BY <3>1 DEF Retention
    <3>3. \A ro \in Roles, r \in Ranks :
             weights'[ro][r] \in {weights[ro][r], shard[Role][globalSteps][q]}
      BY <2>2, <3>1 DEF LoadShard, TypeOK
    <3>4. \A ro \in Roles, r \in Ranks : weights[ro][r].run <= run
      BY DEF Retention
    <3> TAKE ro \in Roles, r \in Ranks
    <3>5. CASE weights'[ro][r] = weights[ro][r]
      BY <3>4, <3>5
    <3>6. CASE weights'[ro][r] = shard[Role][globalSteps][q]
      BY <3>2, <3>6
    <3> QED
      BY <3>3, <3>5, <3>6
  <2>3. CASE UNCHANGED weights
    BY <2>3 DEF Retention
  <2> QED
    BY <2>1, <2>2, <2>3 DEF LoadDone, LoadLoader, BeginTraining, NextEpoch, NextStep,
       BeginData, EndData, OpenTracker, WriteTracker, job
<1>6. phase' \in SavePhases =>
         \A r \in Ranks : rank'[r] \in {"writing", "written"} => rank'[Rank0] # "idle"
  BY <1>3 DEF AllIdle
<1> QED
  BY <1>1, <1>2, <1>3, <1>4, <1>5, <1>6, RetentionOutsideSaving

\* A process that starts or ends remembers nothing.
LEMMA RetentionStartEnd ==
    ASSUME TypeOK, Bounded, Retention,
           Start \/ \E as \in EndPhases : ProcessEnds(as)
    PROVE  Retention'
<1> USE DEF LoadPhases, SavePhases, LoadingPhases, TrainedPhases, EndPhases
<1>1. ASSUME NEW as \in EndPhases, ProcessEnds(as) PROVE Retention'
  <2>1. /\ phase' \in EndPhases /\ UNCHANGED <<shard, run>> /\ weights' = Pretrained
        /\ rank' = AllIdle /\ \A ro \in Roles : Len(saved'[ro]) = 0
    BY <1>1, EmptySeq DEF ProcessEnds, disk
  <2>2. RetainedByRun'
    BY <2>1 DEF Retention, RetainedByRun
  <2>3. \A ro \in Roles, r \in Ranks : weights'[ro][r].run <= run'
    BY <2>1 DEF Pretrained, TypeOK
  <2> QED
    BY <2>1, <2>2, <2>3 DEF Retention
<1>2. ASSUME Start PROVE Retention'
  <2>1. /\ phase \in EndPhases /\ phase' \in {"ready", "load_actor", "down"}
        /\ run' = run + 1 /\ UNCHANGED <<shard, weights, saved, rank>>
    BY <1>2 DEF Start, StartFromScratch, StartFromTracker, StartFromPath, StartFails, ResumeFrom,
       NewRun, disk, job
  <2>2. /\ run \in Nat
        /\ \A ro \in Roles, r \in Ranks :
              /\ weights[ro][r].run <= run /\ weights[ro][r].run \in Nat
              /\ \A s \in Steps : shard[ro][s][r] \in Versions =>
                    shard[ro][s][r].run <= run /\ shard[ro][s][r].run \in Nat
    BY CountAssumption DEF TypeOK, Retention, Versions
  <2>3. \A ro \in Roles : Mine(ro)' = {}
    BY <2>1, <2>2 DEF Mine
  <2>4. RetainedByRun'
    <3>1. \A ro \in Roles : MaxKeep(ro) \in Nat
      BY CountAssumption DEF MaxKeep
    <3>2. \A ro \in Roles : Cardinality(Mine(ro)') = 0
      BY <2>3, FS_EmptySet
    <3> QED
      BY <3>1, <3>2 DEF RetainedByRun, Mine
  <2> QED
    BY <2>1, <2>2, <2>3, <2>4 DEF Retention
<1> QED
  BY <1>1, <1>2

\* Rotation makes room for the folder about to be written.
LEMMA RetentionRotate ==
    ASSUME TypeOK, Bounded, Retention, Rotate
    PROVE  Retention'
<1> USE DEF LoadPhases, SavePhases, LoadingPhases, TrainedPhases, EndPhases
<1> DEFINE old == saved[Role]
           k   == KeepStart(Role)
           new == SubSeq(old, k + 1, Len(old))
<1>1. /\ phase \in SavePhases /\ Role \in Roles /\ Role' = Role
      /\ UNCHANGED <<run, phase, globalSteps, weights>>
      /\ rank[Rank0] = "idle" /\ rank'[Rank0] = "prepared"
      /\ \A ro \in Roles : saved'[ro] = IF ro = Role THEN new ELSE saved[ro]
  BY RankAssumption DEF Rotate, Bounded, Role, TypeOK
<1>2. /\ old \in Seq(Steps) /\ Len(old) \in Nat /\ \A i \in 1 .. Len(old) : old[i] \in Steps
  BY <1>1, LenProperties, ElementOfSeq DEF TypeOK
<1>3. MaxKeep(Role) \in Nat /\ k \in 0 .. Len(old)
      /\ (MaxKeep(Role) > 0 => Len(old) - k <= MaxKeep(Role) - 1)
  <2>1. MaxKeep(Role) \in Nat
    BY CountAssumption DEF MaxKeep
  <2> QED
    BY <1>2, <2>1 DEF KeepStart
<1>4. Len(new) = Len(old) - k /\ \A i \in 1 .. (Len(old) - k) : new[i] = old[k + i]
  <2>1. \A i \in k + 1 .. Len(old) : old[i] \in Steps
    BY <1>2, <1>3
  <2>2. /\ Len(new) = IF k + 1 <= Len(old) THEN Len(old) - (k + 1) + 1 ELSE 0
        /\ \A i \in 1 .. Len(old) - (k + 1) + 1 : new[i] = old[k + 1 + i - 1]
    BY <1>2, <1>3, <2>1, SubSeqProperties
  <2> HIDE DEF new, old, k
  <2>3. ASSUME NEW i \in 1 .. (Len(old) - k) PROVE new[i] = old[k + i]
    <3>1. i \in 1 .. Len(old) - (k + 1) + 1 /\ k + 1 + i - 1 = k + i
      BY <1>2, <1>3
    <3> QED
      BY <2>2, <3>1
  <2> QED
    BY <1>2, <1>3, <2>2, <2>3
<1>5. \A ro \in Roles, s \in Steps, r \in Ranks :
         shard'[ro][s][r] = IF ro = Role /\ s \in Removed(Role) THEN Absent ELSE shard[ro][s][r]
  BY <1>1 DEF Rotate, TypeOK
<1>6. \A ro \in Roles, s \in Steps, r \in Ranks :
         shard'[ro][s][r] \in Versions =>
            shard'[ro][s][r] = shard[ro][s][r] /\ ~(ro = Role /\ s \in Removed(Role))
  BY <1>5, FileAssumption
<1>7. \A ro \in Roles : Mine(ro)' \subseteq Mine(ro)
  BY <1>1, <1>6 DEF Mine
<1>g. PICK g \in Roles : g = Role
  BY <1>1
<1>8. Mine(g)' \intersect Removed(Role) = {}
  BY <1>1, <1>6, <1>g DEF Mine
<1>9. Remembers(Role) \subseteq Removed(Role) \union Remembers(g)'
  <2> SUFFICES ASSUME NEW i \in 1 .. Len(old)
               PROVE  old[i] \in Removed(Role) \union Remembers(g)'
    BY DEF Remembers
  <2>1. Remembers(g)' = {new[j] : j \in 1 .. Len(new)}
    BY <1>1, <1>g DEF Remembers
  <2>2. Removed(Role) = {old[j] : j \in 1 .. k}
    BY DEF Removed
  <2> HIDE DEF new, old, k
  <2>3. CASE i <= k
    BY <1>2, <1>3, <2>2, <2>3
  <2>4. CASE i > k
    <3>1. i - k \in 1 .. Len(new) /\ k + (i - k) = i
      BY <1>2, <1>3, <1>4, <2>4
    <3>2. new[i - k] = old[i]
      BY <1>4, <3>1
    <3> QED
      BY <2>1, <3>1, <3>2
  <2> QED
    BY <1>2, <1>3, <2>3, <2>4
<1>10. \A ro \in Roles : ~Rotated(ro) /\ (Rotated(ro)' <=> ro = Role)
  BY <1>1 DEF Rotated
<1>11. Listed'
  <2>1. ASSUME NEW ro \in Roles, ro # Role PROVE Remembers(ro)' = Remembers(ro) /\ saved'[ro] = saved[ro]
    BY <1>1, <2>1 DEF Remembers
  <2>2. Listed
    BY <1>1 DEF Retention
  <2>3. ASSUME NEW ro \in Roles, ro # Role
        PROVE  /\ Mine(ro)' \subseteq Remembers(ro)'
               /\ MaxKeep(ro) > 0 => Len(saved'[ro]) <= MaxKeep(ro)
    <3>1. MaxKeep(ro) - 0 = MaxKeep(ro)
      BY CountAssumption DEF MaxKeep
    <3> QED
      BY <1>7, <1>10, <2>1, <2>2, <2>3, <3>1 DEF Listed
  <2>4. Mine(g)' \subseteq Remembers(g)'
    BY <1>1, <1>7, <1>8, <1>9, <1>10, <1>g, <2>2 DEF Listed
  <2>5. MaxKeep(Role) > 0 => Len(saved'[Role]) <= MaxKeep(Role) - 1
    BY <1>1, <1>3, <1>4
  <2>6. \A ro \in Roles : MaxKeep(ro) - 0 = MaxKeep(ro)
    BY CountAssumption DEF MaxKeep
  <2> HIDE DEF new, old, k
  <2>7. SUFFICES ASSUME NEW ro \in Roles
               PROVE  /\ Mine(ro)' \subseteq Remembers(ro)' \union (IF Rotated(ro)' THEN {globalSteps'} ELSE {})
                      /\ MaxKeep(ro) > 0 => Len(saved'[ro]) <= MaxKeep(ro) - (IF Rotated(ro)' THEN 1 ELSE 0)
    BY DEF Listed, MaxKeep
  <2>8. CASE ro = Role
    BY <1>10, <1>g, <2>4, <2>5, <2>8
  <2>9. CASE ro # Role
    BY <1>10, <2>3, <2>6, <2>9
  <2> QED
    BY <2>8, <2>9
<1>12. TypeOK'
  BY TypeDriver DEF Driver
<1>13. RetainedByRun'
  BY <1>11, <1>12, ListedIsRetained, PTL
<1>14. \A ro \in Roles, r \in Ranks :
          /\ weights'[ro][r].run <= run'
          /\ \A s \in Steps : shard'[ro][s][r] \in Versions => shard'[ro][s][r].run <= run'
  BY <1>1, <1>6 DEF Retention
<1> QED
  BY <1>1, <1>11, <1>13, <1>14 DEF Retention

\* The ranks write into the one folder for which rotation made room.
LEMMA RetentionWriting ==
    ASSUME TypeOK, Bounded, Retention, NEW r \in Ranks,
           Prepare(r) \/ BeginWrite(r) \/ EndWrite(r)
    PROVE  Retention'
<1> USE DEF LoadPhases, SavePhases, LoadingPhases, TrainedPhases, EndPhases
<1>1. /\ phase \in SavePhases /\ Role \in Roles /\ Role' = Role
      /\ UNCHANGED <<run, phase, globalSteps, weights, saved>>
  BY DEF Prepare, BeginWrite, EndWrite, Bounded, Role, disk
<1>2. globalSteps \in Steps
  BY <1>1, CountAssumption DEF Bounded, TypeOK, Steps, MaxStep
<1>3. /\ (rank[Rank0] = "idle") <=> (rank'[Rank0] = "idle")
      /\ \A q \in Ranks : rank'[q] \in {"writing", "written"} => rank'[Rank0] # "idle"
      /\ ~Prepare(r) => rank[Rank0] # "idle"
  <2>1. \A q \in Ranks : rank[q] \in {"writing", "written"} => rank[Rank0] # "idle"
    BY <1>1 DEF Retention
  <2>2. CASE Prepare(r)
    BY <2>1, <2>2, RankAssumption DEF Prepare, TypeOK
  <2>3. CASE BeginWrite(r)
    BY <2>1, <2>3, RankAssumption DEF BeginWrite, TypeOK
  <2>4. CASE EndWrite(r)
    BY <2>1, <2>4, RankAssumption DEF EndWrite, TypeOK
  <2> QED
    BY <2>2, <2>3, <2>4
<1>4. \A ro \in Roles : Rotated(ro)' <=> Rotated(ro)
  BY <1>1, <1>3 DEF Rotated
<1>5. ASSUME NEW ro \in Roles, NEW s \in Steps, NEW q \in Ranks, shard'[ro][s][q] \in Versions
      PROVE  \/ shard'[ro][s][q] = shard[ro][s][q]
             \/ /\ ro = Role /\ s = globalSteps /\ shard'[ro][s][q] = weights[ro][q]
                /\ rank[Rank0] # "idle"
  <2>1. CASE Prepare(r)
    BY <2>1 DEF Prepare, disk
  <2>2. CASE BeginWrite(r)
    <3>1. /\ shard'[Role][globalSteps][r] = Torn
          /\ (ro # Role \/ s # globalSteps \/ q # r) => shard'[ro][s][q] = shard[ro][s][q]
      BY <1>1, <1>2, <2>2, WriteFile DEF BeginWrite, TypeOK, FileStates
    <3> QED
      BY <1>5, <3>1, FileAssumption
  <2>3. CASE EndWrite(r)
    <3>1. weights[Role][r] \in Versions
      BY <1>1 DEF TypeOK
    <3>2. /\ shard'[Role][globalSteps][r] = weights[Role][r]
          /\ (ro # Role \/ s # globalSteps \/ q # r) => shard'[ro][s][q] = shard[ro][s][q]
      BY <1>1, <1>2, <2>3, <3>1, WriteFile DEF EndWrite, TypeOK
    <3>3. rank[Rank0] # "idle"
      BY <1>1, <2>3 DEF EndWrite, Retention
    <3> QED
      BY <3>2, <3>3
  <2> QED
    BY <2>1, <2>2, <2>3
<1>6. \A ro \in Roles : Mine(ro)' \subseteq Mine(ro) \union (IF Rotated(ro) THEN {globalSteps} ELSE {})
  BY <1>1, <1>5 DEF Mine, Rotated
<1>7. Listed'
  <2>1. Listed /\ \A ro \in Roles : Remembers(ro)' = Remembers(ro)
    BY <1>1 DEF Retention, Remembers
  <2> QED
    BY <1>1, <1>4, <1>6, <2>1 DEF Listed
<1>8. TypeOK'
  BY TypeRank DEF RankStep
<1>9. RetainedByRun'
  BY <1>7, <1>8, ListedIsRetained, PTL
<1>10. \A ro \in Roles, q \in Ranks :
          /\ weights'[ro][q].run <= run'
          /\ \A s \in Steps : shard'[ro][s][q] \in Versions => shard'[ro][s][q].run <= run'
  BY <1>1, <1>5 DEF Retention
<1> QED
  BY <1>1, <1>3, <1>7, <1>9, <1>10 DEF Retention

\* The folder just written joins the list.
LEMMA RetentionSaveDone ==
    ASSUME TypeOK, Bounded, Retention, SaveDone
    PROVE  Retention'
<1> USE DEF LoadPhases, SavePhases, LoadingPhases, TrainedPhases, EndPhases
<1>1. PICK g \in Roles : g = Role
  BY DEF Bounded
<1>2. /\ phase \in SavePhases /\ phase' \in {"save_critic", "save_data"}
      /\ UNCHANGED <<shard, run, globalSteps, weights>>
      /\ rank' = AllIdle /\ rank[Rank0] = "written"
      /\ \A ro \in Roles : saved'[ro] = IF ro = g THEN Append(saved[g], globalSteps) ELSE saved[ro]
  BY <1>1, RankAssumption DEF SaveDone, TypeOK, disk
<1>3. globalSteps \in Steps
  BY <1>2, CountAssumption DEF Bounded, TypeOK, Steps, MaxStep
<1>4. /\ Len(saved[g]) \in Nat /\ Len(saved'[g]) = Len(saved[g]) + 1
      /\ saved'[g][Len(saved[g]) + 1] = globalSteps
      /\ \A i \in 1 .. Len(saved[g]) : saved'[g][i] = saved[g][i]
  <2>1. saved[g] \in Seq(Steps)
    BY DEF TypeOK
  <2>2. saved'[g] = Append(saved[g], globalSteps)
    BY <1>2
  <2>3. Len(saved[g]) \in Nat
    BY <2>1, LenProperties
  <2>4. /\ Len(Append(saved[g], globalSteps)) = Len(saved[g]) + 1
        /\ Append(saved[g], globalSteps)[Len(saved[g]) + 1] = globalSteps
        /\ \A i \in 1 .. Len(saved[g]) : Append(saved[g], globalSteps)[i] = saved[g][i]
    BY <1>3, <2>1, AppendProperties
  <2> QED
    BY <2>2, <2>3, <2>4
<1>5. /\ Rotated(g) /\ \A ro \in Roles : ro # g => ~Rotated(ro)
      /\ \A ro \in Roles : ~Rotated(ro)' /\ Mine(ro)' = Mine(ro)
  BY <1>1, <1>2, RankAssumption DEF Rotated, AllIdle, Mine
<1>6. Remembers(g) \union {globalSteps} \subseteq Remembers(g)'
  BY <1>4 DEF Remembers
<1>7. Listed'
  <2>1. Listed
    BY <1>2 DEF Retention
  <2>2. \A ro \in Roles : MaxKeep(ro) \in Nat
    BY CountAssumption DEF MaxKeep
  <2>3. /\ Mine(g)' \subseteq Remembers(g)'
        /\ MaxKeep(g) > 0 => Len(saved'[g]) <= MaxKeep(g)
    BY <1>4, <1>5, <1>6, <2>1, <2>2 DEF Listed
  <2>4. ASSUME NEW ro \in Roles, ro # g
        PROVE  /\ Mine(ro)' \subseteq Remembers(ro)'
               /\ MaxKeep(ro) > 0 => Len(saved'[ro]) <= MaxKeep(ro)
    <3>1. saved'[ro] = saved[ro]
      BY <1>2, <2>4
    <3> QED
      BY <1>5, <2>1, <2>2, <2>4, <3>1 DEF Listed, Remembers
  <2> QED
    BY <1>5, <2>2, <2>3, <2>4 DEF Listed
<1>8. RetainedByRun'
  BY <1>2 DEF Retention, RetainedByRun
<1> QED
  BY <1>2, <1>7, <1>8 DEF Retention, AllIdle

\* Whatever the resume mode, the limits and the kills, a run leaves at most
\* max_..._ckpt_to_keep folders of its own behind, in each role.
THEOREM Retained == Spec => []RetainedByRun
<1>1. Init => Retention
  <2> SUFFICES ASSUME Init PROVE Retention
    OBVIOUS
  <2>1. \A ro \in Roles, s \in Steps, r \in Ranks : shard[ro][s][r] \notin Versions
    BY FileAssumption DEF Init
  <2>2. RetainedByRun
    <3>1. \A ro \in Roles : Mine(ro) = {} /\ MaxKeep(ro) \in Nat
      BY <2>1, CountAssumption DEF Mine, MaxKeep
    <3>2. \A ro \in Roles : Cardinality(Mine(ro)) = 0
      BY <3>1, FS_EmptySet
    <3> QED
      BY <3>1, <3>2 DEF RetainedByRun, Mine
  <2>3. \A ro \in Roles : Len(saved[ro]) = 0
    BY EmptySeq DEF Init
  <2> QED
    BY <2>1, <2>2, <2>3 DEF Init, Retention, Pretrained, LoadPhases, SavePhases, LoadingPhases,
       TrainedPhases, EndPhases
<1>2. TypeOK /\ Bounded /\ Retention /\ [Next]_vars => Retention'
  <2> SUFFICES ASSUME TypeOK, Bounded, Retention, [Next]_vars PROVE Retention'
    OBVIOUS
  <2>1. CASE LoadFails \/ EpochsExhausted \/ Finish \/ Crash
    BY <2>1, RetentionStartEnd DEF LoadFails, EpochsExhausted, Finish, Crash, EndPhases
  <2>2. CASE UNCHANGED vars
    BY <2>2 DEF vars, disk, job, Retention, RetainedByRun, Listed, Mine, Remembers, Rotated, Role
  <2> QED
    BY <2>1, <2>2, RetentionStartEnd, RetentionSteps, RetentionRotate, RetentionWriting,
       RetentionSaveDone DEF Next, Driver, RankStep
<1>3. Retention => RetainedByRun
  BY DEF Retention
<1> QED
  BY <1>1, <1>2, <1>3, TypeCorrect, PTL DEF Spec

--------------------------------------------------------------------------------
(* Resuming in every mode *)

\* A folder that is not doubtful: what is left of it was written by one run, and
\* whatever shard is left, the dataloader's state goes with it.
Whole(s) ==
    /\ \E v \in Versions :
        /\ v.step = s
        /\ \A ro \in Roles, r \in Ranks : shard[ro][s][r] \in {Absent, v}
    /\ \/ \A ro \in Roles, r \in Ranks : shard[ro][s][r] = Absent
       \/ data[s] \in Loaders /\ data[s].drawn = s

\* Something of the new checkpoint is written, and it is not finished.
Begun ==
    \/ phase \in SavePhases /\ \E r \in Ranks : rank[r] \in {"writing", "written"}
    \/ phase \in {"save_critic", "save_data", "write_data"}

Folders ==
    /\ \A s \in Steps : s \notin doubtful => Whole(s)
    /\ \A ro \in Roles, s \in Steps, r \in Ranks :
          shard[ro][s][r] \in Versions => shard[ro][s][r].step = s
    /\ Begun => globalSteps \in doubtful
    /\ phase \in SavePhases =>
          \A r \in Ranks : rank[r] \in {"writing", "written"} => rank[Rank0] # "idle"

Continuing ==
    /\ phase \in LoadingPhases =>
          /\ strays <=> globalSteps \in doubtful
          /\ \A ro \in Roles, r \in Ranks :
                LoadedBy(ro, r) => weights[ro][r] = shard[ro][globalSteps][r]
    /\ phase = "ready" =>
          /\ \A ro \in Roles, r \in Ranks : weights[ro][r].step = globalSteps
          /\ strays \/ (Uniform(globalSteps) /\ loader.drawn = globalSteps)
    /\ phase \in TrainedPhases =>
          /\ \A ro \in Roles, r \in Ranks : weights[ro][r] = Current
          /\ strays \/ loader.drawn = globalSteps
          /\ \A ro \in Roles, r \in Ranks :
                WrittenBy(ro, r) => shard[ro][globalSteps][r] = Current

ModesInv == CoherentUnlessDoubtful /\ Quiet /\ Folders /\ Continuing

LEMMA ModesProcessEnds ==
    ASSUME ModesInv, NEW as \in EndPhases, ProcessEnds(as)
    PROVE  ModesInv'
<1> USE DEF LoadPhases, SavePhases, LoadingPhases, TrainedPhases, EndPhases
<1>1. phase' \in EndPhases /\ UNCHANGED <<shard, data, doubtful>>
  BY DEF ProcessEnds, disk
<1>2. Quiet' /\ CoherentUnlessDoubtful' /\ Continuing'
  BY <1>1 DEF ProcessEnds, Quiet, CoherentUnlessDoubtful, Continuing
<1>3. Folders'
  BY <1>1 DEF ModesInv, Folders, Whole, Begun
<1> QED
  BY <1>2, <1>3 DEF ModesInv

LEMMA ModesStart == ASSUME TypeOK, Bounded, ModesInv, Start PROVE ModesInv'
<1> USE DEF LoadPhases, SavePhases, LoadingPhases, TrainedPhases, EndPhases
<1>1. /\ phase \in EndPhases
      /\ UNCHANGED <<shard, data, doubtful, loader, weights, rank>>
      /\ \/ phase' = "ready" /\ globalSteps' = globalSteps
         \/ phase' = "load_actor" /\ (strays' <=> globalSteps' \in doubtful)
         \/ phase' = "down"
  <2>1. CASE StartFromScratch \/ StartFails
    BY <2>1 DEF StartFromScratch, StartFails, NewRun, disk, job
  <2>2. CASE StartFromTracker \/ StartFromPath
    <3>1. PICK s \in Steps : ResumeFrom(s)
      BY <2>2 DEF StartFromTracker, StartFromPath
    <3> QED
      BY <3>1 DEF ResumeFrom, NewRun, disk
  <2> QED
    BY <2>1, <2>2 DEF Start
<1>2. globalSteps = 0 /\ weights = Pretrained /\ loader = NewLoader /\ rank = AllIdle
  BY <1>1 DEF Bounded, ModesInv, Quiet
<1>3. Quiet' /\ CoherentUnlessDoubtful'
  BY <1>1, <1>2 DEF Quiet, CoherentUnlessDoubtful
<1>4. Folders'
  BY <1>1 DEF ModesInv, Folders, Whole, Begun
<1>5. phase' = "ready" => /\ \A ro \in Roles, r \in Ranks : weights'[ro][r].step = globalSteps'
                          /\ Uniform(globalSteps)'
                          /\ loader'.drawn = globalSteps'
  <2>1. [run |-> 0, step |-> 0] \in Versions
    BY Constants, CountAssumption DEF Versions
  <2>2. \A ro \in Roles, r \in Ranks : weights'[ro][r] = [run |-> 0, step |-> 0]
    BY <1>1, <1>2 DEF Pretrained
  <2> QED
    BY <1>1, <1>2, <2>1, <2>2 DEF Uniform, NewLoader
<1>6. phase' = "load_actor" => \A ro \in Roles, r \in Ranks : ~LoadedBy(ro, r)'
  BY <1>1, <1>2 DEF LoadedBy, AllIdle
<1>7. Continuing'
  BY <1>1, <1>5, <1>6 DEF Continuing
<1> QED
  BY <1>3, <1>4, <1>7 DEF ModesInv

LEMMA ModesLoading ==
    ASSUME TypeOK, Bounded, ModesInv,
           LoadDone \/ LoadLoader \/ \E r \in Ranks : LoadShard(r)
    PROVE  ModesInv'
<1> USE DEF LoadPhases, SavePhases, LoadingPhases, TrainedPhases, EndPhases
<1>1. /\ UNCHANGED <<shard, data, doubtful, strays, globalSteps>>
      /\ phase \in LoadingPhases /\ phase' \in LoadingPhases \union {"ready"}
  BY DEF LoadDone, LoadLoader, LoadShard, disk
<1>2. globalSteps \in Steps
  BY <1>1 DEF Bounded
<1>3. CoherentUnlessDoubtful' /\ Folders'
  BY <1>1 DEF ModesInv, Folders, Whole, Begun, CoherentUnlessDoubtful
<1>4. CASE LoadDone
  <2>1. Quiet' /\ phase' # "ready"
    BY <1>4 DEF LoadDone, Quiet
  <2>2. \A ro \in Roles, r \in Ranks : LoadedBy(ro, r)' => LoadedBy(ro, r)
    BY <1>4 DEF LoadDone, LoadedBy, Role, Roles, AllIdle
  <2>3. UNCHANGED weights
    BY <1>4 DEF LoadDone
  <2>4. Continuing'
    BY <1>1, <2>1, <2>2, <2>3 DEF ModesInv, Continuing
  <2> QED
    BY <1>3, <2>1, <2>4 DEF ModesInv
<1>5. CASE LoadLoader
  <2>1. Quiet' /\ phase' = "ready"
    BY <1>5 DEF LoadLoader, ModesInv, Quiet
  <2>2. \A ro \in Roles, r \in Ranks :
           weights'[ro][r] = shard[ro][globalSteps][r] /\ weights'[ro][r] \in Versions
    BY <1>5 DEF LoadLoader, ModesInv, Continuing, LoadedBy, TypeOK
  <2>3. \A ro \in Roles, r \in Ranks : weights'[ro][r].step = globalSteps
    BY <1>2, <2>2 DEF ModesInv, Folders
  <2>4. ASSUME ~strays PROVE Uniform(globalSteps)' /\ loader'.drawn = globalSteps
    <3>1. Whole(globalSteps)
      BY <1>1, <1>2, <1>5, <2>4 DEF LoadLoader, ModesInv, Folders, Continuing
    <3>2. PICK v \in Versions :
             /\ v.step = globalSteps
             /\ \A ro \in Roles, r \in Ranks : shard[ro][globalSteps][r] \in {Absent, v}
      BY <3>1 DEF Whole
    <3>3. \A ro \in Roles, r \in Ranks : weights'[ro][r] = v
      BY <2>2, <3>2, FileAssumption
    <3>4. Uniform(globalSteps)'
      BY <1>1, <3>2, <3>3 DEF Uniform
    <3>5. shard["actor"][globalSteps][Rank0] # Absent
      BY <2>2, Constants, RankAssumption, FileAssumption
    <3>6. data[globalSteps] \in Loaders /\ data[globalSteps].drawn = globalSteps
      BY <3>1, <3>5, Constants, RankAssumption DEF Whole
    <3>7. loader' = data[globalSteps]
      BY <1>5, <3>6, FileAssumption DEF LoadLoader
    <3> QED
      BY <3>4, <3>6, <3>7
  <2>5. Continuing'
    BY <1>1, <2>1, <2>3, <2>4 DEF Continuing
  <2> QED
    BY <1>3, <2>1, <2>5 DEF ModesInv
<1>6. ASSUME NEW r \in Ranks, LoadShard(r) PROVE ModesInv'
  <2>1. phase' = phase /\ phase \in LoadPhases /\ Role \in Roles
    BY <1>6 DEF LoadShard, Bounded
  <2>2. Quiet'
    BY <2>1 DEF Quiet
  <2>3. ASSUME NEW ro \in Roles, NEW q \in Ranks, LoadedBy(ro, q)'
        PROVE  weights'[ro][q] = shard[ro][globalSteps][q]
    <3>1. CASE ro = Role /\ q = r
      BY <1>6, <2>1, <3>1 DEF LoadShard, TypeOK
    <3>2. CASE ~(ro = Role /\ q = r)
      <4>1. LoadedBy(ro, q)
        BY <1>6, <2>1, <2>3, <3>2 DEF LoadedBy, LoadShard, Role, TypeOK
      <4>2. weights'[ro][q] = weights[ro][q]
        BY <1>6, <2>1, <3>2 DEF LoadShard, TypeOK
      <4> QED
        BY <1>1, <4>1, <4>2 DEF ModesInv, Continuing
    <3> QED
      BY <3>1, <3>2
  <2>4. Continuing'
    BY <1>1, <2>1, <2>3 DEF ModesInv, Continuing
  <2> QED
    BY <1>3, <2>2, <2>4 DEF ModesInv
<1> QED
  BY <1>4, <1>5, <1>6

LEMMA ModesTraining ==
    ASSUME TypeOK, Bounded, ModesInv,
           BeginTraining \/ TrainStep \/ NextEpoch \/ NextStep
    PROVE  ModesInv'
<1> USE DEF LoadPhases, SavePhases, LoadingPhases, TrainedPhases, EndPhases
<1>1. /\ UNCHANGED <<shard, data, doubtful, run, strays, rank>>
      /\ phase \in {"ready", "train", "step_done"}
      /\ phase' \in {"train", "save_actor", "step_done"}
  BY DEF BeginTraining, TrainStep, NextEpoch, NextStep, disk
<1>2. rank = AllIdle /\ globalSteps \in Nat
  BY <1>1 DEF ModesInv, Quiet, TypeOK
<1>3. Quiet' /\ Folders'
  BY <1>1, <1>2 DEF ModesInv, Folders, Whole, Begun, Quiet, AllIdle
<1>4. CASE BeginTraining
  <2>1. /\ phase = "ready" /\ phase' = "train"
        /\ globalSteps' = globalSteps + 1 /\ UNCHANGED <<loader, weights>>
    BY <1>4 DEF BeginTraining
  <2>2. globalSteps' - 1 = globalSteps
    BY <1>2, <2>1
  <2>3. CoherentUnlessDoubtful'
    BY <1>1, <2>1, <2>2 DEF ModesInv, Continuing, Uniform, CoherentUnlessDoubtful, CoherentResume
  <2> QED
    BY <1>3, <2>1, <2>3 DEF ModesInv, Continuing
<1>5. CASE TrainStep
  <2>1. phase = "train" /\ phase' \in {"save_actor", "step_done"} /\ globalSteps' = globalSteps
    BY <1>5 DEF TrainStep
  <2>2. strays' \/ loader'.drawn = globalSteps'
    BY <1>1, <1>2, <1>5, <2>1 DEF TrainStep, ModesInv, CoherentUnlessDoubtful, CoherentResume
  <2>3. \A ro \in Roles, r \in Ranks :
           weights'[ro][r] = Current' /\ ~WrittenBy(ro, r)'
    BY <1>1, <1>2, <1>5, <2>1 DEF TrainStep, Current, WrittenBy, FoldersDone, AllIdle
  <2>4. Continuing' /\ CoherentUnlessDoubtful'
    BY <2>1, <2>2, <2>3 DEF Continuing, CoherentUnlessDoubtful
  <2> QED
    BY <1>3, <2>4 DEF ModesInv
<1>6. CASE NextEpoch
  <2>1. UNCHANGED <<phase, globalSteps, weights>> /\ phase = "train" /\ loader'.drawn = loader.drawn
    BY <1>6 DEF NextEpoch
  <2> QED
    BY <1>1, <1>3, <2>1 DEF ModesInv, Continuing, CoherentUnlessDoubtful, CoherentResume
<1>7. CASE NextStep
  <2>1. /\ phase = "step_done" /\ phase' = "train"
        /\ globalSteps' = globalSteps + 1 /\ UNCHANGED <<loader, weights>>
    BY <1>7 DEF NextStep
  <2>2. globalSteps' - 1 = globalSteps
    BY <1>2, <2>1
  <2>3. Current \in Versions /\ Current.step = globalSteps
    BY DEF Current, Versions, TypeOK
  <2>4. CoherentUnlessDoubtful'
    BY <1>1, <2>1, <2>2, <2>3 DEF ModesInv, Continuing, CoherentUnlessDoubtful, CoherentResume
  <2> QED
    BY <1>3, <2>1, <2>4 DEF ModesInv, Continuing
<1> QED
  BY <1>4, <1>5, <1>6, <1>7

\* What a rank writes makes the folder doubtful until the checkpoint is finished.
LEMMA ModesWriting ==
    ASSUME TypeOK, Bounded, ModesInv, NEW q \in Ranks, BeginWrite(q) \/ EndWrite(q)
    PROVE  ModesInv'
<1> USE DEF LoadPhases, SavePhases, LoadingPhases, TrainedPhases, EndPhases
<1>1. /\ phase \in SavePhases /\ Role \in Roles /\ Role' = Role
      /\ UNCHANGED <<data, run, strays, phase, globalSteps, loader, weights>>
      /\ globalSteps \in Steps
      /\ \A ro \in Roles, r \in Ranks : weights[ro][r] = Current
      /\ \A ro \in Roles, r \in Ranks : WrittenBy(ro, r) => shard[ro][globalSteps][r] = Current
      /\ Begun => globalSteps \in doubtful
  BY CountAssumption DEF BeginWrite, EndWrite, Bounded, Role, TypeOK, Steps, MaxStep,
     ModesInv, Continuing, Folders
<1>2. doubtful' = doubtful \union {globalSteps}
  <2>1. CASE BeginWrite(q)
    BY <2>1 DEF BeginWrite
  <2>2. CASE EndWrite(q)
    BY <1>1, <2>2 DEF EndWrite, Begun
  <2> QED
    BY <2>1, <2>2
<1>3. Current \in Versions /\ Current.step = globalSteps /\ Current' = Current
  BY <1>1 DEF Current, Versions, TypeOK
<1>4. /\ \A ro \in Roles, s \in Steps, r \in Ranks :
            ro # Role \/ s # globalSteps \/ r # q => shard'[ro][s][r] = shard[ro][s][r]
      /\ \A ro \in Roles, r \in Ranks :
            WrittenBy(ro, r)' => shard'[ro][globalSteps][r] = Current
      /\ shard'[Role][globalSteps][q] \in {Torn, Current}
  <2>1. CASE BeginWrite(q)
    <3>1. /\ \A ro \in Roles, s \in Steps, r \in Ranks :
                ro # Role \/ s # globalSteps \/ r # q => shard'[ro][s][r] = shard[ro][s][r]
          /\ shard'[Role][globalSteps][q] = Torn
      BY <1>1, <2>1, WriteFile DEF BeginWrite, TypeOK, FileStates
    <3>2. \A ro \in Roles, r \in Ranks :
             WrittenBy(ro, r)' => WrittenBy(ro, r) /\ ~(ro = Role /\ r = q)
      BY <1>1, <2>1 DEF BeginWrite, WrittenBy, FoldersDone, Role, TypeOK
    <3> QED
      BY <1>1, <3>1, <3>2
  <2>2. CASE EndWrite(q)
    <3>1. weights[Role][q] = Current
      BY <1>1
    <3>2. /\ \A ro \in Roles, s \in Steps, r \in Ranks :
                ro # Role \/ s # globalSteps \/ r # q => shard'[ro][s][r] = shard[ro][s][r]
          /\ shard'[Role][globalSteps][q] = Current
      BY <1>1, <1>3, <2>2, <3>1, WriteFile DEF EndWrite, TypeOK
    <3>3. \A ro \in Roles, r \in Ranks :
             WrittenBy(ro, r)' => WrittenBy(ro, r) \/ (ro = Role /\ r = q)
      BY <1>1, <2>2 DEF EndWrite, WrittenBy, FoldersDone, Role, TypeOK
    <3> QED
      BY <1>1, <3>2, <3>3
  <2> QED
    BY <2>1, <2>2
<1>5. \A s \in Steps : s \notin doubtful' => Whole(s)'
  <2> SUFFICES ASSUME NEW s \in Steps, s \notin doubtful' PROVE Whole(s)'
    OBVIOUS
  <2>1. Whole(s) /\ s # globalSteps
    BY <1>2 DEF ModesInv, Folders
  <2>2. \A ro \in Roles, r \in Ranks : shard'[ro][s][r] = shard[ro][s][r]
    BY <1>4, <2>1
  <2> QED
    BY <1>1, <2>1, <2>2 DEF Whole
<1>6. \A ro \in Roles, s \in Steps, r \in Ranks :
         shard'[ro][s][r] \in Versions => shard'[ro][s][r].step = s
  BY <1>3, <1>4, FileAssumption DEF ModesInv, Folders
<1>7. rank'[Rank0] # "idle"
  BY RankAssumption DEF BeginWrite, EndWrite, ModesInv, Folders, TypeOK
<1>8. Folders'
  BY <1>1, <1>2, <1>5, <1>6, <1>7 DEF Folders
<1>9. Quiet' /\ CoherentUnlessDoubtful' /\ Continuing'
  BY <1>1, <1>3, <1>4 DEF Quiet, CoherentUnlessDoubtful, ModesInv, Continuing
<1> QED
  BY <1>8, <1>9 DEF ModesInv

\* Rank 0 rotates before anything of the folder is written, so what it removes is
\* never a file of the checkpoint being written.
LEMMA ModesPreparing ==
    ASSUME TypeOK, Bounded, ModesInv, Rotate \/ \E q \in Ranks : Prepare(q)
    PROVE  ModesInv'
<1> USE DEF LoadPhases, SavePhases, LoadingPhases, TrainedPhases, EndPhases
<1>1. /\ phase \in SavePhases /\ Role \in Roles /\ Role' = Role
      /\ UNCHANGED <<data, doubtful, run, strays, phase, globalSteps, loader, weights>>
      /\ \A r \in Ranks : rank'[r] \in {rank[r], "prepared"}
  BY DEF Rotate, Prepare, Bounded, Role, disk, TypeOK
<1>2. globalSteps \in Steps
  BY <1>1, CountAssumption DEF Bounded, TypeOK, Steps, MaxStep
<1>3. /\ \A ro \in Roles, s \in Steps, r \in Ranks : shard'[ro][s][r] \in {Absent, shard[ro][s][r]}
      /\ \A ro \in Roles, r \in Ranks :
            WrittenBy(ro, r)' => WrittenBy(ro, r) /\ shard'[ro][globalSteps][r] = shard[ro][globalSteps][r]
  <2>1. CASE Rotate
    <3>1. \A ro \in Roles, s \in Steps, r \in Ranks :
             /\ shard'[ro][s][r] \in {Absent, shard[ro][s][r]}
             /\ ro # Role => shard'[ro][s][r] = shard[ro][s][r]
      BY <1>1, <2>1 DEF Rotate, TypeOK
    <3>2. \A r \in Ranks : rank'[r] # "written"
      BY <1>1, <2>1 DEF Rotate, ModesInv, Folders
    <3>3. \A ro \in Roles, r \in Ranks : WrittenBy(ro, r)' => ro # Role /\ WrittenBy(ro, r)
      BY <1>1, <3>2 DEF WrittenBy, FoldersDone, Role
    <3> QED
      BY <1>2, <3>1, <3>3
  <2>2. ASSUME NEW q \in Ranks, Prepare(q)
        PROVE  shard' = shard /\ \A ro \in Roles, r \in Ranks : WrittenBy(ro, r)' => WrittenBy(ro, r)
    BY <1>1, <2>2 DEF Prepare, WrittenBy, FoldersDone, Role, TypeOK, disk
  <2> QED
    BY <1>2, <2>1, <2>2
<1>4. \A s \in Steps : s \notin doubtful' => Whole(s)'
  <2> SUFFICES ASSUME NEW s \in Steps, s \notin doubtful' PROVE Whole(s)'
    OBVIOUS
  <2>1. Whole(s)
    BY <1>1 DEF ModesInv, Folders
  <2>2. \A ro \in Roles, r \in Ranks : shard'[ro][s][r] \in {Absent, shard[ro][s][r]}
    BY <1>3
  <2> QED
    BY <1>1, <2>1, <2>2 DEF Whole
<1>5. \A ro \in Roles, s \in Steps, r \in Ranks :
         shard'[ro][s][r] \in Versions => shard'[ro][s][r].step = s
  BY <1>3, FileAssumption DEF ModesInv, Folders
<1>6. \A r \in Ranks : rank'[r] \in {"writing", "written"} => rank[r] = rank'[r] /\ rank'[Rank0] # "idle"
  BY <1>1, RankAssumption DEF ModesInv, Folders
<1>7. Folders'
  BY <1>1, <1>4, <1>5, <1>6 DEF ModesInv, Folders, Begun
<1>8. Continuing'
  BY <1>1, <1>3 DEF ModesInv, Continuing, Current
<1> QED
  BY <1>1, <1>7, <1>8 DEF ModesInv, Quiet, CoherentUnlessDoubtful

\* The barrier after each group's folder, data.pt and the tracker: once data.pt is
\* written, a job that does not stray has made the folder whole.
LEMMA ModesCommit ==
    ASSUME TypeOK, Bounded, ModesInv,
           SaveDone \/ BeginData \/ EndData \/ OpenTracker \/ WriteTracker
    PROVE  ModesInv'
<1> USE DEF LoadPhases, SavePhases, LoadingPhases, TrainedPhases, EndPhases
<1>1. /\ UNCHANGED <<shard, run, strays, globalSteps, loader, weights>>
      /\ phase \in TrainedPhases /\ phase' \in TrainedPhases
      /\ rank' = AllIdle
  BY DEF SaveDone, BeginData, EndData, OpenTracker, WriteTracker, disk, job, ModesInv, Quiet
<1>2. /\ globalSteps \in Steps /\ Current \in Versions /\ Current.step = globalSteps
      /\ loader \in Loaders /\ (strays \/ loader.drawn = globalSteps)
      /\ \A ro \in Roles, r \in Ranks : weights[ro][r] = Current
      /\ Current' = Current
  BY <1>1, CountAssumption DEF ModesInv, Continuing, Bounded, TypeOK, Steps, MaxStep, Current, Versions
<1>3. Quiet' /\ CoherentUnlessDoubtful'
  BY <1>1 DEF Quiet, CoherentUnlessDoubtful
<1>4. \A ro \in Roles, r \in Ranks : WrittenBy(ro, r)' => WrittenBy(ro, r)
  <2>1. CASE SaveDone
    BY <2>1 DEF SaveDone, WrittenBy, FoldersDone, Role, Roles, AllIdle
  <2>2. CASE BeginData \/ EndData \/ OpenTracker \/ WriteTracker
    BY <2>2 DEF BeginData, EndData, OpenTracker, WriteTracker, WrittenBy, FoldersDone
  <2> QED
    BY <2>1, <2>2
<1>5. Continuing'
  BY <1>1, <1>2, <1>4 DEF ModesInv, Continuing
<1>6. \A r \in Ranks : rank'[r] \notin {"writing", "written"}
  BY <1>1 DEF AllIdle
<1>7. (Begun => globalSteps \in doubtful) /\ \A s \in Steps : s \notin doubtful => Whole(s)
  BY DEF ModesInv, Folders
<1>8. /\ \A s \in Steps : s \notin doubtful' => Whole(s)'
      /\ Begun' => globalSteps \in doubtful'
  <2>1. CASE SaveDone
    <3>1. Begun
      BY <2>1, RankAssumption DEF SaveDone, Begun
    <3>2. UNCHANGED <<data, doubtful>>
      BY <2>1 DEF SaveDone, disk
    <3> QED
      BY <1>1, <1>7, <3>1, <3>2 DEF Whole
  <2>2. CASE BeginData
    <3>1. Begun /\ doubtful' = doubtful /\ \A s \in Steps : s # globalSteps => data'[s] = data[s]
      BY <2>2 DEF BeginData, Begun, TypeOK
    <3> QED
      BY <1>1, <1>7, <3>1 DEF Whole
  <2>3. CASE EndData
    <3>1. /\ data'[globalSteps] = loader
          /\ \A s \in Steps : s # globalSteps => data'[s] = data[s]
          /\ doubtful' = IF strays THEN doubtful ELSE doubtful \ {globalSteps}
          /\ phase = "write_data" /\ phase' = "open_tracker"
      BY <1>2, <2>3 DEF EndData, TypeOK
    <3>2. globalSteps \in doubtful /\ ~Begun'
      BY <1>7, <3>1 DEF Begun
    <3>3. ~strays => Whole(globalSteps)'
      <4>1. \A ro \in Roles, r \in Ranks : shard'[ro][globalSteps][r] = Current
        BY <1>1, <3>1 DEF ModesInv, Continuing, WrittenBy, FoldersDone
      <4> QED
        BY <1>1, <1>2, <3>1, <4>1 DEF Whole
    <3>4. \A s \in Steps : s # globalSteps /\ s \notin doubtful => Whole(s)'
      BY <1>1, <1>7, <3>1 DEF Whole
    <3> QED
      BY <1>1, <3>1, <3>2, <3>3, <3>4
  <2>4. CASE OpenTracker \/ WriteTracker
    <3>1. UNCHANGED <<data, doubtful>> /\ ~Begun'
      BY <2>4 DEF OpenTracker, WriteTracker, Begun
    <3> QED
      BY <1>1, <1>7, <3>1 DEF Whole
  <2> QED
    BY <2>1, <2>2, <2>3, <2>4
<1>9. Folders'
  BY <1>1, <1>6, <1>8 DEF ModesInv, Folders
<1> QED
  BY <1>3, <1>5, <1>9 DEF ModesInv

\* In every mix of resume modes, with any limits and any folder named to resume from,
\* wherever the job is killed, the ranks' saves included: every step starts from weights
\* of the step before, and they are of one run and agree with the dataloader unless the
\* job went on from a folder whose save was never finished, or from what one that did
\* has saved.
THEOREM CoherentInModes == Spec => []CoherentUnlessDoubtful
<1>1. Init => ModesInv
  <2> SUFFICES ASSUME Init PROVE ModesInv
    OBVIOUS
  <2>1. \A s \in Steps : [run |-> 0, step |-> s] \in Versions
    BY CountAssumption, Constants DEF Versions, Steps
  <2>2. \A s \in Steps : Whole(s)
    BY <2>1 DEF Init, Whole
  <2>3. Folders
    BY <2>2, FileAssumption DEF Init, Folders, Begun, SavePhases
  <2> QED
    BY <2>3 DEF Init, ModesInv, CoherentUnlessDoubtful, Quiet, Continuing, LoadPhases, SavePhases,
       LoadingPhases, TrainedPhases, EndPhases
<1>2. TypeOK /\ Bounded /\ ModesInv /\ [Next]_vars => ModesInv'
  <2> SUFFICES ASSUME TypeOK, Bounded, ModesInv, [Next]_vars PROVE ModesInv'
    OBVIOUS
  <2>1. CASE LoadFails \/ EpochsExhausted \/ Finish \/ Crash
    BY <2>1, ModesProcessEnds DEF LoadFails, EpochsExhausted, Finish, Crash, EndPhases
  <2>2. CASE UNCHANGED vars
    BY <2>2 DEF vars, disk, job, ModesInv, CoherentUnlessDoubtful, CoherentResume, Quiet, Folders,
       Whole, Begun, Continuing, LoadedBy, Uniform, WrittenBy, Current, Role
  <2> QED
    BY <2>1, <2>2, ModesStart, ModesLoading, ModesTraining, ModesPreparing, ModesWriting, ModesCommit
       DEF Next, Driver, RankStep
<1>3. ModesInv => CoherentUnlessDoubtful
  BY DEF ModesInv
<1> QED
  BY <1>1, <1>2, <1>3, TypeCorrect, PTL DEF Spec

================================================================================
