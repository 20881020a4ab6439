-------------------------- MODULE MCTrainerCheckpoint --------------------------
(***************************************************************************)
(* Where the job may be killed, for the runs of TrainerCheckpoint.         *)
(***************************************************************************)
EXTENDS TrainerCheckpoint

\* Everywhere but between truncating the tracker and writing it.
CrashButNotInTracker == UpPhases \ {"write_tracker"}

CrashAnywhere == UpPhases

================================================================================
