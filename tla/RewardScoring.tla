----------------------------- MODULE RewardScoring -----------------------------
(***************************************************************************)
(* The rule-based reward of a batch: compute_reward and _validate, the     *)
(* managers they call (verl/workers/reward_manager) and the grader of      *)
(* programs (verl/utils/reward_score/rllm_code).  "naive" and "dapo" score *)
(* the rows one after the other in the calling process, "prime" in a pool  *)
(* of processes with a time limit; a program is graded in a child process  *)
(* of whoever scores it, with a limit of its own.                          *)
(*                                                                         *)
(* Abstractions.  Time is counted in ticks, and the rows of a pool, all    *)
(* submitted at once, share one deadline.  A score is right or wrong, the  *)
(* 0 of a row without a score being wrong.  Tests one by one, the penalty  *)
(* for length and scores of a reward model (returned as they are) are left *)
(* out, and so is "batch", which leaves everything to a function of the    *)
(* user.                                                                   *)
(*                                                                         *)
(* The pool is CPython's (external; read as version 3.11 behaves where     *)
(* processes are forked).  It notices the end of a process by a pipe that  *)
(* the process holds open, and the program's process and the Manager that  *)
(* a grader has started inherit that pipe and outlive it: the end of a     *)
(* process that is grading is not noticed.                                 *)
(***************************************************************************)
EXTENDS Integers, Sequences, FiniteSets

\* The batches, how they are scored and for whom: records with the fields
\*   manager   "naive", "dapo" (without overlong_buffer_cfg, its default) or "prime"
\*   caller    "ppo" or "oapl", which scores in its own process, or "validate"
\*   procs     the processes of the pool (num_processes)
\*   deadline  the ticks before a row is given up (timeout)
\*   dies      a process of the pool may be killed from outside
\*   rows      a sequence of records with the fields
\*     kind      "code"; "dict" for math_dapo, whose score is a dict; "number" for the others
\*     takes     the ticks that scoring it takes
\*     limit     the ticks that a grader waits for a program
\*     verdict   "right" or "wrong"
CONSTANT Jobs

RowRecords == [kind : {"code", "dict", "number"}, takes : Nat \ {0}, limit : Nat \ {0},
               verdict : {"right", "wrong"}]

ASSUME JobsAssumption == \A j \in Jobs :
    /\ j.manager \in {"naive", "dapo", "prime"}
    /\ j.caller \in {"ppo", "oapl", "validate"}
    /\ j.procs \in Nat \ {0} /\ j.deadline \in Nat \ {0} /\ j.dies \in BOOLEAN
    /\ j.rows \in Seq(RowRecords)

VARIABLES
    job,
    phase,    \* "scoring", "scored", "returned", "raised", or "hung": the call waits
              \* for its pool to end
    pass,     \* which call of the manager this is
    clock,    \* ticks since it began
    begun,    \* begun[r]: when the scoring of r began, Queued before that
    result,   \* result[r]: "waiting", its verdict, "lost" (None), or "raised"
    broken,   \* the pool has lost a process
    dead,     \* the rows in whose grading it did, unnoticed
    reward,   \* the scores of the batch
    info      \* how many entries the columns of reward_extra_info have

vars == <<job, phase, pass, clock, begun, result, broken, dead, reward, info>>

Queued == -1
Rows == DOMAIN job.rows
Row(r) == job.rows[r]
Prime == job.manager = "prime"
IsDict(r) == Row(r).kind = "dict"
Blank(x) == [r \in Rows |-> x]

Init ==
    /\ job \in Jobs
    /\ phase = "scoring"
    /\ pass = 1
    /\ clock = 0
    /\ begun = Blank(Queued)
    /\ result = Blank("waiting")
    /\ broken = FALSE
    /\ dead = {}
    /\ reward = <<>>
    /\ info = 0

--------------------------------------------------------------------------------
(* One row *)

IsCode(r) == Row(r).kind = "code"

\* A grader does not wait beyond its limit for the child with the program.
Ticks(r) == IF IsCode(r) /\ Row(r).limit < Row(r).takes THEN Row(r).limit ELSE Row(r).takes

Overruns(r) == IsCode(r) /\ Row(r).limit < Row(r).takes

\* The child is alive when the limit is reached, and ends while it is killed.
Races(r) == IsCode(r) /\ Row(r).limit = Row(r).takes

\* "dapo" reads a field of the config it has not got, once the row is scored.
NoConfig == job.manager = "dapo"

\* What scoring a row comes to.  A child that is killed leaves no results, or results
\* without their metadata, which raises.
Outcomes(r) ==
    IF NoConfig THEN {"raised"}
    ELSE IF Overruns(r) THEN {"wrong"}
    ELSE IF Races(r) THEN {Row(r).verdict, "wrong", "raised"}
    ELSE {Row(r).verdict}

--------------------------------------------------------------------------------
(* One call of the manager *)

Waiting == {r \in Rows : result[r] = "waiting"}
Busy == {r \in Waiting : begun[r] # Queued}
Stopped == \E r \in Rows : result[r] = "raised"
RowsOver == Stopped \/ Waiting = {}
Working == phase = "scoring" /\ ~RowsOver

\* The processes that take up rows: the caller alone, unless there is a pool.
Processes == IF Prime THEN job.procs ELSE 1
HasFree == Cardinality(Busy) < Processes

\* Rows whose process has a program's process and a Manager for children; while not all
\* processes have, the end of one of the others is noticed.
Grading == {r \in Busy : IsCode(r)}
OneIsNoticed == Cardinality(Grading) < Processes

\* Mutant: the last row that was submitted is taken up first.
Upcoming_LastIn(r) == begun[r] = Queued /\ \A q \in Rows : r < q => begun[q] # Queued

\* Rows are taken up in the order of the batch.
Upcoming(r) == begun[r] = Queued /\ \A q \in Rows : q < r => begun[q] # Queued

CanTakeUp == Working /\ HasFree /\ \E r \in Waiting : Upcoming(r)

TakeUp ==
    /\ CanTakeUp
    /\ \E r \in Waiting :
        /\ Upcoming(r)
        /\ begun' = [begun EXCEPT ![r] = clock]
    /\ UNCHANGED <<job, phase, pass, clock, result, broken, dead, reward, info>>

AtEnd(r) == r \in Busy \ dead /\ clock = begun[r] + Ticks(r)

\* In the pool an exception costs the row its score; elsewhere it ends the call.
Finish ==
    /\ Working
    /\ \E r \in Rows : AtEnd(r) /\ \E o \in Outcomes(r) :
        result' = [result EXCEPT ![r] = IF o = "raised" /\ Prime THEN "lost" ELSE o]
    /\ UNCHANGED <<job, phase, pass, clock, begun, broken, dead, reward, info>>

LoseWaiting == result' = [r \in Rows |-> IF r \in Waiting THEN "lost" ELSE result[r]]

DeadlineReached == Working /\ Prime /\ clock = job.deadline

\* wait_for gives up every row that has no score, the queued ones too, and the processes
\* are terminated.  Leaving the with block waits for the pool, which waits for the rows
\* it has handed out or for the end of a process that it notices.
DeadlinePasses ==
    /\ DeadlineReached
    /\ LoseWaiting
    /\ phase' = IF OneIsNoticed THEN phase ELSE "hung"
    /\ UNCHANGED <<job, pass, clock, begun, broken, dead, reward, info>>

\* The pool is broken: every future that is not done gets an exception.
WorkerDies ==
    /\ Working /\ Prime /\ job.dies /\ OneIsNoticed
    /\ broken' = TRUE
    /\ LoseWaiting
    /\ UNCHANGED <<job, phase, pass, clock, begun, dead, reward, info>>

\* The row keeps waiting, and its place is lost.
GraderDies ==
    /\ Working /\ Prime /\ job.dies
    /\ \E r \in Grading \ dead : dead' = dead \union {r}
    /\ broken' = TRUE
    /\ UNCHANGED <<job, phase, pass, clock, begun, result, reward, info>>

\* Time passes when nothing is due.
Tick ==
    /\ Working /\ ~CanTakeUp /\ ~DeadlineReached
    /\ \A r \in Rows : ~AtEnd(r)
    /\ clock' = clock + 1
    /\ UNCHANGED <<job, phase, pass, begun, result, broken, dead, reward, info>>

--------------------------------------------------------------------------------
(* compute_reward and _validate *)

CallOver == phase = "scoring" /\ RowsOver

\* Mutant: only the missing key is taken for one.
Again_KeyErrorOnly == job.caller # "validate" /\ pass = 1 /\ Prime

\* compute_reward takes any exception for a reason to call the manager again; "prime"
\* returns no reward_extra_info, and reading it is one.
Again == job.caller # "validate" /\ pass = 1 /\ (Stopped \/ Prime)

\* Mutant: it is called until it succeeds.
ScoreAgain_UntilItWorks ==
    /\ CallOver /\ Again
    /\ pass' = pass
    /\ clock' = 0
    /\ begun' = Blank(Queued)
    /\ result' = Blank("waiting")
    /\ broken' = FALSE
    /\ dead' = {}
    /\ UNCHANGED <<job, phase, reward, info>>

ScoreAgain ==
    /\ CallOver /\ Again
    /\ pass' = 2
    /\ clock' = 0
    /\ begun' = Blank(Queued)
    /\ result' = Blank("waiting")
    /\ broken' = FALSE
    /\ dead' = {}
    /\ UNCHANGED <<job, phase, reward, info>>

ManagerRaises ==
    /\ CallOver /\ ~Again /\ Stopped
    /\ phase' = "raised"
    /\ UNCHANGED <<job, pass, clock, begun, result, broken, dead, reward, info>>

\* "prime" makes a number of every result; a dict is none, and every score is 0 then.
NoNumber == Prime /\ \E r \in Rows : IsDict(r) /\ result[r] # "lost"
Scores == [r \in Rows |-> IF NoNumber \/ result[r] = "lost" THEN "wrong" ELSE result[r]]

\* Only a dict adds an entry, and only the first call of "naive" returns them.
DictRows == {r \in Rows : IsDict(r)}
Info == IF Prime \/ pass = 2 THEN 0 ELSE Cardinality(DictRows)

ManagerReturns ==
    /\ CallOver /\ ~Again /\ ~Stopped
    /\ phase' = "scored"
    /\ reward' = Scores
    /\ info' = Info
    /\ UNCHANGED <<job, pass, clock, begun, result, broken, dead>>

\* OAPL forgets what it has not got from a task of its own.  The others add the columns
\* to the batch, which the next dispatch refuses when they are shorter, and _validate
\* asserts their length.
Attach ==
    /\ phase = "scored"
    /\ LET kept == IF job.caller = "oapl" THEN 0 ELSE info IN
        /\ info' = kept
        /\ phase' = IF kept \in {0, Len(job.rows)} THEN "returned" ELSE "raised"
    /\ UNCHANGED <<job, pass, clock, begun, result, broken, dead, reward>>

Next ==
    \/ TakeUp \/ Finish \/ DeadlinePasses \/ WorkerDies \/ GraderDies \/ Tick
    \/ ScoreAgain \/ ManagerRaises \/ ManagerReturns \/ Attach

Spec == Init /\ [][Next]_vars

\* Processes run, and clocks advance.
FairSpec == Spec /\ WF_vars(Next)

--------------------------------------------------------------------------------
(* Properties *)

Phases == {"scoring", "scored", "returned", "raised", "hung"}
Results == {"waiting", "right", "wrong", "lost", "raised"}

\* The type invariant of a call of the manager and of what becomes of it.
TypeOK ==
    /\ job \in Jobs
    /\ phase \in Phases
    /\ pass \in {1, 2}
    /\ clock \in Nat
    /\ begun \in [Rows -> Nat \union {Queued}]
    /\ result \in [Rows -> Results]
    /\ broken \in BOOLEAN
    /\ dead \subseteq Rows
    /\ reward = <<>> \/ reward \in [Rows -> Results]

\* Ticks of the rows before r.
Before(r) ==
    LET upTo[n \in 0 .. Len(job.rows)] == IF n = 0 THEN 0 ELSE upTo[n - 1] + Ticks(n)
    IN  upTo[r - 1]

\* The rows before it, spread over the processes, and it itself do not meet the deadline.
Late(r) == Before(r) \div job.procs + Ticks(r) >= job.deadline

\* What may cost a row its score: its grader is killed as the program ends; or, in a
\* pool, the death of a process, a row of math_dapo in the batch, or the deadline.
MayBeLost(r) ==
    \/ Races(r)
    \/ Prime /\ \/ broken
                \/ \E q \in Rows : IsDict(q)
                \/ Late(r)

\* A program that does not end in time is wrong.
Deserved(r) == IF Overruns(r) THEN "wrong" ELSE Row(r).verdict

\* The score of every row is the verdict on its own response; a right answer is scored
\* 0 for one of these reasons only, however the rows share the processes, and however
\* often the batch has been scored.
ScoresExplained ==
    phase \in {"scored", "returned"} =>
        \A r \in Rows :
            reward[r] = Deserved(r) \/ (reward[r] = "wrong" /\ MayBeLost(r))

\* Scoring a batch ends the run only where the call raised, and for training the second
\* call too: with "dapo" unless it is told of overlong responses, or because a grader was
\* killed at the wrong moment of that very call (one such moment is enough in
\* validation, where nothing is called again); or, over a batch that mixes math_dapo
\* with other sources, because the extra info of a first call has fewer entries than rows.
FailuresExplained ==
    phase = "raised" =>
        \/ /\ Stopped
           /\ job.caller = "validate" \/ pass = 2
           /\ \/ NoConfig
              \/ job.manager = "naive" /\ \E r \in Rows : Races(r) /\ result[r] = "raised"
        \/ /\ ~Stopped
           /\ job.manager = "naive" /\ job.caller # "oapl" /\ pass = 1
           /\ Cardinality(DictRows) \notin {0, Len(job.rows)}

\* As many programs as processes may be in grading when the deadline comes.
MayHang ==
    /\ Prime
    /\ Cardinality({r \in Rows : IsCode(r) /\ (job.dies \/ Late(r))}) >= job.procs

\* Every batch is scored or raises: programs that never end, processes that die and the
\* second call do not keep the trainer waiting.  The exception is a pool all of whose
\* processes are killed in the middle of a program's grading: the graders' orphans hold
\* the pipes open by which the pool would notice, and its shutdown(wait=True), at the end
\* of parallel_compute_score_async's with block, does not return.
EveryBatchScored == MayHang \/ <>(phase \in {"returned", "raised"})

================================================================================
