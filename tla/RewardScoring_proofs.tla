-------------------------- MODULE RewardScoring_proofs --------------------------
(***************************************************************************)
(* For any batches, any number of processes and any deadline: the type of  *)
(* the state, what a failed batch tells about its rows, and what a score   *)
(* that is not the row's verdict does.                                     *)
(*                                                                         *)
(* That the deadline costs no other rows than those that MayBeLost names   *)
(* is the bound of list scheduling: while a row is queued no process is    *)
(* idle, so that by then the rows before it have been scored for at least  *)
(* as many ticks as all processes together have had (NoneIdle), and they   *)
(* cannot be scored for longer than they take.                             *)
(***************************************************************************)
EXTENDS RewardScoring, FiniteSetTheorems, WellFoundedInduction, TLAPS

\* An exception reaches the manager from its own process only, where a grader was killed
\* as its program ended or a config is missing; without the config every row raises.
RaisedInv ==
    \A r \in Rows :
        /\ result[r] = "raised" => ~Prime /\ (NoConfig \/ Races(r))
        /\ NoConfig => result[r] \in {"waiting", "raised"}

\* Extra info comes from the dicts of a first call of "naive" that did not raise.
InfoInv ==
    /\ info # 0 => /\ job.manager = "naive" /\ pass = 1 /\ phase # "scoring"
                   /\ info = Cardinality(DictRows)
    /\ phase = "scored" => ~Stopped

IInv == TypeOK /\ RaisedInv /\ InfoInv /\ FailuresExplained

\* The parts of a job have the types that the assumption gives them.
LEMMA JobTypes ==
    ASSUME job \in Jobs
    PROVE  /\ job.manager \in {"naive", "dapo", "prime"}
           /\ job.deadline \in Nat \ {0}
           /\ \A r \in Rows :
                /\ Row(r).takes \in Nat \ {0} /\ Row(r).limit \in Nat \ {0}
                /\ Row(r).verdict \in {"right", "wrong"}
<1>1. job.rows \in Seq(RowRecords)
  BY JobsAssumption
<1>2. \A r \in Rows : Row(r) \in RowRecords
  BY <1>1 DEF Rows, Row
<1>3. \A r \in Rows : /\ Row(r).takes \in Nat \ {0} /\ Row(r).limit \in Nat \ {0}
                      /\ Row(r).verdict \in {"right", "wrong"}
  BY <1>2 DEF RowRecords
<1> QED
  BY <1>3, JobsAssumption

\* What scoring comes to is a result, and an exception only for the reasons named.
LEMMA OutcomeTypes ==
    ASSUME job \in Jobs, NEW r \in Rows, NEW o \in Outcomes(r)
    PROVE  /\ o \in Results
           /\ o = "raised" => NoConfig \/ Races(r)
BY JobTypes DEF Outcomes, Results

LEMMA InitInv == Init => IInv
<1> SUFFICES ASSUME Init PROVE IInv
  OBVIOUS
<1>1. TypeOK
  BY DEF Init, TypeOK, Blank, Results, Phases, Queued
<1>2. RaisedInv
  BY DEF Init, RaisedInv, Blank
<1>3. InfoInv /\ FailuresExplained
  BY DEF Init, InfoInv, FailuresExplained, Stopped
<1> QED
  BY <1>1, <1>2, <1>3 DEF IInv

\* Nothing a step does changes the job, and with it what is said of its rows.
LEMMA JobKept ==
    ASSUME [Next]_vars
    PROVE  job' = job
BY DEF Next, vars, TakeUp, Finish, DeadlinePasses, WorkerDies, GraderDies, Tick, ScoreAgain,
       ManagerRaises, ManagerReturns, Attach

LEMMA TypeStep == IInv /\ [Next]_vars => TypeOK'
<1> SUFFICES ASSUME IInv, [Next]_vars PROVE TypeOK'
  OBVIOUS
<1> USE DEF IInv, TypeOK
<1>0. job' = job
  BY JobKept
<1>1. Rows' = Rows
  BY <1>0 DEF Rows
<1>2. ASSUME TakeUp PROVE TypeOK'
  BY <1>1, <1>2 DEF TakeUp, Waiting
<1>3. ASSUME Finish PROVE TypeOK'
  <2>1. PICK r \in Rows : \E o \in Outcomes(r) :
            result' = [result EXCEPT ![r] = IF o = "raised" /\ Prime THEN "lost" ELSE o]
    BY <1>3 DEF Finish
  <2>2. PICK o \in Outcomes(r) :
            result' = [result EXCEPT ![r] = IF o = "raised" /\ Prime THEN "lost" ELSE o]
    BY <2>1
  <2>3. o \in Results
    BY OutcomeTypes
  <2> QED
    BY <1>1, <1>3, <2>2, <2>3 DEF Finish, Results
<1>4. ASSUME LoseWaiting PROVE result' \in [Rows' -> Results]
  BY <1>1, <1>4 DEF LoseWaiting, Results
<1>5. ASSUME DeadlinePasses PROVE TypeOK'
  BY <1>1, <1>4, <1>5 DEF DeadlinePasses, Phases
<1>6. ASSUME WorkerDies PROVE TypeOK'
  BY <1>1, <1>4, <1>6 DEF WorkerDies
<1>13. ASSUME GraderDies PROVE TypeOK'
  BY <1>1, <1>13 DEF GraderDies, Grading, Busy, Waiting
<1>7. ASSUME Tick PROVE TypeOK'
  BY <1>1, <1>7 DEF Tick
<1>8. ASSUME ScoreAgain PROVE TypeOK'
  BY <1>1, <1>8 DEF ScoreAgain, Blank, Results, Queued
<1>9. ASSUME ManagerRaises PROVE TypeOK'
  BY <1>1, <1>9 DEF ManagerRaises, Phases
<1>10. ASSUME ManagerReturns PROVE TypeOK'
  BY <1>1, <1>10 DEF ManagerReturns, Phases, Scores, Results
<1>11. ASSUME Attach PROVE TypeOK'
  BY <1>1, <1>11 DEF Attach, Phases
<1>12. ASSUME UNCHANGED vars PROVE TypeOK'
  BY <1>1, <1>12 DEF vars
<1> QED
  BY <1>2, <1>3, <1>5, <1>6, <1>7, <1>8, <1>9, <1>10, <1>11, <1>12, <1>13 DEF Next

LEMMA RaisedStep == IInv /\ [Next]_vars => RaisedInv'
<1> SUFFICES ASSUME IInv, [Next]_vars PROVE RaisedInv'
  OBVIOUS
<1>0. job' = job /\ job \in Jobs
  BY JobKept DEF IInv, TypeOK
<1>1. /\ Rows' = Rows /\ Prime' = Prime /\ NoConfig' = NoConfig
      /\ \A r \in Rows : Races(r)' = Races(r)
  BY <1>0 DEF Rows, Prime, NoConfig, Races, IsCode, Row
<1>2. ASSUME Finish PROVE RaisedInv'
  <2>1. PICK r \in Rows : \E o \in Outcomes(r) :
            result' = [result EXCEPT ![r] = IF o = "raised" /\ Prime THEN "lost" ELSE o]
    BY <1>2 DEF Finish
  <2>2. PICK o \in Outcomes(r) :
            result' = [result EXCEPT ![r] = IF o = "raised" /\ Prime THEN "lost" ELSE o]
    BY <2>1
  <2>3. (o = "raised" => NoConfig \/ Races(r)) /\ (NoConfig => o = "raised" /\ ~Prime)
    BY <1>0, OutcomeTypes DEF Outcomes, NoConfig, Prime
  <2>4. result \in [Rows -> Results]
    BY DEF IInv, TypeOK
  <2> QED
    BY <1>1, <2>2, <2>3, <2>4 DEF IInv, RaisedInv
<1>3. ASSUME LoseWaiting, Prime PROVE RaisedInv'
  BY <1>1, <1>3 DEF LoseWaiting, IInv, RaisedInv, Prime, NoConfig
<1>4. ASSUME ScoreAgain PROVE RaisedInv'
  BY <1>1, <1>4 DEF ScoreAgain, Blank, RaisedInv
<1>5. ASSUME result' = result PROVE RaisedInv'
  BY <1>1, <1>5 DEF IInv, RaisedInv
<1> QED
  BY <1>2, <1>3, <1>4, <1>5
  DEF Next, vars, TakeUp, DeadlinePasses, DeadlineReached, WorkerDies, GraderDies, Tick, ManagerRaises, ManagerReturns, Attach

LEMMA InfoStep == IInv /\ [Next]_vars => InfoInv'
<1> SUFFICES ASSUME IInv, [Next]_vars PROVE InfoInv'
  OBVIOUS
<1>0. job' = job /\ job \in Jobs
  BY JobKept DEF IInv, TypeOK
<1>1. Rows' = Rows /\ DictRows' = DictRows
  BY <1>0 DEF DictRows, Rows, IsDict, Row
<1>2. ASSUME ManagerReturns PROVE InfoInv'
  <2>1. /\ phase' = "scored" /\ info' = Info /\ UNCHANGED <<pass, result>> /\ ~Stopped
        /\ Waiting = {}
    BY <1>2 DEF ManagerReturns, CallOver, RowsOver
  <2>2. NoConfig => DictRows = {}
    BY <2>1 DEF IInv, RaisedInv, DictRows, Stopped, Waiting
  <2>3. NoConfig => Info = 0
    BY <2>2, FS_EmptySet DEF Info
  <2>4. info' # 0 => /\ ~Prime /\ ~NoConfig /\ pass = 1 /\ info' = Cardinality(DictRows)
    BY <2>1, <2>3 DEF Info, IInv, TypeOK
  <2>5. info' # 0 => job.manager = "naive"
    BY <1>0, <2>4, JobTypes DEF Prime, NoConfig
  <2> QED
    BY <1>0, <1>1, <2>1, <2>4, <2>5 DEF InfoInv, Stopped
<1>3. ASSUME Attach PROVE InfoInv'
  BY <1>0, <1>1, <1>3 DEF Attach, IInv, InfoInv
<1>4. ASSUME info' = info, phase' \in {"scoring", "hung", "raised"}, phase = "scoring" PROVE InfoInv'
  BY <1>4 DEF IInv, InfoInv
<1>5. ASSUME UNCHANGED vars PROVE InfoInv'
  BY <1>1, <1>5 DEF vars, IInv, InfoInv, Stopped
<1> QED
  BY <1>2, <1>3, <1>4, <1>5
  DEF Next, TakeUp, CanTakeUp, Finish, DeadlinePasses, DeadlineReached, WorkerDies, GraderDies, Tick,
      Working, ScoreAgain, CallOver, ManagerRaises

LEMMA FailureStep == IInv /\ [Next]_vars => FailuresExplained'
<1> SUFFICES ASSUME IInv, [Next]_vars PROVE FailuresExplained'
  OBVIOUS
<1>0. job' = job /\ job \in Jobs
  BY JobKept DEF IInv, TypeOK
<1>1. /\ Rows' = Rows /\ NoConfig' = NoConfig /\ DictRows' = DictRows
      /\ \A r \in Rows : Races(r)' = Races(r)
  BY <1>0 DEF Rows, NoConfig, DictRows, IsDict, Races, IsCode, Row
<1>2. ASSUME ManagerRaises PROVE FailuresExplained'
  <2>1. PICK r \in Rows : result[r] = "raised"
    BY <1>2 DEF ManagerRaises, Stopped
  <2>2. ~Prime /\ (NoConfig \/ Races(r))
    BY <2>1 DEF IInv, RaisedInv
  <2>3. NoConfig \/ job.manager = "naive"
    BY <1>0, <2>2, JobTypes DEF Prime, NoConfig
  <2>4. UNCHANGED <<result, pass>> /\ Stopped
    BY <1>2 DEF ManagerRaises
  <2>5. job.caller = "validate" \/ pass = 2
    BY <1>2, <2>4 DEF ManagerRaises, Again, IInv, TypeOK
  <2>6. Stopped'
    BY <1>1, <2>4 DEF Stopped
  <2> QED
    BY <1>0, <1>1, <2>1, <2>2, <2>3, <2>4, <2>5, <2>6 DEF FailuresExplained
<1>3. ASSUME Attach PROVE FailuresExplained'
  <2>1. CASE job.caller = "oapl" \/ info = 0
    BY <1>3, <2>1 DEF Attach, FailuresExplained
  <2>2. CASE job.caller # "oapl" /\ info # 0
    <3>1. job.manager = "naive" /\ pass = 1 /\ info = Cardinality(DictRows) /\ ~Stopped
      BY <1>3, <2>2 DEF Attach, IInv, InfoInv
    <3>2. /\ phase' = IF Cardinality(DictRows) \in {0, Len(job.rows)} THEN "returned" ELSE "raised"
          /\ UNCHANGED <<pass, result>>
      BY <1>3, <2>2, <3>1 DEF Attach
    <3>3. ~Stopped'
      BY <1>1, <3>1, <3>2 DEF Stopped
    <3> QED
      BY <1>0, <1>1, <2>2, <3>1, <3>2, <3>3 DEF FailuresExplained
  <2> QED
    BY <2>1, <2>2
<1>4. ASSUME phase' \in {"scoring", "scored", "hung"} PROVE FailuresExplained'
  BY <1>4 DEF FailuresExplained
<1>5. ASSUME UNCHANGED vars PROVE FailuresExplained'
  <2>1. Stopped' = Stopped
    BY <1>1, <1>5 DEF Stopped, vars
  <2> QED
    BY <1>1, <1>5, <2>1 DEF vars, IInv, FailuresExplained
<1> QED
  BY <1>2, <1>3, <1>4, <1>5
  DEF Next, TakeUp, CanTakeUp, Finish, DeadlinePasses, DeadlineReached, WorkerDies, GraderDies, Tick,
      Working, ScoreAgain, CallOver, ManagerReturns

\* The induction.
LEMMA Inductive == Spec => []IInv
<1>1. IInv /\ [Next]_vars => IInv'
  BY TypeStep, RaisedStep, InfoStep, FailureStep DEF IInv
<1> QED
  BY InitInv, <1>1, PTL DEF Spec

\* Every result, score and time has its type, whatever the pool does to the rows.
THEOREM TypeCorrect == Spec => []TypeOK
BY Inductive, PTL DEF IInv

\* For any batch and manager: scoring ends the training only for the reasons that
\* FailuresExplained names; in particular it never does under PRIME.
THEOREM Failures == Spec => []FailuresExplained
BY Inductive, PTL DEF IInv

--------------------------------------------------------------------------------
(* Sums over the rows *)

LEMMA RowsFacts ==
    ASSUME job \in Jobs
    PROVE  /\ Len(job.rows) \in Nat /\ Rows = 1 .. Len(job.rows)
           /\ \A r \in Rows : Ticks(r) \in Nat
<1>1. job.rows \in Seq(RowRecords)
  BY JobsAssumption
<1> QED
  BY <1>1, JobTypes DEF Rows, Ticks

\* What holds before the first row, and goes from each row to the next, holds of all.
LEMMA ByRows ==
    ASSUME job \in Jobs, NEW P, 0 \in P, \A m \in Rows : m - 1 \in P => m \in P
    PROVE  0 .. Len(job.rows) \subseteq P
<1> DEFINE Wrong == {m \in 0 .. Len(job.rows) : m \notin P}
<1>1. Len(job.rows) \in Nat /\ Rows = 1 .. Len(job.rows)
  BY RowsFacts
<1> SUFFICES ASSUME Wrong # {} PROVE FALSE
  OBVIOUS
<1>2. PICK n \in Wrong : \A m \in Wrong : <<m, n>> \notin OpToRel(<, Nat)
  <2>1. Wrong \subseteq Nat
    BY <1>1
  <2> HIDE DEF Wrong
  <2> QED
    BY <2>1, NatLessThanWellFounded, WFMin
<1>3. n \in Rows /\ n - 1 \in 0 .. Len(job.rows) /\ n \notin P
  BY <1>1
<1>4. n - 1 \in Wrong
  BY <1>3
<1>5. <<n - 1, n>> \in OpToRel(<, Nat)
  BY <1>1, <1>3 DEF OpToRel
<1> QED
  BY <1>2, <1>4, <1>5

\* F adds up the entries of f.
Sums(F, f) == F = [m \in 0 .. Len(job.rows) |-> IF m = 0 THEN 0 ELSE F[m - 1] + f[m]]

LEMMA SumExists ==
    ASSUME job \in Jobs, NEW f
    PROVE  \E F : Sums(F, f)
<1> DEFINE To(n) == \E F : F = [m \in 0 .. n |-> IF m = 0 THEN 0 ELSE F[m - 1] + f[m]]
           P == {n \in 0 .. Len(job.rows) : To(n)}
<1>1. Len(job.rows) \in Nat /\ Rows = 1 .. Len(job.rows)
  BY RowsFacts
<1>2. To(0)
  <2> DEFINE F == [m \in 0 .. 0 |-> 0]
  <2>1. F = [m \in 0 .. 0 |-> IF m = 0 THEN 0 ELSE F[m - 1] + f[m]]
    OBVIOUS
  <2> QED
    BY <2>1
<1>3. ASSUME NEW n \in Rows, To(n - 1) PROVE To(n)
  <2>1. PICK F : F = [m \in 0 .. n - 1 |-> IF m = 0 THEN 0 ELSE F[m - 1] + f[m]]
    BY <1>3
  <2> DEFINE G == [m \in 0 .. n |-> IF m = n THEN F[n - 1] + f[n] ELSE F[m]]
  <2>2. n \in Nat /\ n # 0
    BY <1>1
  <2>3. ASSUME NEW m \in 0 .. n PROVE G[m] = IF m = 0 THEN 0 ELSE G[m - 1] + f[m]
    <3>1. CASE m = n
      <4>1. G[m] = F[n - 1] + f[n] /\ m - 1 \in 0 .. n /\ m - 1 # n
        BY <2>2, <3>1
      <4> QED
        BY <2>2, <3>1, <4>1
    <3>2. CASE m # n /\ m # 0
      <4>1. m \in 0 .. n - 1 /\ m - 1 \in 0 .. n /\ m - 1 # n /\ G[m] = F[m]
        BY <2>2, <3>2
      <4>2. F[m] = F[m - 1] + f[m]
        BY <2>1, <3>2, <4>1
      <4> QED
        BY <3>2, <4>1, <4>2
    <3>3. CASE m # n /\ m = 0
      BY <2>1, <2>2, <3>3
    <3> QED
      BY <3>1, <3>2, <3>3
  <2>4. G = [m \in 0 .. n |-> IF m = 0 THEN 0 ELSE G[m - 1] + f[m]]
    BY <2>3
  <2> QED
    BY <2>4
<1>4. To(Len(job.rows))
  <2> HIDE DEF To
  <2>1. 0 \in P
    BY <1>1, <1>2
  <2>2. ASSUME NEW m \in Rows, m - 1 \in P PROVE m \in P
    BY <1>1, <1>3, <2>2
  <2>3. 0 .. Len(job.rows) \subseteq P
    <3> HIDE DEF P
    <3> QED
      BY <2>1, <2>2, ByRows
  <2> QED
    BY <1>1, <2>3
<1> QED
  BY <1>4 DEF Sums

\* The first n entries of f together.
SumTo(f, n) ==
    LET sum[m \in 0 .. Len(job.rows)] == IF m = 0 THEN 0 ELSE sum[m - 1] + f[m]
    IN  sum[n]

LEMMA SumFacts ==
    ASSUME job \in Jobs, NEW f
    PROVE  /\ SumTo(f, 0) = 0
           /\ \A m \in Rows : SumTo(f, m) = SumTo(f, m - 1) + f[m]
<1> DEFINE S == CHOOSE F : Sums(F, f)
<1>1. Sums(S, f)
  BY SumExists
<1>2. \A n : SumTo(f, n) = S[n]
  BY DEF SumTo, Sums
<1> HIDE DEF S
<1>3. Len(job.rows) \in Nat /\ Rows = 1 .. Len(job.rows)
  BY RowsFacts
<1>4. S[0] = 0
  BY <1>1, <1>3 DEF Sums
<1>5. ASSUME NEW m \in Rows PROVE S[m] = S[m - 1] + f[m]
  BY <1>1, <1>3 DEF Sums
<1> QED
  BY <1>2, <1>4, <1>5

\* A sum of ticks is a number of ticks.
LEMMA SumNat ==
    ASSUME job \in Jobs, NEW f, \A m \in Rows : f[m] \in Nat
    PROVE  \A m \in 0 .. Len(job.rows) : SumTo(f, m) \in Nat
<1> DEFINE P == {m \in 0 .. Len(job.rows) : SumTo(f, m) \in Nat}
<1>1. Len(job.rows) \in Nat /\ Rows = 1 .. Len(job.rows)
  BY RowsFacts
<1>2. 0 \in P /\ \A m \in Rows : m - 1 \in P => m \in P
  BY <1>1, SumFacts
<1>3. 0 .. Len(job.rows) \subseteq P
  <2> HIDE DEF P
  <2> QED
    BY <1>2, ByRows
<1> QED
  BY <1>3

LEMMA SumsCompare ==
    ASSUME job \in Jobs, NEW f, NEW g, \A m \in Rows : f[m] \in Nat /\ g[m] \in Nat /\ f[m] <= g[m]
    PROVE  \A m \in 0 .. Len(job.rows) : SumTo(f, m) <= SumTo(g, m)
<1> DEFINE P == {m \in 0 .. Len(job.rows) : SumTo(f, m) <= SumTo(g, m)}
<1>1. Len(job.rows) \in Nat /\ Rows = 1 .. Len(job.rows)
  BY RowsFacts
<1>2. \A m \in 0 .. Len(job.rows) : SumTo(f, m) \in Nat /\ SumTo(g, m) \in Nat
  BY SumNat
<1>3. 0 \in P
  BY <1>1, SumFacts
<1>4. ASSUME NEW m \in Rows, m - 1 \in P PROVE m \in P
  <2>1. SumTo(f, m) = SumTo(f, m - 1) + f[m] /\ SumTo(g, m) = SumTo(g, m - 1) + g[m]
    BY SumFacts
  <2>2. m \in 0 .. Len(job.rows) /\ m - 1 \in 0 .. Len(job.rows)
    BY <1>1
  <2>3. SumTo(f, m - 1) \in Nat /\ SumTo(g, m - 1) \in Nat
    BY <1>2, <2>2
  <2> QED
    BY <1>4, <2>1, <2>2, <2>3
<1>5. 0 .. Len(job.rows) \subseteq P
  <2> HIDE DEF P
  <2> QED
    BY <1>3, <1>4, ByRows
<1> QED
  BY <1>5

\* One tick more for each row of a set.
OneMore(f, g, B) == \A m \in Rows : f[m] \in Nat /\ g[m] = f[m] + (IF m \in B THEN 1 ELSE 0)

LEMMA SumsOneMore ==
    ASSUME job \in Jobs, NEW f, NEW g, NEW B, B \subseteq Rows, OneMore(f, g, B),
           NEW n \in 0 .. Len(job.rows)
    PROVE  SumTo(g, n) = SumTo(f, n) + Cardinality(B \cap 1 .. n)
<1> DEFINE P == {m \in 0 .. Len(job.rows) : SumTo(g, m) = SumTo(f, m) + Cardinality(B \cap 1 .. m)}
<1>1. Len(job.rows) \in Nat /\ Rows = 1 .. Len(job.rows)
  BY RowsFacts
<1>2. \A m \in 0 .. Len(job.rows) : SumTo(f, m) \in Nat
  BY SumNat DEF OneMore
<1>3. 0 \in P
  <2>1. B \cap 1 .. 0 = {}
    OBVIOUS
  <2>2. Cardinality(B \cap 1 .. 0) = 0
    BY <2>1, FS_EmptySet
  <2> QED
    BY <1>1, <2>2, SumFacts
<1>4. ASSUME NEW m \in Rows, m - 1 \in P PROVE m \in P
  <2>1. SumTo(f, m) = SumTo(f, m - 1) + f[m] /\ SumTo(g, m) = SumTo(g, m - 1) + g[m]
    BY SumFacts
  <2>2. m \in 0 .. Len(job.rows) /\ m - 1 \in 0 .. Len(job.rows) /\ m \in Nat
    BY <1>1
  <2>3. SumTo(f, m - 1) \in Nat
    BY <1>2, <2>2
  <2>4. IsFiniteSet(B \cap 1 .. m - 1) /\ Cardinality(B \cap 1 .. m - 1) \in Nat
    <3>1. IsFiniteSet(1 .. m - 1)
      BY <2>2, FS_Interval
    <3> QED
      BY <3>1, FS_Subset, FS_CardinalityType
  <2> DEFINE old == B \cap 1 .. m - 1
             new == B \cap 1 .. m
  <2>5. CASE m \in B
    <3>1. new = old \cup {m} /\ m \notin old
      BY <1>1, <2>2, <2>5
    <3>2. Cardinality(new) = Cardinality(old) + 1
      <4> HIDE DEF new, old
      <4>1. IsFiniteSet(old)
        BY <2>4 DEF old
      <4> QED
        BY <3>1, <4>1, FS_AddElement
    <3>3. g[m] = f[m] + 1 /\ f[m] \in Nat
      BY <2>5 DEF OneMore
    <3>4. SumTo(g, m - 1) = SumTo(f, m - 1) + Cardinality(old) /\ Cardinality(old) \in Nat
      BY <1>4, <2>4
    <3>5. SumTo(g, m) = SumTo(f, m) + Cardinality(new)
      <4> HIDE DEF new, old
      <4> QED
        BY <2>1, <2>3, <3>2, <3>3, <3>4
    <3> QED
      BY <2>2, <3>5
  <2>6. CASE m \notin B
    <3>0. g[m] = f[m] /\ f[m] \in Nat
      BY <2>6 DEF OneMore
    <3>1. new = old
      BY <1>1, <2>2, <2>6
    <3>2. Cardinality(new) = Cardinality(old)
      <4> HIDE DEF new, old
      <4> QED
        BY <3>1
    <3> QED
      BY <1>4, <2>1, <2>2, <2>3, <2>4, <2>6, <3>0, <3>2
  <2> QED
    BY <2>5, <2>6
<1>5. 0 .. Len(job.rows) \subseteq P
  <2> HIDE DEF P
  <2> QED
    BY <1>3, <1>4, ByRows
<1> QED
  BY <1>5

AllTicks == [r \in Rows |-> Ticks(r)]

LEMMA BeforeIsSum ==
    ASSUME job \in Jobs, NEW r \in Rows
    PROVE  Before(r) = SumTo(AllTicks, r - 1)
<1> DEFINE Is(F) == F = [n \in 0 .. Len(job.rows) |-> IF n = 0 THEN 0 ELSE F[n - 1] + Ticks(n)]
           S == CHOOSE F : Is(F)
           P == {n \in 0 .. Len(job.rows) : SumTo(AllTicks, n) = S[n]}
<1>1. Len(job.rows) \in Nat /\ Rows = 1 .. Len(job.rows)
  BY RowsFacts
<1>2. \E F : Is(F)
  <2>1. PICK F : Sums(F, AllTicks)
    BY SumExists
  <2>2. \A n \in 0 .. Len(job.rows) : n # 0 => AllTicks[n] = Ticks(n)
    BY <1>1 DEF AllTicks
  <2>3. Is(F)
    BY <2>1, <2>2 DEF Sums
  <2> QED
    BY <2>3
<1>3. Is(S)
  <2> HIDE DEF Is
  <2> QED
    BY <1>2
<1>4. Before(r) = S[r - 1]
  BY DEF Before
<1>5. S[0] = 0 /\ \A n \in Rows : S[n] = S[n - 1] + AllTicks[n]
  <2> HIDE DEF S
  <2>1. S[0] = 0
    BY <1>1, <1>3
  <2>2. ASSUME NEW n \in Rows PROVE S[n] = S[n - 1] + AllTicks[n]
    BY <1>1, <1>3 DEF AllTicks
  <2> QED
    BY <2>1, <2>2
<1> HIDE DEF S
<1>6. 0 \in P
  BY <1>1, <1>5, SumFacts
<1>7. ASSUME NEW n \in Rows, n - 1 \in P PROVE n \in P
  <2>1. SumTo(AllTicks, n) = SumTo(AllTicks, n - 1) + AllTicks[n]
    BY SumFacts
  <2> QED
    BY <1>1, <1>5, <1>7, <2>1
<1>8. 0 .. Len(job.rows) \subseteq P
  <2> HIDE DEF P
  <2> QED
    BY <1>6, <1>7, ByRows
<1>9. r - 1 \in P
  <2> HIDE DEF P
  <2> QED
    BY <1>1, <1>8
<1> QED
  BY <1>4, <1>9

--------------------------------------------------------------------------------
(* The scores *)

\* A result is what the row deserves, or wrong because its grader was killed at the end.
Fair(r, x) == x = Deserved(r) \/ (x = "wrong" /\ Races(r))

ResultInv ==
    \A r \in Rows :
        /\ result[r] \notin {"waiting", "raised", "lost"} => Fair(r, result[r])
        /\ result[r] = "lost" => Prime

\* The ticks that r has been scored for.
Scored(r) ==
    IF begun[r] = Queued THEN 0 ELSE IF r \in Waiting THEN clock - begun[r] ELSE Ticks(r)

AllScored == [r \in Rows |-> Scored(r)]

InOrder == \A q, r \in Rows : q < r /\ begun[q] = Queued => begun[r] = Queued

\* A queued row can only be given up with all the others.
QueuedWaits == \A r \in Rows : begun[r] = Queued /\ r \notin Waiting => Waiting = {}

InTime == \A r \in Busy : begun[r] <= clock /\ clock <= begun[r] + Ticks(r)

\* All processes have scored rows before a queued one in all of the time.
NoneIdle == \A r \in Waiting : begun[r] = Queued => Processes * clock <= SumTo(AllScored, r - 1)

BegunInTime == \A r \in Rows : begun[r] # Queued => Processes * begun[r] <= Before(r)

LostInv == \A r \in Rows : result[r] = "lost" => MayBeLost(r)

Steady == dead = {} /\ InOrder /\ QueuedWaits /\ InTime /\ NoneIdle /\ BegunInTime

\* Nothing is claimed of the times in a pool that has lost a process.
PoolInv == IF broken THEN Prime ELSE Steady

ScoreInv == TypeOK /\ ResultInv /\ PoolInv /\ LostInv /\ ScoresExplained

LEMMA OutcomesFair ==
    ASSUME NEW r \in Rows, NEW o \in Outcomes(r), o # "raised"
    PROVE  Fair(r, o)
BY DEF Outcomes, Fair, Deserved, Overruns, Races

LEMMA ResultStep == ScoreInv /\ [Next]_vars => ResultInv'
<1> SUFFICES ASSUME ScoreInv, [Next]_vars PROVE ResultInv'
  OBVIOUS
<1>0. job' = job /\ job \in Jobs
  BY JobKept DEF ScoreInv, TypeOK
<1>1. /\ Rows' = Rows /\ Prime' = Prime
      /\ \A r \in Rows : Deserved(r)' = Deserved(r) /\ (Races(r)' <=> Races(r))
  BY <1>0 DEF Rows, Prime, Deserved, Overruns, Races, IsCode, Row
<1>2. ASSUME Finish PROVE ResultInv'
  <2>1. PICK r \in Rows : \E o \in Outcomes(r) :
            result' = [result EXCEPT ![r] = IF o = "raised" /\ Prime THEN "lost" ELSE o]
    BY <1>2 DEF Finish
  <2>2. PICK o \in Outcomes(r) :
            result' = [result EXCEPT ![r] = IF o = "raised" /\ Prime THEN "lost" ELSE o]
    BY <2>1
  <2>3. o \in {"right", "wrong", "raised"} /\ (o # "raised" => Fair(r, o))
    BY <1>0, JobTypes, OutcomesFair DEF Outcomes
  <2>4. result \in [Rows -> Results]
    BY DEF ScoreInv, TypeOK
  <2>5. /\ result'[r] \notin {"waiting", "raised", "lost"} => Fair(r, result'[r])
        /\ result'[r] = "lost" => Prime
    BY <2>2, <2>3, <2>4
  <2>6. \A q \in Rows : q # r => result'[q] = result[q]
    BY <2>2, <2>4
  <2> QED
    BY <1>1, <2>5, <2>6 DEF ScoreInv, ResultInv, Fair
<1>3. ASSUME LoseWaiting, Prime PROVE ResultInv'
  BY <1>1, <1>3 DEF LoseWaiting, ScoreInv, ResultInv, Fair
<1>4. ASSUME ScoreAgain PROVE ResultInv'
  BY <1>1, <1>4 DEF ScoreAgain, Blank, ResultInv
<1>5. ASSUME result' = result PROVE ResultInv'
  BY <1>1, <1>5 DEF ScoreInv, ResultInv, Fair
<1> QED
  BY <1>2, <1>3, <1>4, <1>5 DEF Next, vars, TakeUp, DeadlinePasses, DeadlineReached,
     WorkerDies, GraderDies, Tick, ManagerRaises, ManagerReturns, Attach

\* A product with the number of processes, for the provers.
LEMMA Products ==
    ASSUME NEW p \in Nat \ {0}, NEW c \in Nat, NEW d \in Nat
    PROVE  /\ p * c \in Nat /\ p * 0 = 0 /\ p * (c + 1) = p * c + p
           /\ p * c <= d => c <= d \div p
<1>1. p * c \in Nat /\ p * 0 = 0 /\ p * (c + 1) = p * c + p
  OBVIOUS
<1>2. ASSUME p * c <= d PROVE c <= d \div p
  <2> DEFINE q == d \div p
  <2>1. q \in Nat /\ d < p * (q + 1)
    BY Z3
  <2> HIDE DEF q
  <2>2. CASE c > q
    <3>1. p * (q + 1) <= p * c
      <4>1. c - (q + 1) \in Nat /\ c = (q + 1) + (c - (q + 1))
        BY <2>1, <2>2
      <4>2. p * c = p * (q + 1) + p * (c - (q + 1))
        BY <2>1, <4>1
      <4>3. p * (c - (q + 1)) \in Nat /\ p * (q + 1) \in Nat
        BY <2>1, <4>1
      <4> QED
        BY <4>2, <4>3
    <3> QED
      BY <1>2, <2>1, <3>1
  <2> QED
    BY <2>1, <2>2 DEF q
<1> QED
  BY <1>1, <1>2

LEMMA ProcessFacts == ASSUME job \in Jobs PROVE Processes \in Nat \ {0} /\ (Prime => Processes = job.procs)
BY JobsAssumption DEF Processes

\* No row has been scored for longer than it takes.
LEMMA ScoredFacts ==
    ASSUME TypeOK, InTime
    PROVE  \A r \in Rows : /\ AllScored[r] \in Nat /\ AllTicks[r] \in Nat
                           /\ AllScored[r] <= AllTicks[r]
<1> TAKE r \in Rows
<1>1. Ticks(r) \in Nat /\ clock \in Nat /\ begun[r] \in Nat \cup {Queued}
  BY RowsFacts DEF TypeOK
<1>2. AllScored[r] = Scored(r) /\ AllTicks[r] = Ticks(r)
  BY DEF AllScored, AllTicks
<1>3. CASE begun[r] # Queued /\ r \in Waiting
  <2>1. begun[r] <= clock /\ clock <= begun[r] + Ticks(r)
    BY <1>3 DEF InTime, Busy
  <2>2. Scored(r) = clock - begun[r] /\ begun[r] \in Nat
    BY <1>1, <1>3 DEF Scored
  <2> QED
    BY <1>1, <1>2, <2>1, <2>2
<1>4. CASE ~(begun[r] # Queued /\ r \in Waiting)
  BY <1>1, <1>2, <1>4 DEF Scored
<1> QED
  BY <1>3, <1>4

\* The rows before a queued one have kept all processes busy so far.
LEMMA QueuedBound ==
    ASSUME TypeOK, InTime, NoneIdle, NEW r \in Waiting, begun[r] = Queued
    PROVE  Processes * clock <= Before(r)
<1>1. job \in Jobs /\ r \in Rows /\ clock \in Nat
  BY DEF TypeOK, Waiting
<1>2. r - 1 \in 0 .. Len(job.rows)
  BY <1>1, RowsFacts
<1>3. SumTo(AllScored, r - 1) <= SumTo(AllTicks, r - 1)
  BY <1>1, <1>2, ScoredFacts, SumsCompare
<1>4. SumTo(AllScored, r - 1) \in Nat /\ SumTo(AllTicks, r - 1) \in Nat
  BY <1>1, <1>2, ScoredFacts, SumNat
<1>5. Processes * clock <= SumTo(AllScored, r - 1)
  BY DEF NoneIdle
<1>6. Processes * clock \in Nat
  BY <1>1, ProcessFacts, Products
<1> QED
  BY <1>1, <1>3, <1>4, <1>5, <1>6, BeforeIsSum

LEMMA BeforeNat ==
    ASSUME job \in Jobs, NEW r \in Rows
    PROVE  Before(r) \in Nat
<1>1. \A q \in Rows : AllTicks[q] \in Nat
  BY RowsFacts DEF AllTicks
<1>2. r - 1 \in 0 .. Len(job.rows)
  BY RowsFacts
<1> QED
  BY <1>1, <1>2, SumNat, BeforeIsSum

\* What depends on the job alone.
LEMMA JobSame ==
    ASSUME job' = job
    PROVE  /\ Rows' = Rows /\ Prime' = Prime /\ Processes' = Processes
           /\ \A r : Ticks(r)' = Ticks(r) /\ Before(r)' = Before(r) /\ (Races(r)' <=> Races(r))
           /\ \A r : Deserved(r)' = Deserved(r)
           /\ AllTicks' = AllTicks
<1>1. /\ Rows' = Rows /\ Prime' = Prime /\ Processes' = Processes
      /\ \A r : Ticks(r)' = Ticks(r) /\ (Races(r)' <=> Races(r)) /\ Deserved(r)' = Deserved(r)
  BY DEF Rows, Prime, Processes, Ticks, Races, IsCode, Row, Deserved, Overruns
<1>2. AllTicks' = AllTicks
  BY <1>1 DEF AllTicks
<1>3. \A r : Before(r)' = Before(r)
  BY DEF Before, Ticks, IsCode, Row
<1> QED
  BY <1>1, <1>2, <1>3

LEMMA SumSame ==
    ASSUME job' = job, NEW n
    PROVE  SumTo(AllScored, n)' = SumTo(AllScored', n)
BY DEF SumTo

LEMMA LostSame ==
    ASSUME job' = job, broken => broken', NEW r, MayBeLost(r)
    PROVE  MayBeLost(r)'
<1>1. \A q \in Rows : IsDict(q)' = IsDict(q)
  BY DEF IsDict, Row
<1> QED
  BY <1>1, JobSame DEF MayBeLost, Late

\* A step that leaves alone what the pool has done.
LEMMA PoolKept ==
    ASSUME ScoreInv, ~broken, UNCHANGED <<job, clock, begun, result, broken, dead>>
    PROVE  Steady' /\ LostInv'
<1>1. /\ Rows' = Rows /\ Processes' = Processes /\ Waiting' = Waiting /\ Busy' = Busy
      /\ \A r : Ticks(r)' = Ticks(r) /\ Before(r)' = Before(r)
  BY JobSame DEF Waiting, Busy
<1>2. AllScored' = AllScored
  BY <1>1 DEF AllScored, Scored
<1>3. InOrder' /\ QueuedWaits' /\ InTime' /\ BegunInTime'
  BY <1>1 DEF ScoreInv, PoolInv, Steady, InOrder, QueuedWaits, InTime, BegunInTime
<1>4. NoneIdle'
  <2> SUFFICES ASSUME NEW r \in Waiting, begun[r] = Queued
               PROVE  Processes * clock <= SumTo(AllScored, r - 1)'
    BY <1>1 DEF NoneIdle
  <2>1. SumTo(AllScored, r - 1)' = SumTo(AllScored, r - 1)
    BY <1>2, SumSame
  <2> QED
    BY <2>1 DEF ScoreInv, PoolInv, Steady, NoneIdle
<1>5. LostInv'
  BY <1>1, LostSame DEF ScoreInv, LostInv
<1> QED
  BY <1>3, <1>4, <1>5 DEF ScoreInv, PoolInv, Steady

LEMMA TakeUpPool == ScoreInv /\ ~broken /\ TakeUp => Steady' /\ LostInv'
<1> SUFFICES ASSUME ScoreInv, ~broken, TakeUp PROVE Steady' /\ LostInv'
  OBVIOUS
<1> USE DEF ScoreInv, PoolInv, Steady
<1>1. PICK r \in Waiting : Upcoming(r) /\ begun' = [begun EXCEPT ![r] = clock]
  BY DEF TakeUp
<1>2. UNCHANGED <<job, clock, result, broken, dead>>
  BY DEF TakeUp
<1>3. /\ Rows' = Rows /\ Processes' = Processes /\ Waiting' = Waiting
      /\ \A q : Ticks(q)' = Ticks(q) /\ Before(q)' = Before(q)
  BY <1>2, JobSame DEF Waiting
<1>4. /\ r \in Rows /\ clock \in Nat /\ clock # Queued /\ job \in Jobs /\ Rows \subseteq Nat
      /\ begun \in [Rows -> Nat \cup {Queued}] /\ begun[r] = Queued
      /\ \A q \in Rows : q < r => begun[q] # Queued
  <2>1. r \in Rows /\ job \in Jobs /\ clock \in Nat /\ begun \in [Rows -> Nat \cup {Queued}]
    BY <1>1 DEF TypeOK, Waiting
  <2>2. Rows \subseteq Nat
    BY <2>1, RowsFacts
  <2>3. clock # Queued
    BY <2>1 DEF Queued
  <2>4. begun[r] = Queued /\ \A q \in Rows : q < r => begun[q] # Queued
    BY <1>1 DEF Upcoming
  <2> QED
    BY <2>1, <2>2, <2>3, <2>4
<1>5. begun'[r] = clock /\ \A q \in Rows : q # r => begun'[q] = begun[q]
  BY <1>1, <1>4
<1>6. AllScored' = AllScored
  <2>1. \A q \in Rows : Scored(q)' = Scored(q)
    BY <1>1, <1>2, <1>3, <1>4, <1>5 DEF Scored
  <2> QED
    BY <1>3, <2>1 DEF AllScored
<1>7. InOrder'
  <2> SUFFICES ASSUME NEW q \in Rows, NEW s \in Rows, q < s, begun'[q] = Queued PROVE begun'[s] = Queued
    BY <1>3 DEF InOrder
  <2>1. q # r /\ begun[q] = Queued
    BY <1>4, <1>5
  <2>2. s # r
    BY <1>4, <2>1
  <2> QED
    BY <1>5, <2>1, <2>2 DEF InOrder
<1>8. QueuedWaits'
  BY <1>3, <1>4, <1>5 DEF QueuedWaits
<1>9. InTime'
  <2> SUFFICES ASSUME NEW q \in Waiting, begun'[q] # Queued
               PROVE  begun'[q] <= clock /\ clock <= begun'[q] + Ticks(q)
    BY <1>2, <1>3 DEF InTime, Busy
  <2>1. q \in Rows /\ Ticks(q) \in Nat
    BY <1>4, RowsFacts DEF Waiting
  <2>2. CASE q = r
    BY <1>4, <1>5, <2>1, <2>2
  <2>3. CASE q # r
    <3>1. q \in Busy /\ begun'[q] = begun[q]
      BY <1>5, <2>1, <2>3 DEF Busy
    <3> QED
      BY <3>1 DEF InTime
  <2> QED
    BY <2>2, <2>3
<1>10. NoneIdle'
  <2> SUFFICES ASSUME NEW q \in Waiting, begun'[q] = Queued
               PROVE  Processes * clock <= SumTo(AllScored, q - 1)'
    BY <1>2, <1>3 DEF NoneIdle
  <2>1. SumTo(AllScored, q - 1)' = SumTo(AllScored, q - 1)
    BY <1>2, <1>6, SumSame
  <2>2. begun[q] = Queued
    BY <1>4, <1>5 DEF Waiting
  <2> QED
    BY <2>1, <2>2 DEF NoneIdle
<1>11. BegunInTime'
  <2> SUFFICES ASSUME NEW q \in Rows, begun'[q] # Queued PROVE Processes * begun'[q] <= Before(q)
    BY <1>3 DEF BegunInTime
  <2>1. CASE q = r
    BY <1>1, <1>4, <1>5, <2>1, QueuedBound
  <2>2. CASE q # r
    BY <1>5, <2>2 DEF BegunInTime
  <2> QED
    BY <2>1, <2>2
<1>12. LostInv'
  BY <1>2, <1>3, LostSame DEF LostInv
<1> QED
  BY <1>2, <1>7, <1>8, <1>9, <1>10, <1>11, <1>12

LEMMA FinishPool == ScoreInv /\ ~broken /\ Finish => Steady' /\ LostInv'
<1> SUFFICES ASSUME ScoreInv, ~broken, Finish PROVE Steady' /\ LostInv'
  OBVIOUS
<1> USE DEF ScoreInv, PoolInv, Steady
<1>1. PICK r \in Rows : /\ AtEnd(r)
                        /\ \E o \in Outcomes(r) :
                              result' = [result EXCEPT ![r] = IF o = "raised" /\ Prime THEN "lost" ELSE o]
  BY DEF Finish
<1>2. PICK o \in Outcomes(r) :
          result' = [result EXCEPT ![r] = IF o = "raised" /\ Prime THEN "lost" ELSE o]
  BY <1>1
<1>3. UNCHANGED <<job, clock, begun, broken, dead>>
  BY DEF Finish
<1>4. /\ Rows' = Rows /\ Processes' = Processes
      /\ \A q : Ticks(q)' = Ticks(q) /\ Before(q)' = Before(q)
  BY <1>3, JobSame
<1>5. /\ job \in Jobs /\ result \in [Rows -> Results]
      /\ o \in {"right", "wrong", "raised"} /\ (o = "raised" => NoConfig \/ Races(r))
  BY OutcomeTypes, JobTypes DEF TypeOK, Outcomes
<1>6. /\ result'[r] # "waiting" /\ (result'[r] = "lost" => Races(r))
      /\ \A q \in Rows : q # r => result'[q] = result[q]
  BY <1>2, <1>5 DEF NoConfig, Prime
<1>7. Waiting' = Waiting \ {r}
  BY <1>4, <1>6 DEF Waiting
<1>8. r \in Waiting /\ begun[r] # Queued /\ clock = begun[r] + Ticks(r)
  BY <1>1 DEF AtEnd, Busy
<1>9. AllScored' = AllScored
  <2>1. begun[r] \in Nat /\ Ticks(r) \in Nat
    BY <1>5, <1>8, RowsFacts DEF TypeOK
  <2>2. \A q \in Rows : Scored(q)' = Scored(q)
    BY <1>3, <1>4, <1>7, <1>8, <2>1 DEF Scored
  <2> QED
    BY <1>4, <2>2 DEF AllScored
<1>10. InOrder' /\ BegunInTime'
  BY <1>3, <1>4 DEF InOrder, BegunInTime
<1>11. QueuedWaits'
  BY <1>3, <1>4, <1>7, <1>8 DEF QueuedWaits
<1>12. InTime'
  BY <1>3, <1>4, <1>7 DEF InTime, Busy
<1>13. NoneIdle'
  <2> SUFFICES ASSUME NEW q \in Waiting, begun[q] = Queued
               PROVE  Processes * clock <= SumTo(AllScored, q - 1)'
    BY <1>3, <1>4, <1>7 DEF NoneIdle
  <2>1. SumTo(AllScored, q - 1)' = SumTo(AllScored, q - 1)
    BY <1>3, <1>9, SumSame
  <2> QED
    BY <2>1 DEF NoneIdle
<1>14. LostInv'
  <2> SUFFICES ASSUME NEW q \in Rows, result'[q] = "lost" PROVE MayBeLost(q)
    BY <1>3, <1>4, LostSame DEF LostInv
  <2>1. CASE q = r
    BY <1>6, <2>1 DEF MayBeLost
  <2>2. CASE q # r
    BY <1>6, <2>2 DEF LostInv
  <2> QED
    BY <2>1, <2>2
<1> QED
  BY <1>3, <1>10, <1>11, <1>12, <1>13, <1>14

\* A row is given up for one of the reasons that MayBeLost names.
LEMMA DeadlineBound ==
    ASSUME ScoreInv, ~broken, DeadlineReached, NEW r \in Waiting
    PROVE  MayBeLost(r)
<1> USE DEF ScoreInv, PoolInv, Steady
<1>1. /\ Prime /\ clock = job.deadline /\ job \in Jobs /\ r \in Rows /\ clock \in Nat
      /\ begun[r] \in Nat \cup {Queued}
  BY DEF DeadlineReached, TypeOK, Waiting
<1>2. Processes \in Nat \ {0} /\ Processes = job.procs /\ Before(r) \in Nat /\ Ticks(r) \in Nat
  BY <1>1, ProcessFacts, BeforeNat, RowsFacts
<1> DEFINE rounds == Before(r) \div job.procs
<1>3. rounds \in Nat
  BY <1>2
<1>4. rounds + Ticks(r) >= job.deadline
  <2>1. CASE begun[r] = Queued
    <3>1. clock <= rounds
      BY <1>1, <1>2, <2>1, QueuedBound, Products
    <3> HIDE DEF rounds
    <3> QED
      BY <1>1, <1>2, <1>3, <3>1
  <2>2. CASE begun[r] # Queued
    <3>1. begun[r] \in Nat /\ Processes * begun[r] <= Before(r)
      BY <1>1, <2>2 DEF BegunInTime
    <3>2. begun[r] <= rounds
      BY <1>2, <3>1, Products
    <3>3. clock <= begun[r] + Ticks(r)
      BY <2>2 DEF InTime, Busy
    <3> HIDE DEF rounds
    <3> QED
      BY <1>1, <1>2, <1>3, <3>1, <3>2, <3>3
  <2> QED
    BY <2>1, <2>2
<1> QED
  BY <1>1, <1>4 DEF MayBeLost, Late

LEMMA LosePool ==
    ASSUME ScoreInv, ~broken, LoseWaiting, UNCHANGED <<job, clock, begun, broken, dead>>,
           \A r \in Waiting : MayBeLost(r)
    PROVE  Steady' /\ LostInv'
<1> USE DEF ScoreInv, PoolInv, Steady
<1>1. /\ Rows' = Rows /\ Processes' = Processes /\ Prime' = Prime
      /\ \A q : Before(q)' = Before(q)
  BY JobSame
<1>2. Waiting' = {}
  BY <1>1 DEF LoseWaiting, Waiting
<1>3. InOrder' /\ BegunInTime'
  BY <1>1 DEF InOrder, BegunInTime
<1>4. QueuedWaits' /\ InTime' /\ NoneIdle'
  BY <1>2 DEF QueuedWaits, InTime, NoneIdle, Busy
<1>5. LostInv'
  <2> SUFFICES ASSUME NEW r \in Rows, result'[r] = "lost" PROVE MayBeLost(r)'
    BY <1>1 DEF LostInv
  <2>1. MayBeLost(r)
    BY DEF LoseWaiting, LostInv
  <2> QED
    BY <2>1, LostSame
<1> QED
  BY <1>3, <1>4, <1>5

\* While a row is queued, time passes only with every process at work.
LEMMA AllBusy ==
    ASSUME ScoreInv, ~broken, Working, ~CanTakeUp, NEW r \in Waiting, begun[r] = Queued
    PROVE  /\ IsFiniteSet(Busy) /\ Cardinality(Busy) \in Nat /\ Cardinality(Busy) >= Processes
           /\ Busy \subseteq 1 .. r - 1
<1> USE DEF ScoreInv, PoolInv, Steady
<1>1. /\ job \in Jobs /\ Len(job.rows) \in Nat /\ Rows = 1 .. Len(job.rows)
      /\ Waiting \subseteq Rows /\ Busy \subseteq Rows
  BY RowsFacts DEF TypeOK, Waiting, Busy
<1>2. ASSUME NEW q \in Busy PROVE q \in 1 .. r - 1
  <2>1. q \in Rows /\ r \in Rows /\ begun[q] # Queued /\ q # r
    BY <1>1 DEF Busy
  <2>2. ~(r < q)
    BY <2>1 DEF InOrder
  <2> QED
    BY <1>1, <2>1, <2>2
<1>3. IsFiniteSet(Busy)
  <2>1. IsFiniteSet(1 .. r - 1)
    BY <1>1, FS_Interval
  <2> QED
    BY <1>2, <2>1, FS_Subset
<1> DEFINE Unbegun == {q \in Rows : begun[q] = Queued}
<1>4. PICK first \in Unbegun : \A q \in Unbegun : <<q, first>> \notin OpToRel(<, Nat)
  <2>1. Unbegun \subseteq Nat /\ r \in Unbegun
    BY <1>1
  <2> HIDE DEF Unbegun
  <2> QED
    BY <2>1, NatLessThanWellFounded, WFMin
<1>5. Upcoming(first)
  <2> SUFFICES ASSUME NEW q \in Rows, q < first, begun[q] = Queued PROVE FALSE
    BY DEF Upcoming
  <2>1. <<q, first>> \in OpToRel(<, Nat)
    BY <1>1 DEF OpToRel
  <2> QED
    BY <1>4, <2>1
<1>6. first \in Waiting
  BY DEF QueuedWaits
<1>7. ~HasFree
  BY <1>5, <1>6 DEF CanTakeUp
<1>8. Cardinality(Busy) \in Nat /\ Processes \in Nat
  BY <1>1, <1>3, FS_CardinalityType, ProcessFacts
<1> QED
  BY <1>2, <1>3, <1>7, <1>8 DEF HasFree

LEMMA TickPool == ScoreInv /\ ~broken /\ Tick => Steady' /\ LostInv'
<1> SUFFICES ASSUME ScoreInv, ~broken, Tick PROVE Steady' /\ LostInv'
  OBVIOUS
<1> USE DEF ScoreInv, PoolInv, Steady
<1>1. clock' = clock + 1 /\ UNCHANGED <<job, begun, result, broken, dead>>
  BY DEF Tick
<1>2. /\ Rows' = Rows /\ Processes' = Processes /\ Waiting' = Waiting /\ Busy' = Busy
      /\ \A q : Ticks(q)' = Ticks(q) /\ Before(q)' = Before(q)
  BY <1>1, JobSame DEF Waiting, Busy
<1>3. InOrder' /\ QueuedWaits' /\ BegunInTime'
  BY <1>1, <1>2 DEF InOrder, QueuedWaits, BegunInTime
<1>4. job \in Jobs /\ clock \in Nat /\ begun \in [Rows -> Nat \cup {Queued}]
  BY DEF TypeOK
<1>5. InTime'
  <2> SUFFICES ASSUME NEW r \in Busy PROVE begun[r] <= clock + 1 /\ clock + 1 <= begun[r] + Ticks(r)
    BY <1>1, <1>2 DEF InTime
  <2>1. r \in Rows /\ begun[r] \in Nat /\ Ticks(r) \in Nat
    BY <1>4, RowsFacts DEF Busy, Waiting
  <2>2. begun[r] <= clock /\ clock <= begun[r] + Ticks(r)
    BY DEF InTime
  <2>3. clock # begun[r] + Ticks(r)
    BY <2>1 DEF Tick, AtEnd
  <2> QED
    BY <1>4, <2>1, <2>2, <2>3
<1>6. NoneIdle'
  <2> SUFFICES ASSUME NEW r \in Waiting, begun[r] = Queued
               PROVE  Processes * (clock + 1) <= SumTo(AllScored, r - 1)'
    BY <1>1, <1>2 DEF NoneIdle
  <2>1. /\ IsFiniteSet(Busy) /\ Cardinality(Busy) \in Nat /\ Cardinality(Busy) >= Processes
        /\ Busy \subseteq 1 .. r - 1
    BY AllBusy DEF Tick
  <2>2. /\ r \in Rows /\ Busy \subseteq Rows
        /\ Len(job.rows) \in Nat /\ Rows = 1 .. Len(job.rows)
    BY <1>4, RowsFacts DEF Waiting, Busy
  <2>3. ASSUME NEW q \in Rows
        PROVE  AllScored[q] \in Nat /\ AllScored'[q] = AllScored[q] + (IF q \in Busy THEN 1 ELSE 0)
    <3>1. AllScored[q] \in Nat
      BY ScoredFacts
    <3>2. AllScored[q] = Scored(q) /\ AllScored'[q] = Scored(q)'
      BY <1>2 DEF AllScored
    <3>3. CASE q \in Busy
      <4>1. begun[q] # Queued /\ q \in Waiting /\ begun[q] \in Nat
        BY <1>4, <3>3 DEF Busy
      <4>2. Scored(q) = clock - begun[q]
        BY <4>1 DEF Scored
      <4>3. Scored(q)' = clock' - begun'[q]
        BY <1>1, <1>2, <4>1 DEF Scored
      <4>4. clock' - begun'[q] = (clock - begun[q]) + 1
        BY <1>1, <1>4, <4>1
      <4> QED
        BY <3>1, <3>2, <3>3, <4>2, <4>3, <4>4
    <3>4. CASE q \notin Busy
      <4>1. Scored(q)' = Scored(q)
        BY <1>1, <1>2, <3>4 DEF Scored, Busy
      <4> QED
        BY <3>1, <3>2, <3>4, <4>1
    <3> QED
      BY <3>3, <3>4
  <2>4. SumTo(AllScored', r - 1) = SumTo(AllScored, r - 1) + Cardinality(Busy \cap 1 .. r - 1)
    <3>1. r - 1 \in 0 .. Len(job.rows)
      BY <2>2
    <3> DEFINE f == AllScored
               g == AllScored'
    <3>2. Busy \subseteq Rows /\ OneMore(f, g, Busy)
      BY <2>2, <2>3 DEF OneMore
    <3> HIDE DEF f, g
    <3>3. SumTo(g, r - 1) = SumTo(f, r - 1) + Cardinality(Busy \cap 1 .. r - 1)
      BY <1>4, <3>1, <3>2, SumsOneMore
    <3> QED
      BY <3>3 DEF f, g
  <2>5. Busy \cap 1 .. r - 1 = Busy
    BY <2>1
  <2>6. SumTo(AllScored, r - 1) \in Nat
    <3>1. r - 1 \in 0 .. Len(job.rows)
      BY <2>2
    <3> QED
      BY <1>4, <2>3, <3>1, SumNat
  <2>7. Processes * clock <= SumTo(AllScored, r - 1)
    BY DEF NoneIdle
  <2>8. Processes \in Nat \ {0}
    BY <1>4, ProcessFacts
  <2>9. Processes * (clock + 1) = Processes * clock + Processes /\ Processes * clock \in Nat
    BY <1>4, <2>8, Products
  <2>10. SumTo(AllScored, r - 1)' = SumTo(AllScored', r - 1)
    BY <1>1, SumSame
  <2> DEFINE before == SumTo(AllScored, r - 1)
             counted == Cardinality(Busy)
             spent == Processes * clock
  <2>11. SumTo(AllScored', r - 1) = before + counted
    BY <2>4, <2>5
  <2>12. /\ before \in Nat /\ counted \in Nat /\ counted >= Processes /\ spent \in Nat
         /\ Processes \in Nat /\ spent <= before
    BY <2>1, <2>6, <2>7, <2>8, <2>9
  <2> HIDE DEF before, counted, spent
  <2>13. spent + Processes <= before + counted
    BY <2>12
  <2>14. Processes * (clock + 1) = spent + Processes
    BY <2>9 DEF spent
  <2> QED
    BY <2>10, <2>11, <2>13, <2>14
<1>7. LostInv'
  BY <1>1, <1>2, LostSame DEF LostInv
<1> QED
  BY <1>1, <1>3, <1>5, <1>6, <1>7

\* A call of the manager begins with all rows queued.
LEMMA FreshPool ==
    (/\ job \in Jobs /\ clock = 0 /\ begun = Blank(Queued) /\ result = Blank("waiting")
     /\ dead = {} /\ ~broken)
        => (PoolInv /\ LostInv /\ ResultInv)
<1> SUFFICES ASSUME job \in Jobs, clock = 0, begun = Blank(Queued), result = Blank("waiting"),
                    dead = {}, ~broken
             PROVE  PoolInv /\ LostInv /\ ResultInv
  OBVIOUS
<1>1. \A r \in Rows : begun[r] = Queued /\ result[r] = "waiting"
  BY DEF Blank
<1>2. InOrder /\ QueuedWaits /\ InTime /\ BegunInTime
  BY <1>1 DEF InOrder, QueuedWaits, InTime, BegunInTime, Waiting, Busy
<1>3. NoneIdle
  <2> SUFFICES ASSUME NEW r \in Waiting PROVE Processes * clock <= SumTo(AllScored, r - 1)
    BY DEF NoneIdle
  <2>1. \A q \in Rows : AllScored[q] \in Nat
    BY <1>1 DEF AllScored, Scored
  <2>2. r - 1 \in 0 .. Len(job.rows)
    BY RowsFacts DEF Waiting
  <2>3. SumTo(AllScored, r - 1) \in Nat
    BY <2>1, <2>2, SumNat
  <2>4. Processes * 0 = 0
    BY ProcessFacts, Products
  <2> QED
    BY <2>3, <2>4
<1>4. LostInv /\ ResultInv
  BY <1>1 DEF LostInv, ResultInv
<1> QED
  BY <1>2, <1>3, <1>4 DEF PoolInv, Steady

LEMMA ScoreAgainPool == ScoreInv /\ ScoreAgain => PoolInv' /\ LostInv'
<1> SUFFICES ASSUME ScoreInv, ScoreAgain PROVE PoolInv' /\ LostInv'
  OBVIOUS
<1>1. /\ job \in Jobs /\ job' = job /\ clock' = 0 /\ begun' = Blank(Queued)
      /\ result' = Blank("waiting") /\ dead' = {} /\ ~broken'
  BY DEF ScoreInv, TypeOK, ScoreAgain
<1>2. Blank(Queued)' = Blank(Queued) /\ Blank("waiting")' = Blank("waiting")
  BY <1>1, JobSame DEF Blank
<1>3. (/\ job \in Jobs /\ clock = 0 /\ begun = Blank(Queued) /\ result = Blank("waiting")
       /\ dead = {} /\ ~broken)'
  BY <1>1, <1>2
<1> QED
  BY <1>3, FreshPool, PTL

LEMMA PoolStep == ScoreInv /\ [Next]_vars => PoolInv' /\ LostInv'
<1> SUFFICES ASSUME ScoreInv, [Next]_vars PROVE PoolInv' /\ LostInv'
  OBVIOUS
<1>0. Rows' = Rows /\ Prime' = Prime
  BY JobKept, JobSame
<1>1. CASE ScoreAgain
  BY <1>1, ScoreAgainPool
<1>2. CASE broken'
  <2>1. Prime
    BY <1>1, <1>2 DEF Next, vars, TakeUp, Finish, DeadlinePasses, WorkerDies, GraderDies, Tick,
       ScoreAgain, ManagerRaises, ManagerReturns, Attach, ScoreInv, PoolInv
  <2>2. \A r : MayBeLost(r)'
    BY <1>0, <1>2, <2>1 DEF MayBeLost
  <2> QED
    BY <1>0, <1>2, <2>1, <2>2 DEF PoolInv, LostInv
<1>3. CASE ~broken' /\ ~ScoreAgain
  <2>1. ~broken /\ ~WorkerDies /\ ~GraderDies
    BY <1>3 DEF Next, vars, TakeUp, Finish, DeadlinePasses, WorkerDies, GraderDies, Tick,
       ManagerRaises, ManagerReturns, Attach
  <2>2. ASSUME DeadlinePasses PROVE Steady' /\ LostInv'
    <3>1. \A r \in Waiting : MayBeLost(r)
      BY <2>1, <2>2, DeadlineBound DEF DeadlinePasses
    <3> QED
      BY <2>1, <2>2, <3>1, LosePool DEF DeadlinePasses
  <2>3. ASSUME UNCHANGED <<job, clock, begun, result, broken, dead>> PROVE Steady' /\ LostInv'
    BY <2>1, <2>3, PoolKept
  <2>4. Steady' /\ LostInv'
    BY <1>3, <2>1, <2>2, <2>3, TakeUpPool, FinishPool, TickPool
    DEF Next, vars, ManagerRaises, ManagerReturns, Attach
  <2> QED
    BY <1>3, <2>4 DEF PoolInv
<1> QED
  BY <1>1, <1>2, <1>3

LEMMA RewardStep == ScoreInv /\ [Next]_vars => ScoresExplained'
<1> SUFFICES ASSUME ScoreInv, [Next]_vars PROVE ScoresExplained'
  OBVIOUS
<1>0. job' = job /\ job \in Jobs
  BY JobKept DEF ScoreInv, TypeOK
<1>1. Rows' = Rows /\ \A r : Deserved(r)' = Deserved(r)
  BY <1>0, JobSame
<1>2. ASSUME ManagerReturns PROVE ScoresExplained'
  <2> SUFFICES ASSUME NEW r \in Rows
               PROVE  reward'[r] = Deserved(r) \/ (reward'[r] = "wrong" /\ MayBeLost(r))
    BY <1>0, <1>1, <1>2, LostSame DEF ScoresExplained, ManagerReturns
  <2>1. result[r] \notin {"waiting", "raised"}
    BY <1>2 DEF ManagerReturns, CallOver, RowsOver, Stopped, Waiting
  <2>2. reward'[r] = IF NoNumber \/ result[r] = "lost" THEN "wrong" ELSE result[r]
    BY <1>2 DEF ManagerReturns, Scores
  <2>3. CASE NoNumber
    BY <2>2, <2>3 DEF NoNumber, MayBeLost
  <2>4. CASE ~NoNumber /\ result[r] = "lost"
    BY <2>2, <2>4 DEF ScoreInv, LostInv
  <2>5. CASE ~NoNumber /\ result[r] # "lost"
    <3>1. Fair(r, result[r])
      BY <2>1, <2>5 DEF ScoreInv, ResultInv
    <3> QED
      BY <2>2, <2>5, <3>1 DEF Fair, MayBeLost
  <2> QED
    BY <2>3, <2>4, <2>5
<1>3. ASSUME Attach PROVE ScoresExplained'
  <2>1. phase \in {"scored", "returned"} /\ reward' = reward /\ broken' = broken
    BY <1>3 DEF Attach
  <2> QED
    BY <1>0, <1>1, <2>1, LostSame DEF ScoreInv, ScoresExplained
<1>4. ASSUME UNCHANGED vars PROVE ScoresExplained'
  BY <1>0, <1>1, <1>4, LostSame DEF vars, ScoreInv, ScoresExplained
<1>5. ASSUME phase' \in {"scoring", "raised", "hung"} PROVE ScoresExplained'
  BY <1>5 DEF ScoresExplained
<1> QED
  BY <1>2, <1>3, <1>4, <1>5
  DEF Next, TakeUp, CanTakeUp, Finish, DeadlinePasses, DeadlineReached, WorkerDies, GraderDies, Tick, Working,
      ScoreAgain, CallOver, ManagerRaises

\* For any batch, any number of processes and any deadline, after one call of the manager
\* or two: the score of every row is the verdict on its own response, or 0 where its grader
\* was killed just as its program ended, a process of the pool died, a dict is in a pool's
\* batch, or the rows before it, shared among the processes, left it too little time
\* (parallel_compute_score_async).
THEOREM ScoresRight == Spec => []ScoresExplained
<1>1. Init => ScoreInv
  <2> SUFFICES ASSUME Init PROVE ScoreInv
    OBVIOUS
  <2>1. TypeOK
    BY InitInv DEF IInv
  <2>2. PoolInv /\ LostInv /\ ResultInv
    BY <2>1, FreshPool DEF Init, TypeOK
  <2> QED
    BY <2>1, <2>2 DEF Init, ScoreInv, ScoresExplained
<1>2. IInv /\ ScoreInv /\ [Next]_vars => ScoreInv'
  BY TypeStep, ResultStep, PoolStep, RewardStep DEF ScoreInv
<1>3. ScoreInv => ScoresExplained
  BY DEF ScoreInv
<1> QED
  BY <1>1, <1>2, <1>3, Inductive, PTL DEF Spec

================================================================================
