------------------------ MODULE RolloutServers_proofs ------------------------
(***************************************************************************)
(* Theorems of RolloutServers, for any configurations and any number of    *)
(* steps.                                                                  *)
(*                                                                         *)
(* The invariant behind them follows a job through fit: where parameters   *)
(* and optimizer are between and within calls (Placed), and what engines   *)
(* have before and after the first generation (Engines, Versions), which   *)
(* is always the second call of fit (lemma FirstIsSecond).  Streams, below *)
(* it, follows the generators of random numbers in the same way: which one *)
(* is in place, and what the two saved ones are.                           *)
(***************************************************************************)
EXTENDS RolloutServers, SequenceTheorems, TLAPS

Going      == phase \in {"servers", "engines", "fit"}
InGenerate == Fit[at] = "generate" /\ stage # "begin"
Home       == HostIf(job.offload)

\* Before fit, its first call has not begun.
Before == phase \in {"servers", "engines"} => at = 1 /\ stage = "begin" /\ Async

\* Where the actor's parameters and its optimizer are.
Placed ==
    Going =>
        /\ stage = "begin" \/ Fit[at] = "generate" => params = Home /\ optim = Home
        /\ stage # "begin" /\ Fit[at] # "generate" =>
              /\ Fit[at] # "load" \/ ~job.offload => params = "gpu"
              /\ optim = IF Fit[at] = "update" THEN "gpu" ELSE Home

\* Who holds the devices, and what the rollouts think.
Engines ==
    Going =>
        /\ InGenerate => awake
        /\ ~InGenerate /\ at > 2 => ~awake
        /\ job.engine = "vllm_async" /\ at <= 2 /\ (phase = "fit" \/ started # {}) => awake
        /\ Async /\ ~InGenerate => isSleep = (job.engine = "sglang_async" \/ at > 2)

\* What the actor and the engines have.
Versions ==
    Going =>
        /\ at = 1 /\ stage # "end" => version = 0
        /\ (at > 1 \/ stage = "end") /\ at <= 2 => version = (IF job.resumed THEN 1 ELSE 0)
        /\ job.engine = "vllm_async" /\ at <= 2 => weights = 0
        /\ InGenerate /\ ~(job.engine = "vllm_async" /\ job.resumed /\ at <= 2) => weights = version

IInv == TypeOK /\ Before /\ Placed /\ Engines /\ Versions

-------------------------------------------------------------------------------
(* The calls of fit *)

Later == <<"save", "generate", "log_prob", "update">>

\* fit loads, then generates, and never loads again.
LEMMA FitFacts ==
    ASSUME job \in Jobs
    PROVE  /\ Len(Fit) \in Nat /\ Len(Fit) >= 1
           /\ Fit[1] = "load"
           /\ \A i \in 2 .. Len(Fit) : Fit[i] \in {"generate", "log_prob", "update", "save"}
           /\ 2 <= Len(Fit) => Fit[2] = "generate"
<1> DEFINE tail == [i \in 1 .. 4 * Steps |-> Later[1 + (i % 4)]]
           one  == <<"load">>
           vals == IF job.validate THEN <<"generate">> ELSE <<>>
           K    == {"generate", "log_prob", "update", "save", "load"}
<1>1. Steps \in Nat /\ 4 * Steps \in Nat /\ job.validate \in BOOLEAN
  BY ServersAssumption DEF ServersAssumption
<1>2. Fit = (one \o vals) \o tail
  BY DEF Fit, Later
<1>3. ASSUME NEW i \in 1 .. 4 * Steps
      PROVE  Later[1 + (i % 4)] \in {"generate", "log_prob", "update", "save"}
  <2>1. i % 4 \in {0, 1, 2, 3}
    BY <1>1, <1>3
  <2>2. 1 + (i % 4) \in {1, 2, 3, 4}
    BY <2>1
  <2> QED
    BY <2>2 DEF Later
<1>4. tail \in Seq(K) /\ Len(tail) = 4 * Steps
  <2>1. tail \in [1 .. 4 * Steps -> K]
    BY <1>3
  <2> QED
    BY <1>1, <2>1
<1>5. one \in Seq(K) /\ Len(one) = 1 /\ one[1] = "load"
  OBVIOUS
<1>6. vals \in Seq(K) /\ Len(vals) \in {0, 1} /\ (Len(vals) = 1 => vals[1] = "generate")
  <2>1. CASE job.validate
    BY <2>1
  <2>2. CASE ~job.validate
    BY <2>2
  <2> QED
    BY <2>1, <2>2
<1>7. tail[1] = "generate" \/ Len(tail) = 0
  <2>1. CASE Steps = 0
    BY <2>1, <1>4
  <2>2. CASE Steps # 0
    <3>1. 1 \in 1 .. 4 * Steps
      BY <1>1, <2>2
    <3>2. tail[1] = Later[1 + (1 % 4)]
      BY <3>1
    <3>3. 1 + (1 % 4) = 2
      OBVIOUS
    <3> QED
      BY <3>2, <3>3 DEF Later
  <2> QED
    BY <2>1, <2>2
<1>8. \A i \in 1 .. Len(tail) : tail[i] \in {"generate", "log_prob", "update", "save"}
  BY <1>3, <1>4
<1> HIDE DEF tail, one, vals, K
<1>9. /\ one \o vals \in Seq(K) /\ Len(one \o vals) = 1 + Len(vals)
      /\ (one \o vals)[1] = "load" /\ (Len(vals) = 1 => (one \o vals)[2] = "generate")
  <2>1. /\ one \o vals \in Seq(K) /\ Len(one \o vals) = Len(one) + Len(vals)
        /\ \A i \in 1 .. Len(one) + Len(vals) :
              (one \o vals)[i] = IF i <= Len(one) THEN one[i] ELSE vals[i - Len(one)]
    BY <1>5, <1>6, ConcatProperties
  <2> QED
    BY <2>1, <1>5, <1>6
<1>10. Len(Fit) = 1 + Len(vals) + Len(tail) /\ Len(tail) \in Nat
  <2>1. Len((one \o vals) \o tail) = Len(one \o vals) + Len(tail)
    BY <1>4, <1>9, ConcatProperties
  <2> QED
    BY <2>1, <1>1, <1>2, <1>4, <1>9
<1>11. \A i \in 1 .. Len(Fit) :
          Fit[i] = IF i <= 1 + Len(vals) THEN (one \o vals)[i] ELSE tail[i - (1 + Len(vals))]
  <2>1. \A i \in 1 .. Len(one \o vals) + Len(tail) :
          ((one \o vals) \o tail)[i] =
             IF i <= Len(one \o vals) THEN (one \o vals)[i] ELSE tail[i - Len(one \o vals)]
    BY <1>4, <1>9, ConcatProperties
  <2> QED
    BY <2>1, <1>2, <1>9, <1>10
<1>12. ASSUME NEW i \in 2 .. Len(Fit)
       PROVE  Fit[i] \in {"generate", "log_prob", "update", "save"}
  <2>1. CASE i <= 1 + Len(vals)
    <3>1. i \in Nat /\ i >= 2
      BY <1>6, <1>10, <1>12
    <3> DEFINE n == Len(vals)
    <3>a. n \in {0, 1} /\ i <= 1 + n
      BY <2>1, <1>6
    <3> HIDE DEF n
    <3>b. n = 1 /\ i = 2
      BY <3>1, <3>a
    <3>2. Len(vals) = 1 /\ i = 2
      BY <3>b DEF n
    <3> QED
      BY <3>2, <2>1, <1>9, <1>11, <1>12, <1>10
  <2>2. CASE ~(i <= 1 + Len(vals))
    <3>1. i - (1 + Len(vals)) \in 1 .. Len(tail)
      BY <2>2, <1>6, <1>10, <1>12
    <3>2. Fit[i] = tail[i - (1 + Len(vals))]
      BY <2>2, <1>11, <1>12, <1>10, <1>6
    <3> QED
      BY <3>1, <3>2, <1>8
  <2> QED
    BY <2>1, <2>2
<1>13. ASSUME 2 <= Len(Fit) PROVE Fit[2] = "generate"
  <2>1. CASE Len(vals) = 1
    BY <2>1, <1>9, <1>10, <1>11, <1>13
  <2>2. CASE Len(vals) = 0
    <3>1. Len(tail) # 0
      BY <2>2, <1>10, <1>13
    <3>2. Fit[2] = tail[1]
      BY <2>2, <1>10, <1>11, <1>13
    <3> QED
      BY <3>1, <3>2, <1>7
  <2> QED
    BY <2>1, <2>2, <1>6
<1>14. Fit[1] = "load"
  BY <1>6, <1>9, <1>10, <1>11
<1> QED
  BY <1>6, <1>10, <1>12, <1>13, <1>14

\* No generation precedes the second call, and that is one.
LEMMA FirstIsSecond ==
    ASSUME TypeOK
    PROVE  FirstGenerate <=> at <= 2
<1>1. job \in Jobs /\ at \in 1 .. Len(Fit)
  BY DEF TypeOK
<1>2. ASSUME at <= 2, NEW i \in 1 .. Len(Fit), Fit[i] = "generate" PROVE at <= i
  <2>1. i # 1
    BY <1>1, <1>2, FitFacts
  <2> QED
    BY <1>1, <1>2, <2>1, FitFacts
<1>3. ASSUME ~(at <= 2) PROVE 2 \in 1 .. Len(Fit) /\ Fit[2] = "generate"
  BY <1>1, <1>3, FitFacts
<1> QED
  BY <1>2, <1>3 DEF FirstGenerate

\* There is a server, so that the engines of all are those of some.
LEMMA SomeServer == job \in Jobs => Servers # {}
<1> SUFFICES ASSUME job \in Jobs PROVE Servers # {}
  OBVIOUS
<1>1. job.nodes \in Nat \ {0} /\ job.perNode \in Nat \ {0}
  BY ServersAssumption DEF ServersAssumption
<1>2. job.nodes * job.perNode \in Nat \ {0}
  BY <1>1
<1>3. 0 \in Ranks
  BY <1>2 DEF Ranks, Size
<1> QED
  BY <1>3 DEF Servers

\* The first call, and only that, loads; the second, if there is one, generates.
LEMMA Calls ==
    ASSUME TypeOK
    PROVE  /\ Len(Fit) \in Nat /\ at \in 1 .. Len(Fit)
           /\ \A i \in 1 .. Len(Fit) :
                 /\ Fit[i] \in {"load", "generate", "log_prob", "update", "save"}
                 /\ Fit[i] = "load" <=> i = 1
                 /\ i = 2 => Fit[i] = "generate"
<1>1. job \in Jobs /\ at \in 1 .. Len(Fit)
  BY DEF TypeOK
<1>2. ASSUME NEW i \in 1 .. Len(Fit)
      PROVE  /\ Fit[i] \in {"load", "generate", "log_prob", "update", "save"}
             /\ Fit[i] = "load" <=> i = 1
             /\ i = 2 => Fit[i] = "generate"
  <2>1. CASE i = 1
    BY <2>1, <1>1, FitFacts
  <2>2. CASE i # 1
    <3>1. i \in 2 .. Len(Fit)
      BY <2>2, <1>1, FitFacts
    <3> QED
      BY <3>1, <1>1, FitFacts
  <2> QED
    BY <2>1, <2>2
<1> QED
  BY <1>1, <1>2, FitFacts

\* A job keeps its configuration, and with it what fit calls.
LEMMA SameJob ==
    ASSUME Next
    PROVE  /\ job' = job /\ Fit' = Fit /\ Servers' = Servers /\ Home' = Home
           /\ (Async' <=> Async)
<1>1. job' = job
  BY DEF Next, StartRound, AllAddressed, EnginesReady, ServerGone, Ready, Bind, PortTaken, TakeAddress,
         InitEngine, Begin, End, Load, Read, Update, Wake, Generate, Sleep
<1> QED
  BY <1>1 DEF Fit, Servers, Ranks, Size, Group, Home, HostIf, Async

-------------------------------------------------------------------------------
(* Each part of the invariant is preserved *)

LEMMA StepTypeOK == TypeOK /\ Next => TypeOK'
<1> SUFFICES ASSUME TypeOK, Next PROVE TypeOK'
  OBVIOUS
<1>0. job' = job /\ Fit' = Fit /\ Servers' = Servers
  BY SameJob
<1>1. Len(Fit) \in Nat /\ at \in 1 .. Len(Fit) /\ MaxClashes \in Nat
  BY Calls, ServersAssumption DEF ServersAssumption
<1> USE DEF TypeOK, serverVars, deviceVars
<1>2. ASSUME StartRound PROVE TypeOK'
  BY <1>0, <1>2 DEF StartRound
<1>3. ASSUME AllAddressed \/ EnginesReady \/ ServerGone PROVE TypeOK'
  BY <1>0, <1>3 DEF AllAddressed, EnginesReady, ServerGone
<1>4. ASSUME NEW d \in Servers, Ready(d) \/ Bind(d) PROVE TypeOK'
  BY <1>0, <1>4 DEF Ready, Bind
<1>5. ASSUME NEW d \in Servers, PortTaken(d) PROVE TypeOK'
  <2>1. clashes' \in 0 .. MaxClashes
    BY <1>5, <1>1 DEF PortTaken
  <2> QED
    BY <1>0, <1>5, <2>1 DEF PortTaken
<1>6. ASSUME NEW d \in Servers, TakeAddress(d) \/ InitEngine(d) PROVE TypeOK'
  BY <1>0, <1>6 DEF TakeAddress, InitEngine
<1>7. ASSUME NEW call \in {"load", "log_prob", "update", "save"}, Begin(call) PROVE TypeOK'
  BY <1>0, <1>7 DEF Begin
<1>8. ASSUME Return PROVE at' \in 1 .. Len(Fit) /\ stage' = "begin" /\ phase' \in {phase, "done"}
  BY <1>1, <1>8 DEF Return
<1>9. ASSUME NEW call \in {"load", "log_prob", "update", "save"}, End(call) PROVE TypeOK'
  BY <1>0, <1>8, <1>9 DEF End
<1>10. ASSUME Load \/ Read \/ Update \/ Generate PROVE TypeOK'
  BY <1>0, <1>10 DEF Load, Read, Update, Generate
<1>11. ASSUME Wake PROVE TypeOK'
  BY <1>0, <1>11 DEF Wake, Enter
<1>12. ASSUME Sleep PROVE TypeOK'
  BY <1>0, <1>8, <1>12 DEF Sleep, Async
<1> QED
  BY <1>2, <1>3, <1>4, <1>5, <1>6, <1>7, <1>9, <1>10, <1>11, <1>12 DEF Next

\* What a job that still goes on was and is: the facts each step below needs.
LEMMA StepFacts ==
    ASSUME TypeOK, Next
    PROVE  /\ job' = job /\ Fit' = Fit /\ Home' = Home /\ (Async' <=> Async)
           /\ Len(Fit) \in Nat /\ at \in Nat /\ 1 <= at /\ at <= Len(Fit)
           /\ at' \in Nat /\ 1 <= at' /\ at' <= Len(Fit)
           /\ Fit[at] \in {"load", "generate", "log_prob", "update", "save"}
           /\ Fit[at] = "load" <=> at = 1
           /\ at = 2 => Fit[at] = "generate"
           /\ version \in Nat /\ weights \in Nat
           /\ isSleep \in BOOLEAN /\ awake \in BOOLEAN /\ job.offload \in BOOLEAN /\ job.resumed \in BOOLEAN
           /\ Home \in {"cpu", "gpu"}
           /\ job.engine \in {"vllm", "vllm_async", "sglang_async"}
<1>1. TypeOK'
  BY StepTypeOK
<1>2. job' = job /\ Fit' = Fit /\ Home' = Home /\ (Async' <=> Async)
  BY SameJob
<1>3. job \in Jobs /\ at' \in 1 .. Len(Fit) /\ at \in 1 .. Len(Fit)
  BY <1>1, <1>2 DEF TypeOK
<1>4. job.offload \in BOOLEAN /\ job.resumed \in BOOLEAN /\ job.engine \in {"vllm", "vllm_async", "sglang_async"}
  BY <1>3, ServersAssumption DEF ServersAssumption
<1>5. version \in Nat /\ weights \in Nat /\ isSleep \in BOOLEAN /\ awake \in BOOLEAN
  BY DEF TypeOK
<1> QED
  BY <1>2, <1>3, <1>4, <1>5, Calls DEF Home, HostIf

\* A call that returns is followed by the next one, or ends the job.
LEMMA ReturnFacts ==
    ASSUME TypeOK, Next, Return
    PROVE  /\ stage' = "begin"
           /\ \/ phase' = "done"
              \/ phase' = phase /\ at' = at + 1
BY StepFacts DEF Return

LEMMA StepBefore == TypeOK /\ Before /\ Next => Before'
<1> SUFFICES ASSUME TypeOK, Before, Next PROVE Before'
  OBVIOUS
<1>0. (Async' <=> Async)
  BY SameJob
<1> USE DEF Before, serverVars, deviceVars
<1>1. ASSUME StartRound \/ AllAddressed \/ EnginesReady \/ ServerGone PROVE Before'
  BY <1>0, <1>1 DEF StartRound, AllAddressed, EnginesReady, ServerGone
<1>2. ASSUME NEW d \in Servers,
             Ready(d) \/ Bind(d) \/ PortTaken(d) \/ TakeAddress(d) \/ InitEngine(d)
      PROVE  Before'
  BY <1>0, <1>2 DEF Ready, Bind, PortTaken, TakeAddress, InitEngine
<1>3. ASSUME phase = "fit", phase' \in {"fit", "done"} PROVE Before'
  BY <1>3
<1>4. ASSUME NEW call \in {"load", "log_prob", "update", "save"}, Begin(call) \/ End(call) PROVE Before'
  BY <1>3, <1>4 DEF Begin, End, Return, Call
<1>5. ASSUME Load \/ Read \/ Update \/ Wake \/ Generate \/ Sleep PROVE Before'
  BY <1>3, <1>5 DEF Load, Read, Update, Wake, Generate, Sleep, Return, Call
<1> QED
  BY <1>1, <1>2, <1>4, <1>5 DEF Next

LEMMA StepPlaced == TypeOK /\ Before /\ Placed /\ Next => Placed'
<1> SUFFICES ASSUME TypeOK, Before, Placed, Next PROVE Placed'
  OBVIOUS
<1>0. Fit' = Fit /\ Home' = Home /\ job' = job
  BY StepFacts
<1> USE DEF Placed, Going, serverVars, deviceVars
<1>1. ASSUME UNCHANGED <<at, stage, params, optim>>, Going' => Going PROVE Placed'
  BY <1>0, <1>1
<1>2. ASSUME StartRound \/ AllAddressed \/ EnginesReady \/ ServerGone PROVE Placed'
  BY <1>1, <1>2 DEF StartRound, AllAddressed, EnginesReady, ServerGone
<1>3. ASSUME NEW d \in Servers,
             Ready(d) \/ Bind(d) \/ PortTaken(d) \/ TakeAddress(d) \/ InitEngine(d)
      PROVE  Placed'
  BY <1>1, <1>3 DEF Ready, Bind, PortTaken, TakeAddress, InitEngine
<1>4. ASSUME NEW call \in {"load", "log_prob", "update", "save"}, Begin(call) PROVE Placed'
  <2>1. phase = "fit" /\ Fit[at] = call /\ params = Home /\ optim = Home /\ phase' = phase
    BY <1>4 DEF Begin, Call
  <2>2. Home = HostIf(job.offload)
    BY DEF Home
  <2>3. UNCHANGED <<at, phase>> /\ stage' = "work"
    BY <1>4 DEF Begin
  <2>4. (Fit[at] # "load" \/ ~job.offload) => params' = "gpu"
    BY <1>4, <2>1, <2>2 DEF Begin, HostIf
  <2>5. optim' = IF Fit[at] = "update" THEN "gpu" ELSE Home
    BY <1>4, <2>1 DEF Begin
  <2> QED
    BY <1>0, <2>1, <2>3, <2>4, <2>5
<1>5. ASSUME NEW call \in {"load", "log_prob", "update", "save"}, End(call) PROVE Placed'
  <2>1. phase = "fit" /\ Fit[at] = call /\ stage # "begin" /\ Fit[at] # "generate"
    BY <1>5 DEF End, Call
  <2>2. stage' = "begin"
    BY <1>5 DEF End, Return
  <2>3. params' = Home
    BY <1>5, <2>1, StepFacts DEF End, Home, HostIf
  <2>4. optim' = Home
    BY <1>5, <2>1, StepFacts DEF End, Home, HostIf
  <2> QED
    BY <1>0, <2>2, <2>3, <2>4
<1>6. ASSUME Load \/ Read \/ Update PROVE Placed'
  BY <1>0, <1>6 DEF Load, Read, Update, Call
<1>7. ASSUME Wake PROVE Placed'
  <2>1. phase = "fit" /\ Fit[at] = "generate" /\ params = Home /\ optim = Home
    BY <1>7 DEF Wake, Call
  <2>2. params' = Home /\ optim' = Home /\ at' = at
    BY <1>7, <2>1 DEF Wake, Enter, Home, HostIf
  <2> QED
    BY <1>0, <2>1, <2>2
<1>8. ASSUME Generate PROVE Placed'
  BY <1>0, <1>8 DEF Generate, Call
<1>9. ASSUME Sleep PROVE Placed'
  <2>1. phase = "fit" /\ Fit[at] = "generate" /\ params = Home /\ optim = Home
    BY <1>9 DEF Sleep, Call
  <2> QED
    BY <1>0, <1>9, <2>1 DEF Sleep, Return
<1> QED
  BY <1>2, <1>3, <1>4, <1>5, <1>6, <1>7, <1>8, <1>9 DEF Next

\* vLLM's first wake_up, in the second call of fit, finds its rollouts awake;
\* every other one finds them asleep.
LEMMA AwakeAtFirst ==
    ASSUME TypeOK, Engines, Next, Call = "generate", stage = "begin"
    PROVE  /\ phase = "fit" /\ Fit[at] = "generate" /\ at >= 2
           /\ Async /\ ~isSleep => job.engine = "vllm_async" /\ at <= 2 /\ awake
           /\ job.engine = "vllm_async" /\ at <= 2 => Async /\ ~isSleep
<1>1. phase = "fit" /\ Fit[at] = "generate"
  BY DEF Call
<1>2. at >= 2
  BY <1>1, StepFacts
<1>3. Async => isSleep = (job.engine = "sglang_async" \/ at > 2)
  BY <1>1 DEF Engines, Going, InGenerate
<1>4. job.engine = "vllm_async" /\ at <= 2 => awake
  BY <1>1 DEF Engines, Going
<1>5. ASSUME Async, ~isSleep PROVE job.engine = "vllm_async" /\ at <= 2
  BY <1>3, <1>5, StepFacts DEF Async
<1>6. ASSUME job.engine = "vllm_async", at <= 2 PROVE Async /\ ~isSleep
  <2>1. Async /\ ~(job.engine = "sglang_async" \/ at > 2)
    BY <1>6, StepFacts DEF Async
  <2> QED
    BY <2>1, <1>3
<1> QED
  BY <1>1, <1>2, <1>4, <1>5, <1>6

LEMMA StepEngines == TypeOK /\ Before /\ Engines /\ Next => Engines'
<1> SUFFICES ASSUME TypeOK, Before, Engines, Next PROVE Engines'
  OBVIOUS
<1>0. Fit' = Fit /\ job' = job /\ (Async' <=> Async)
  BY StepFacts
<1> USE DEF Engines, Going, InGenerate, serverVars, deviceVars
<1>1. ASSUME UNCHANGED <<at, stage, awake, isSleep, started, phase>> PROVE Engines'
  BY <1>0, <1>1
<1>2. ASSUME UNCHANGED <<at, stage, awake, isSleep, started>>,
             (phase = "servers" /\ phase' = "engines") \/ phase' = "failed"
      PROVE  Engines'
  BY <1>0, <1>2
<1>3. ASSUME EnginesReady PROVE Engines'
  <2>1. started # {}
    BY <1>3, SomeServer DEF EnginesReady, TypeOK
  <2> QED
    BY <1>0, <1>3, <2>1 DEF EnginesReady
<1>4. ASSUME NEW d \in Servers, InitEngine(d) PROVE Engines'
  <2>1. at = 1 /\ stage = "begin" /\ UNCHANGED <<at, stage, isSleep, phase>> /\ phase = "engines"
    BY <1>4 DEF InitEngine, Before
  <2>2. job.engine = "vllm_async" => awake'
    BY <1>4 DEF InitEngine
  <2> QED
    BY <1>0, <2>1, <2>2
<1>5. ASSUME StartRound \/ AllAddressed \/ ServerGone PROVE Engines'
  BY <1>1, <1>2, <1>5 DEF StartRound, AllAddressed, ServerGone
<1>6. ASSUME NEW d \in Servers, Ready(d) \/ Bind(d) \/ PortTaken(d) \/ TakeAddress(d) PROVE Engines'
  BY <1>1, <1>6 DEF Ready, Bind, PortTaken, TakeAddress
<1>7. ASSUME UNCHANGED <<at, awake, isSleep, started, phase>>, phase = "fit", Fit[at] # "generate"
      PROVE  Engines'
  BY <1>0, <1>7
<1>8. ASSUME NEW call \in {"load", "log_prob", "update", "save"}, Begin(call) PROVE Engines'
  BY <1>7, <1>8 DEF Begin, Call
<1>9. ASSUME Load \/ Read \/ Update PROVE Engines'
  BY <1>7, <1>9 DEF Load, Read, Update, Call
<1>10. ASSUME NEW call \in {"load", "log_prob", "update", "save"}, End(call) PROVE Engines'
  <2>1. phase = "fit" /\ Fit[at] # "generate" /\ at # 2 /\ UNCHANGED <<awake, isSleep, started>>
    BY <1>10, StepFacts DEF End, Call
  <2>2. stage' = "begin" /\ (phase' = "done" \/ (phase' = phase /\ at' = at + 1))
    <3>1. Return
      BY <1>10 DEF End
    <3> QED
      BY <3>1, ReturnFacts
  <2>3. CASE phase' = "done"
    BY <2>3
  <2>4. CASE phase' = phase /\ at' = at + 1
    <3>1. ~InGenerate /\ ~InGenerate'
      BY <2>1, <2>2
    <3>2. (at' > 2 <=> at > 2) /\ (at' <= 2 => at <= 2) /\ at \in Nat
      BY <2>1, <2>4, StepFacts
    <3>3. at' > 2 => ~awake'
      BY <2>1, <3>1, <3>2
    <3>4. job.engine = "vllm_async" /\ at' <= 2 => awake'
      BY <2>1, <3>2
    <3>5. Async => isSleep' = (job.engine = "sglang_async" \/ at' > 2)
      BY <2>1, <3>1, <3>2
    <3> QED
      BY <1>0, <3>1, <3>3, <3>4, <3>5
  <2> QED
    BY <2>2, <2>3, <2>4
<1>11. ASSUME Wake PROVE Engines'
  <2>1. /\ phase = "fit" /\ Fit[at] = "generate" /\ UNCHANGED <<at, phase>> /\ stage' = "work"
        /\ Async /\ ~isSleep => awake
    BY <1>11, AwakeAtFirst DEF Wake
  <2>2. awake'
    BY <1>11, <2>1 DEF Wake, Enter
  <2> QED
    BY <1>0, <2>1, <2>2
<1>12. ASSUME Generate PROVE Engines'
  <2>1. Fit[at] = "generate" /\ phase = "fit" /\ stage = "work" /\ awake
    BY <1>12 DEF Generate, Call
  <2> QED
    BY <1>0, <1>12, <2>1 DEF Generate
<1>13. ASSUME Sleep PROVE Engines'
  <2>1. phase = "fit" /\ Fit[at] = "generate" /\ at \in Nat /\ at >= 2
    BY <1>13, StepFacts DEF Sleep, Call
  <2>2. stage' = "begin" /\ (phase' = "done" \/ (phase' = phase /\ at' = at + 1))
    <3>1. Return
      BY <1>13 DEF Sleep
    <3> QED
      BY <3>1, ReturnFacts
  <2>3. ~awake' /\ (Async => isSleep')
    BY <1>13 DEF Sleep
  <2>4. CASE phase' = "done"
    BY <2>4
  <2>5. CASE phase' = phase /\ at' = at + 1
    <3>1. at' > 2 /\ ~(at' <= 2)
      BY <2>1, <2>5
    <3>2. isSleep' \in BOOLEAN
      BY StepTypeOK DEF TypeOK
    <3> QED
      BY <1>0, <2>2, <2>3, <3>1, <3>2
  <2> QED
    BY <2>2, <2>4, <2>5
<1> QED
  BY <1>3, <1>4, <1>5, <1>6, <1>8, <1>9, <1>10, <1>11, <1>12, <1>13 DEF Next

LEMMA StepVersions == TypeOK /\ Before /\ Engines /\ Versions /\ Next => Versions'
<1> SUFFICES ASSUME TypeOK, Before, Engines, Versions, Next PROVE Versions'
  OBVIOUS
<1>0. Fit' = Fit /\ job' = job
  BY StepFacts
<1> USE DEF Versions, Going, InGenerate, serverVars, deviceVars
<1>1. ASSUME UNCHANGED <<at, stage, version, weights>>, Going' => Going PROVE Versions'
  BY <1>0, <1>1
<1>2. ASSUME StartRound \/ AllAddressed \/ EnginesReady \/ ServerGone PROVE Versions'
  BY <1>1, <1>2 DEF StartRound, AllAddressed, EnginesReady, ServerGone
<1>3. ASSUME NEW d \in Servers,
             Ready(d) \/ Bind(d) \/ PortTaken(d) \/ TakeAddress(d) \/ InitEngine(d)
      PROVE  Versions'
  BY <1>1, <1>3 DEF Ready, Bind, PortTaken, TakeAddress, InitEngine
<1>4. ASSUME NEW call \in {"load", "log_prob", "update", "save"}, Begin(call) PROVE Versions'
  BY <1>0, <1>4 DEF Begin, Call
<1>5. ASSUME Load PROVE Versions'
  <2>1. at = 1 /\ phase = "fit" /\ stage = "work" /\ Fit[at] # "generate"
    BY <1>5, StepFacts DEF Load, Call
  <2>2. version' = (IF job.resumed THEN 1 ELSE 0)
    BY <1>5, <2>1 DEF Load
  <2> QED
    BY <1>0, <1>5, <2>1, <2>2 DEF Load
<1>6. ASSUME Read PROVE Versions'
  <2>1. phase = "fit" /\ Fit[at] # "generate" /\ at # 1
    BY <1>6, StepFacts DEF Read, Call
  <2> QED
    BY <1>0, <1>6, <2>1, StepFacts DEF Read
<1>7. ASSUME Update PROVE Versions'
  <2>1. at > 2 /\ Fit[at] # "generate" /\ UNCHANGED at
    BY <1>7, StepFacts DEF Update, Call
  <2> QED
    BY <1>0, <2>1, StepFacts
<1>8. ASSUME NEW call \in {"load", "log_prob", "update", "save"}, End(call) PROVE Versions'
  <2>1. phase = "fit" /\ stage = "end" /\ at # 2 /\ UNCHANGED <<version, weights>>
    BY <1>8, StepFacts DEF End, Call
  <2>2. stage' = "begin" /\ (phase' = "done" \/ (phase' = phase /\ at' = at + 1))
    <3>1. Return
      BY <1>8 DEF End
    <3> QED
      BY <3>1, ReturnFacts
  <2>3. ASSUME phase' = phase /\ at' = at + 1 PROVE at' # 1 /\ (at' <= 2 => at <= 2)
    BY <2>3, StepFacts
  <2> QED
    BY <1>0, <2>1, <2>2, <2>3
<1>9. ASSUME Wake PROVE Versions'
  <2>1. Call = "generate" /\ stage = "begin" /\ UNCHANGED <<at, phase, version>> /\ stage' = "work"
    BY <1>9 DEF Wake, Enter
  <2>2. /\ phase = "fit" /\ Fit[at] = "generate" /\ at >= 2 /\ at \in Nat
        /\ Async /\ ~isSleep => job.engine = "vllm_async" /\ at <= 2 /\ awake
        /\ job.engine = "vllm_async" /\ at <= 2 => Async /\ ~isSleep
    BY <2>1, AwakeAtFirst, StepFacts
  <2>3. CASE Async /\ ~isSleep
    <3>1. UNCHANGED weights
      BY <1>9, <2>3 DEF Wake
    <3>2. job.engine = "vllm_async" /\ at <= 2 /\ weights = 0 /\ at > 1
      BY <2>2, <2>3
    <3>3. version = (IF job.resumed THEN 1 ELSE 0)
      BY <2>2, <3>2
    <3> QED
      BY <1>0, <2>1, <2>2, <3>1, <3>2, <3>3
  <2>4. CASE ~(Async /\ ~isSleep)
    <3>1. weights' = version
      BY <1>9, <2>4 DEF Wake, Enter
    <3>2. ~(job.engine = "vllm_async" /\ at <= 2)
      BY <2>2, <2>4
    <3> QED
      BY <1>0, <2>1, <2>2, <3>1, <3>2
  <2> QED
    BY <2>3, <2>4
<1>10. ASSUME Generate PROVE Versions'
  <2>1. phase = "fit" /\ stage = "work" /\ Fit[at] = "generate" /\ at # 1
    BY <1>10, StepFacts DEF Generate, Call
  <2> QED
    BY <1>0, <1>10, <2>1, StepFacts DEF Generate
<1>11. ASSUME Sleep PROVE Versions'
  <2>1. phase = "fit" /\ Fit[at] = "generate" /\ at \in Nat /\ at >= 2
    BY <1>11, StepFacts DEF Sleep, Call
  <2>2. stage' = "begin" /\ (phase' = "done" \/ (phase' = phase /\ at' = at + 1))
    <3>1. Return
      BY <1>11 DEF Sleep
    <3> QED
      BY <3>1, ReturnFacts
  <2>3. ASSUME phase' = phase /\ at' = at + 1 PROVE at' # 1 /\ ~(at' <= 2)
    BY <2>1, <2>3
  <2> QED
    BY <1>0, <2>2, <2>3
<1> QED
  BY <1>2, <1>3, <1>4, <1>5, <1>6, <1>7, <1>8, <1>9, <1>10, <1>11 DEF Next

-------------------------------------------------------------------------------
(* The theorems *)

LEMMA InitIInv == Init => IInv
<1> SUFFICES ASSUME Init PROVE IInv
  OBVIOUS
<1>0. job \in Jobs /\ job.offload \in BOOLEAN /\ job.engine \in {"vllm", "vllm_async", "sglang_async"}
  BY ServersAssumption DEF Init, ServersAssumption
<1>1. Len(Fit) \in Nat /\ 1 <= Len(Fit) /\ Fit[1] = "load"
  BY <1>0, FitFacts
<1>2. at = 1 /\ stage = "begin" /\ Fit[at] = "load"
  BY <1>1 DEF Init
<1>3. at \in 1 .. Len(Fit)
  BY <1>1, <1>2
<1>4. MaxClashes \in Nat /\ clashes \in 0 .. MaxClashes
  BY ServersAssumption DEF ServersAssumption, Init
<1>5. isSleep = (job.engine = "sglang_async") /\ awake = (job.engine = "sglang_async")
  BY DEF Init, AsleepAtStart
<1>6. params = Home /\ optim = Home /\ Home \in {"cpu", "gpu"}
  BY <1>0 DEF Init, Home, HostIf
<1>7. phase = "servers" \/ (phase = "fit" /\ job.engine = "vllm")
  BY <1>0 DEF Init, Async
<1>8. started = {} /\ version = 0 /\ weights = 0
  BY DEF Init
<1>9. TypeOK
  BY <1>0, <1>2, <1>3, <1>4, <1>5, <1>6, <1>7, <1>8 DEF Init, TypeOK
<1>10. Before
  BY <1>2, <1>7 DEF Before, Init
<1>11. Placed
  BY <1>2, <1>6 DEF Placed
<1>12. Engines
  BY <1>2, <1>5, <1>7, <1>8 DEF Engines, InGenerate
<1>13. Versions
  BY <1>2, <1>8 DEF Versions, InGenerate
<1> QED
  BY <1>9, <1>10, <1>11, <1>12, <1>13 DEF IInv

LEMMA StepIInv == IInv /\ [Next]_vars => IInv'
<1> SUFFICES ASSUME IInv, [Next]_vars PROVE IInv'
  OBVIOUS
<1>1. CASE Next
  BY <1>1, StepTypeOK, StepBefore, StepPlaced, StepEngines, StepVersions DEF IInv
<1>2. CASE UNCHANGED vars
  <2>1. job' = job /\ UNCHANGED <<serverVars, phase, at, stage, deviceVars>>
    BY <1>2 DEF vars
  <2>2. Fit' = Fit /\ Servers' = Servers /\ Home' = Home /\ (Async' <=> Async)
    BY <2>1 DEF Fit, Servers, Ranks, Size, Group, Home, HostIf, Async
  <2>3. TypeOK'
    BY <2>1, <2>2 DEF serverVars, deviceVars, IInv, TypeOK
  <2>4. Before' /\ Placed'
    BY <2>1, <2>2 DEF serverVars, deviceVars, IInv, Before, Placed, Going
  <2>5. Engines' /\ Versions'
    BY <2>1, <2>2 DEF serverVars, deviceVars, IInv, Engines, Versions, Going, InGenerate
  <2> QED
    BY <2>3, <2>4, <2>5 DEF IInv
<1> QED
  BY <1>1, <1>2

LEMMA Inductive == Spec => []IInv
BY InitIInv, StepIInv, PTL DEF Spec

(* The servers, the driver's call and the devices are what they can be,    *)
(* for any configurations and any number of steps.                         *)
THEOREM TypeCorrect == Spec => []TypeOK
<1>1. IInv => TypeOK
  BY DEF IInv
<1> QED
  BY <1>1, Inductive, PTL

\* Inside a call, the job is in fit, and the call is the one fit is at.
LEMMA InCall ==
    ASSUME TypeOK, NEW call \in {"generate", "log_prob", "update", "save"}, Computing(call)
    PROVE  /\ phase = "fit" /\ Fit[at] = call /\ stage = "work"
           /\ at \in Nat /\ at > 1 /\ (call # "generate" => at > 2)
<1>1. phase = "fit" /\ Fit[at] = call /\ stage = "work"
  BY DEF Computing, Call
<1> QED
  BY <1>1, Calls

(* What is generated is generated with the actor's parameters of that      *)
(* moment, but for the first generation of vLLM's servers after a resume.  *)
THEOREM Current == Spec => []GeneratesCurrent
<1>1. IInv => GeneratesCurrent
  <2> SUFFICES ASSUME IInv, Computing("generate") PROVE weights = version <=> ~StaleFirst
    BY DEF GeneratesCurrent
  <2>1. TypeOK /\ phase = "fit" /\ Fit[at] = "generate" /\ stage = "work" /\ at \in Nat /\ at > 1
    BY InCall DEF IInv
  <2>2. FirstGenerate <=> at <= 2
    BY <2>1, FirstIsSecond
  <2>3. CASE job.engine = "vllm_async" /\ job.resumed /\ at <= 2
    <3>1. weights = 0 /\ version = 1
      BY <2>1, <2>3 DEF IInv, Versions, Going
    <3> QED
      BY <2>2, <2>3, <3>1 DEF StaleFirst
  <2>4. CASE ~(job.engine = "vllm_async" /\ job.resumed /\ at <= 2)
    <3>1. weights = version
      BY <2>1, <2>4 DEF IInv, Versions, Going, InGenerate
    <3> QED
      BY <2>2, <2>4, <3>1 DEF StaleFirst
  <2> QED
    BY <2>3, <2>4
<1> QED
  BY <1>1, Inductive, PTL

(* Engine and actor do not use the devices at the same time: while the     *)
(* actor computes the engines hold nothing, and while they generate, what  *)
(* is to be kept on the host is there.                                     *)
THEOREM Shared == Spec => []DevicesShared
<1>1. IInv => DevicesShared
  <2> SUFFICES ASSUME IInv PROVE DevicesShared
    OBVIOUS
  <2>1. ASSUME NEW call \in {"log_prob", "update", "save"}, Computing(call)
        PROVE  params = "gpu" /\ ~awake /\ (call = "update" => optim = "gpu")
    <3>1. phase = "fit" /\ Fit[at] = call /\ stage = "work" /\ at > 2
      BY <2>1, InCall DEF IInv
    <3>2. Fit[at] # "generate" /\ Fit[at] # "load"
      BY <2>1, <3>1
    <3> QED
      BY <3>1, <3>2 DEF IInv, Placed, Engines, Going, InGenerate
  <2>2. ASSUME Computing("generate") PROVE awake /\ (job.offload => params = "cpu" /\ optim = "cpu")
    <3>1. phase = "fit" /\ Fit[at] = "generate" /\ stage = "work"
      BY <2>2, InCall DEF IInv
    <3> QED
      BY <3>1 DEF IInv, Placed, Engines, Going, InGenerate, Home, HostIf
  <2> QED
    BY <2>1, <2>2 DEF DevicesShared
<1> QED
  BY <1>1, Inductive, PTL
-------------------------------------------------------------------------------
(* The generators of random numbers *)

Number == [of : {"start", "restored", "engine", "gen"}, who : Nat, n : Nat]

Loaded     == at > 1 \/ stage = "end"
OwnStreams == job.engine = "vllm_async" /\ job.resumed

\* Where the optimizer steps left a training generator; one as the process found it.
Training(f)  == \A r \in Ranks :
    f[r] = [of |-> IF Restored THEN "restored" ELSE "start", who |-> r, n |-> Updates]
Untouched(f) == \A r \in Ranks : f[r] = Stream("start", r)

\* What a sampling generator is: its group's, but for vLLM's servers after a
\* resume, where it is each rank's own.
GroupWide(f) == \A r, q \in Ranks : Group(r) = Group(q) => f[r] = f[q]
Sampling(f)  == IF OwnStreams THEN \A r \in Ranks : f[r].who = r ELSE GroupWide(f)

\* Which generator is in place, and what the two saved ones are.  vLLM's servers
\* have no sampling generator until their first sleep has saved one.
Streams ==
    /\ rng \in [Ranks -> Number] /\ trainRng \in [Ranks -> Number] /\ genRng \in [Ranks -> Number]
    /\ Going =>
        /\ at <= 2 /\ ~InGenerate /\ job.engine = "vllm_async" =>
              /\ Untouched(trainRng)
              /\ ~Loaded => \A r \in Ranks :
                    rng[r] = IF Group(r) \in started THEN Stream("engine", Group(r)) ELSE Stream("start", r)
              /\ ~Loaded /\ phase = "fit" => started = Servers
              /\ Loaded => Sampling(rng)
        /\ at <= 2 /\ ~InGenerate /\ job.engine # "vllm_async" =>
              /\ GroupWide(genRng)
              /\ ~Loaded => Untouched(rng)
              /\ Loaded => Training(rng)
        /\ InGenerate => Sampling(rng) /\ Training(trainRng)
        /\ at > 2 /\ ~InGenerate => Training(rng) /\ Sampling(genRng)

LEMMA DrawFacts ==
    \A s \in Number : Draw(s) = [of |-> s.of, who |-> s.who, n |-> s.n + 1] /\ Draw(s) \in Number
BY DEF Draw, Number

LEMMA RankFacts ==
    ASSUME TypeOK
    PROVE  /\ job.tp \in Nat \ {0} /\ \A r \in Ranks : r \in Nat /\ Group(r) \in Nat /\ Group(r) \in Servers
           /\ \A d \in Servers : d \in Nat
<1>1. job.tp \in Nat \ {0} /\ Size \in Nat
  BY ServersAssumption DEF ServersAssumption, TypeOK, Size
<1>2. \A r \in Ranks : r \in Nat /\ Group(r) \in Nat
  BY <1>1 DEF Ranks, Group
<1> QED
  BY <1>1, <1>2 DEF Servers

\* The ranks, their groups and whose streams there are do not change.
LEMMA SameRanks ==
    ASSUME Next
    PROVE  /\ job' = job /\ Ranks' = Ranks /\ Servers' = Servers
           /\ \A r \in Ranks : Group(r)' = Group(r)
           /\ (Restored' <=> Restored) /\ (OwnStreams' <=> OwnStreams)
           /\ \A of, who : Stream(of, who)' = Stream(of, who)
BY SameJob DEF Ranks, Size, Servers, Group, Restored, OwnStreams, Stream

LEMMA StreamsInit == Init => Streams
<1> SUFFICES ASSUME Init PROVE Streams
  OBVIOUS
<1>1. TypeOK /\ at = 1 /\ stage = "begin" /\ started = {}
  BY InitIInv DEF IInv, Init
<1>2. Fit[at] = "load" /\ (job.engine = "vllm_async" => phase # "fit")
  BY <1>1, Calls DEF Init, Async
<1>3. \A r \in Ranks : r \in Nat /\ Group(r) \in Nat
  BY <1>1, RankFacts
<1>4. /\ rng = [r \in Ranks |-> Stream("start", r)] /\ trainRng = rng
      /\ genRng = [r \in Ranks |-> Stream("gen", Group(r))]
  BY DEF Init
<1>5. \A r \in Ranks : Stream("start", r) \in Number /\ Stream("gen", Group(r)) \in Number
  BY <1>3 DEF Stream, Number
<1> QED
  BY <1>1, <1>2, <1>4, <1>5 DEF Streams, InGenerate, Loaded, Untouched, GroupWide

LEMMA StreamsStep == IInv /\ Streams /\ Next => Streams'
<1> SUFFICES ASSUME IInv, Streams, Next PROVE Streams'
  OBVIOUS
<1>t. TypeOK /\ Before /\ Engines /\ Versions /\ TypeOK'
  BY StepTypeOK DEF IInv
<1>0. /\ job' = job /\ Fit' = Fit /\ Ranks' = Ranks /\ Servers' = Servers
      /\ \A r \in Ranks : Group(r)' = Group(r) /\ Group(r) \in Servers /\ Group(r) \in Nat /\ r \in Nat
      /\ (Restored' <=> Restored) /\ (OwnStreams' <=> OwnStreams)
      /\ \A of, who : Stream(of, who)' = Stream(of, who)
      /\ at \in Nat /\ at >= 1 /\ version \in Nat
      /\ (Fit[at] = "load" <=> at = 1) /\ (at = 2 => Fit[at] = "generate")
  BY <1>t, SameRanks, RankFacts, StepFacts
<1>n. /\ rng \in [Ranks -> Number] /\ trainRng \in [Ranks -> Number] /\ genRng \in [Ranks -> Number]
  BY DEF Streams
<1> USE DEF serverVars, deviceVars
\* Steps that leave the generators and the driver's place alone.
<1>1. ASSUME UNCHANGED <<rng, trainRng, genRng, version, at, started>>,
             stage' = stage \/ (Fit[at] # "generate" /\ stage # "end" /\ stage' # "end"),
             phase' = phase \/ (phase = "servers" /\ phase' = "engines") \/ phase' = "failed"
      PROVE  Streams'
  BY <1>0, <1>1 DEF Streams, Going, InGenerate, Loaded, Training, Untouched, GroupWide, Sampling, Updates
<1>2. ASSUME StartRound \/ AllAddressed \/ ServerGone PROVE Streams'
  BY <1>1, <1>2 DEF StartRound, AllAddressed, ServerGone
<1>3. ASSUME NEW d \in Servers, Ready(d) \/ Bind(d) \/ PortTaken(d) \/ TakeAddress(d) PROVE Streams'
  BY <1>1, <1>3 DEF Ready, Bind, PortTaken, TakeAddress
<1>4. CASE EnginesReady
  <2>1. /\ UNCHANGED <<rng, trainRng, genRng, version, at, stage, started>>
        /\ at = 1 /\ stage = "begin" /\ phase = "engines" /\ started = Servers
    BY <1>t, <1>4 DEF EnginesReady, Before
  <2> QED
    BY <1>0, <2>1 DEF Streams, Going, InGenerate, Loaded, Training, Untouched, GroupWide, Sampling, Updates
<1>5. ASSUME NEW d \in Servers, InitEngine(d) PROVE Streams'
  <2>1. /\ UNCHANGED <<trainRng, genRng, version, at, stage, phase>>
        /\ at = 1 /\ stage = "begin" /\ phase = "engines" /\ started' = started \cup {d}
        /\ rng' = IF job.engine = "vllm_async"
                    THEN [r \in Ranks |-> IF r \in Drives(d) THEN Stream("engine", d) ELSE rng[r]]
                    ELSE rng
    BY <1>t, <1>5 DEF InitEngine, Before
  <2>2. job.engine = "vllm_async" => \A r \in Ranks : r \in Drives(d) <=> Group(r) = d
    BY DEF Drives
  <2>3. Stream("engine", d) \in Number
    BY <1>t, RankFacts DEF Stream, Number
  <2>4. rng' \in [Ranks -> Number]
    BY <1>n, <2>1, <2>3
  <2>5. CASE job.engine = "vllm_async"
    <3>1. \A r \in Ranks : rng[r] =
             IF Group(r) \in started THEN Stream("engine", Group(r)) ELSE Stream("start", r)
      BY <1>0, <2>1, <2>5 DEF Streams, Going, InGenerate, Loaded
    <3>2. \A r \in Ranks : rng'[r] =
             IF Group(r) \in started' THEN Stream("engine", Group(r)) ELSE Stream("start", r)
      BY <2>1, <2>2, <2>5, <3>1
    <3> QED
      BY <1>0, <1>n, <2>1, <2>4, <2>5, <3>2 DEF Streams, Going, InGenerate, Loaded, Untouched
  <2>6. CASE job.engine # "vllm_async"
    BY <1>0, <1>n, <2>1, <2>6 DEF Streams, Going, InGenerate, Loaded, Untouched, GroupWide, Training
  <2> QED
    BY <2>5, <2>6
<1>6. ASSUME NEW call \in {"load", "log_prob", "update", "save"}, Begin(call) PROVE Streams'
  <2>1. Fit[at] # "generate"
    BY <1>6 DEF Begin, Call
  <2> QED
    BY <1>1, <1>6, <2>1 DEF Begin
<1>7. CASE Load
  <2>1. /\ phase = "fit" /\ at = 1 /\ stage = "work" /\ Fit[at] = "load" /\ version = 0
        /\ UNCHANGED <<phase, at, trainRng, genRng, started>> /\ stage' = "end"
        /\ IF job.resumed THEN version' = 1 /\ rng' = [r \in Ranks |-> Stream("restored", r)]
                          ELSE UNCHANGED <<version, rng>>
    BY <1>0, <1>t, <1>7 DEF Load, Call, Versions, Going
  <2>2. \A r \in Ranks : Stream("restored", r) = [of |-> "restored", who |-> r, n |-> 0]
                         /\ Stream("restored", r) \in Number
    BY <1>0 DEF Stream, Number
  <2>3. rng' \in [Ranks -> Number]
    BY <1>n, <2>1, <2>2
  <2>4. CASE job.engine = "vllm_async"
    <3>1. Sampling(rng)'
      <4>1. CASE job.resumed
        BY <1>0, <2>1, <2>2, <2>4, <4>1 DEF Sampling, OwnStreams
      <4>2. CASE ~job.resumed
        <5>1. \A r \in Ranks : rng[r] = Stream("engine", Group(r))
          BY <1>0, <2>1, <2>4 DEF Streams, Going, InGenerate, Loaded
        <5> QED
          BY <1>0, <2>1, <2>4, <4>2, <5>1 DEF Sampling, OwnStreams, GroupWide
      <4> QED
        BY <4>1, <4>2
    <3>2. Untouched(trainRng)'
      BY <1>0, <2>1, <2>4 DEF Streams, Going, InGenerate, Untouched
    <3> QED
      BY <1>0, <1>n, <2>1, <2>3, <2>4, <3>1, <3>2 DEF Streams, Going, InGenerate, Loaded
  <2>5. CASE job.engine # "vllm_async"
    <3>1. Training(rng)'
      <4>1. CASE job.resumed
        BY <1>0, <2>1, <2>2, <2>5, <4>1 DEF Training, Restored, Updates
      <4>2. CASE ~job.resumed
        <5>1. \A r \in Ranks : rng[r] = [of |-> "start", who |-> r, n |-> 0]
          BY <1>0, <2>1, <2>5 DEF Streams, Going, InGenerate, Loaded, Untouched, Stream
        <5>2. rng' = rng /\ Updates' = 0 /\ ~Restored'
          BY <1>0, <2>1, <4>2 DEF Restored, Updates
        <5> QED
          BY <1>0, <5>1, <5>2 DEF Training
      <4> QED
        BY <4>1, <4>2
    <3>2. GroupWide(genRng)'
      BY <1>0, <2>1, <2>5 DEF Streams, Going, InGenerate, GroupWide
    <3> QED
      BY <1>0, <1>n, <2>1, <2>3, <2>5, <3>1, <3>2 DEF Streams, Going, InGenerate, Loaded
  <2> QED
    BY <2>4, <2>5
<1>8. CASE Read
  <2>1. /\ phase = "fit" /\ at > 2 /\ Fit[at] # "generate"
        /\ UNCHANGED <<phase, at, version, rng, trainRng, genRng, started>>
    BY <1>0, <1>8 DEF Read, Call
  <2> QED
    BY <1>0, <2>1 DEF Streams, Going, InGenerate, Training, Sampling, GroupWide, Updates
<1>9. CASE Update
  <2>1. /\ phase = "fit" /\ at > 2 /\ Fit[at] = "update"
        /\ UNCHANGED <<phase, at, trainRng, genRng, started>>
        /\ version' = version + 1 /\ rng' = [r \in Ranks |-> Draw(rng[r])]
    BY <1>0, <1>9 DEF Update, Call
  <2>2. Training(rng) /\ Sampling(genRng)
    BY <2>1 DEF Streams, Going, InGenerate
  <2>3. Updates \in Int /\ Updates' = Updates + 1
    BY <1>0, <2>1 DEF Updates
  <2>4. /\ rng' \in [Ranks -> Number]
        /\ \A r \in Ranks : rng'[r] = [of |-> rng[r].of, who |-> rng[r].who, n |-> rng[r].n + 1]
    BY <1>n, <2>1, DrawFacts
  <2>5. Training(rng)'
    <3>1. PICK whose : whose = IF Restored THEN "restored" ELSE "start"
      OBVIOUS
    <3>2. \A r \in Ranks : rng[r] = [of |-> whose, who |-> r, n |-> Updates]
      BY <2>2, <3>1 DEF Training
    <3>3. ASSUME NEW r \in Ranks
          PROVE  rng'[r] = [of |-> whose, who |-> r, n |-> Updates + 1]
      <4>1. PICK k : k = Updates
        OBVIOUS
      <4>2. rng[r] = [of |-> whose, who |-> r, n |-> k]
        BY <3>2, <4>1
      <4>3. rng[r].of = whose /\ rng[r].who = r /\ rng[r].n = k
        BY <4>2
      <4>4. rng'[r] = [of |-> rng[r].of, who |-> rng[r].who, n |-> rng[r].n + 1]
        BY <2>4
      <4> QED
        BY <4>1, <4>3, <4>4
    <3> QED
      BY <1>0, <2>3, <3>1, <3>3 DEF Training
  <2>6. Sampling(genRng)'
    BY <1>0, <2>1, <2>2 DEF Sampling, GroupWide
  <2> QED
    BY <1>0, <1>n, <2>1, <2>4, <2>5, <2>6 DEF Streams, Going, InGenerate
<1>10. ASSUME NEW call \in {"load", "log_prob", "update", "save"}, End(call) PROVE Streams'
  <2>1. /\ phase = "fit" /\ Fit[at] = call /\ stage = "end" /\ stage' = "begin" /\ at # 2
        /\ UNCHANGED <<version, rng, trainRng, genRng, started>>
        /\ phase' = "done" \/ (phase' = phase /\ at' = at + 1)
    BY <1>0, <1>t, <1>10, ReturnFacts DEF End, Call
  <2>2. CASE phase' = "done"
    BY <1>0, <1>n, <2>1, <2>2 DEF Streams, Going
  <2>3. CASE at = 1 /\ at' = 2
    BY <1>0, <1>n, <2>1, <2>3 DEF Streams, Going, InGenerate, Loaded, Training, Untouched, Sampling,
       GroupWide, Updates
  <2>4. CASE at > 2 /\ at' > 2
    BY <1>0, <1>n, <2>1, <2>4 DEF Streams, Going, InGenerate, Training, Sampling, GroupWide, Updates
  <2> QED
    BY <1>0, <2>1, <2>2, <2>3, <2>4
<1>11. CASE Wake
  <2>1. /\ phase = "fit" /\ Fit[at] = "generate" /\ stage = "begin" /\ at >= 2
        /\ UNCHANGED <<phase, at, version, started>> /\ stage' = "work"
    BY <1>0, <1>11 DEF Wake, Call, Enter
  <2>2. CASE job.engine = "vllm_async" /\ at <= 2
    <3>1. UNCHANGED <<rng, trainRng, genRng>>
      BY <1>t, <1>11, <2>2, AwakeAtFirst DEF Wake
    <3>2. Sampling(rng) /\ Untouched(trainRng)
      BY <1>0, <2>1, <2>2 DEF Streams, Going, InGenerate, Loaded
    <3>3. Updates' = 0 /\ ~Restored
      BY <1>t, <1>0, <2>1, <2>2 DEF Versions, Going, Updates, Restored
    <3>4. Training(trainRng)'
      BY <1>0, <3>1, <3>2, <3>3 DEF Training, Untouched, Stream
    <3>5. Sampling(rng)'
      BY <1>0, <3>1, <3>2 DEF Sampling, GroupWide
    <3> QED
      BY <1>0, <1>n, <2>1, <3>1, <3>4, <3>5 DEF Streams, Going, InGenerate
  <2>3. CASE ~(job.engine = "vllm_async" /\ at <= 2)
    <3>1. trainRng' = rng /\ rng' = genRng /\ genRng' = genRng
      BY <1>t, <1>11, <2>3, AwakeAtFirst DEF Wake, Enter
    <3>2. Training(rng) /\ Sampling(genRng)
      <4>1. CASE at > 2
        BY <2>1, <4>1 DEF Streams, Going, InGenerate
      <4>2. CASE ~(at > 2)
        BY <1>0, <2>1, <2>3, <4>2 DEF Streams, Going, InGenerate, Loaded, Sampling, OwnStreams
      <4> QED
        BY <4>1, <4>2
    <3>3. Training(trainRng)' /\ Sampling(rng)'
      BY <1>0, <2>1, <3>1, <3>2 DEF Training, Sampling, GroupWide, Updates
    <3> QED
      BY <1>0, <1>n, <2>1, <3>1, <3>3 DEF Streams, Going, InGenerate
  <2> QED
    BY <2>2, <2>3
<1>12. CASE Generate
  <2>1. /\ phase = "fit" /\ Fit[at] = "generate" /\ stage = "work" /\ at >= 2
        /\ UNCHANGED <<phase, at, version, trainRng, genRng, started>> /\ stage' = "end"
        /\ rng' = IF job.engine = "sglang_async" THEN rng ELSE [r \in Ranks |-> Draw(rng[r])]
    BY <1>0, <1>12 DEF Generate, Call
  <2>2. Sampling(rng) /\ Training(trainRng)
    BY <2>1 DEF Streams, Going, InGenerate
  <2>3. /\ rng' \in [Ranks -> Number]
        /\ \/ rng' = rng
           \/ \A r \in Ranks : rng'[r] = [of |-> rng[r].of, who |-> rng[r].who, n |-> rng[r].n + 1]
    BY <1>n, <2>1, DrawFacts
  <2>4. Training(trainRng)'
    BY <1>0, <2>1, <2>2 DEF Training, Updates
  <2>5. Sampling(rng)'
    <3>1. CASE OwnStreams
      <4>1. \A r \in Ranks : rng'[r].who = rng[r].who
        BY <1>n, <2>3
      <4> QED
        BY <1>0, <2>2, <3>1, <4>1 DEF Sampling
    <3>2. CASE ~OwnStreams
      <4>1. \A r, q \in Ranks : rng[r] = rng[q] => rng'[r] = rng'[q]
        BY <2>3
      <4> QED
        BY <1>0, <2>2, <3>2, <4>1 DEF Sampling, GroupWide
    <3> QED
      BY <3>1, <3>2
  <2> QED
    BY <1>0, <1>n, <2>1, <2>3, <2>4, <2>5 DEF Streams, Going, InGenerate
<1>13. CASE Sleep
  <2>1. /\ phase = "fit" /\ Fit[at] = "generate" /\ stage = "end" /\ at >= 2
        /\ UNCHANGED <<version, trainRng, started>> /\ stage' = "begin"
        /\ genRng' = rng /\ rng' = trainRng
        /\ phase' = "done" \/ (phase' = phase /\ at' = at + 1)
    BY <1>0, <1>t, <1>13, ReturnFacts DEF Sleep, Call
  <2>2. Training(rng)' /\ Sampling(genRng)'
    BY <1>0, <2>1 DEF Streams, Going, InGenerate, Training, Sampling, GroupWide, Updates
  <2> QED
    BY <1>0, <1>n, <2>1, <2>2 DEF Streams, Going, InGenerate
<1> QED
  BY <1>2, <1>3, <1>4, <1>5, <1>6, <1>7, <1>8, <1>9, <1>10, <1>11, <1>12, <1>13 DEF Next

LEMMA StreamsKept == Spec => []Streams
<1>1. IInv /\ Streams /\ [Next]_vars => Streams'
  <2>1. ASSUME Streams, UNCHANGED vars PROVE Streams'
    <3>1. /\ UNCHANGED <<job, phase, at, stage, version, started, rng, trainRng, genRng>>
          /\ Fit' = Fit /\ Ranks' = Ranks /\ Servers' = Servers
          /\ \A r \in Ranks : Group(r)' = Group(r)
          /\ (Restored' <=> Restored) /\ (OwnStreams' <=> OwnStreams) /\ Updates' = Updates
          /\ \A of, who : Stream(of, who)' = Stream(of, who)
      BY <2>1 DEF vars, serverVars, deviceVars, Fit, Ranks, Size, Servers, Group, Restored,
         OwnStreams, Updates, Stream
    <3>2. /\ (Going' <=> Going) /\ (InGenerate' <=> InGenerate) /\ (Loaded' <=> Loaded)
          /\ (Training(rng)' <=> Training(rng)) /\ (Training(trainRng)' <=> Training(trainRng))
          /\ (Untouched(rng)' <=> Untouched(rng)) /\ (Untouched(trainRng)' <=> Untouched(trainRng))
      BY <3>1 DEF Going, InGenerate, Loaded, Training, Untouched
    <3>3. /\ (GroupWide(rng)' <=> GroupWide(rng)) /\ (GroupWide(genRng)' <=> GroupWide(genRng))
          /\ (Sampling(rng)' <=> Sampling(rng)) /\ (Sampling(genRng)' <=> Sampling(genRng))
      BY <3>1 DEF GroupWide, Sampling
    <3> QED
      BY <2>1, <3>1, <3>2, <3>3 DEF Streams
  <2> QED
    BY <2>1, StreamsStep
<1> QED
  BY <1>1, StreamsInit, Inductive, PTL DEF Spec

\* Ranks 0 and 1 are in one group when groups have more than one rank.
LEMMA SharedGroup ==
    ASSUME TypeOK, job.tp > 1
    PROVE  0 \in Ranks /\ 1 \in Ranks /\ Group(0) = Group(1)
<1>1. job.tp \in Nat \ {0} /\ Size \in Nat \ {0} /\ Size % job.tp = 0
  BY ServersAssumption DEF ServersAssumption, TypeOK, Size
<1>2. Size >= job.tp
  BY <1>1
<1>3. 0 \div job.tp = 0 /\ 1 \div job.tp = 0
  BY <1>1
<1> QED
  BY <1>1, <1>2, <1>3 DEF Ranks, Group

(* Optimizer steps draw from the generator where the last of them, or the  *)
(* checkpoint, left it, whatever is generated in between; and the ranks of *)
(* a group sample alike, but for vLLM's servers in a resumed run of groups *)
(* of more than one, which never do.                                       *)
THEOREM Randomness == Spec => []RandomnessKept
<1>1. IInv /\ Streams => RandomnessKept
  <2> SUFFICES ASSUME IInv, Streams PROVE RandomnessKept
    OBVIOUS
  <2>1. ASSUME Computing("update")
        PROVE  \A r \in Ranks :
                  rng[r] = [of |-> IF Restored THEN "restored" ELSE "start", who |-> r, n |-> Updates]
    <3>1. phase = "fit" /\ Fit[at] = "update" /\ at > 2
      BY <2>1, InCall DEF IInv
    <3> QED
      BY <3>1 DEF Streams, Going, InGenerate, Training
  <2>2. ASSUME Computing("generate")
        PROVE  GroupWide(rng) <=> ~(job.engine = "vllm_async" /\ job.resumed /\ job.tp > 1)
    <3>1. phase = "fit" /\ Fit[at] = "generate" /\ stage = "work"
      BY <2>2, InCall DEF IInv
    <3>2. Sampling(rng)
      BY <3>1 DEF Streams, Going, InGenerate
    <3>3. CASE ~OwnStreams
      BY <3>2, <3>3 DEF Sampling, OwnStreams
    <3>4. CASE OwnStreams /\ job.tp > 1
      BY <3>2, <3>4, SharedGroup DEF IInv, Sampling, OwnStreams, GroupWide
    <3>5. CASE OwnStreams /\ ~(job.tp > 1)
      <4>1. job.tp = 1 /\ \A r \in Ranks : r \in Nat
        BY <3>5, RankFacts DEF IInv
      <4>2. \A r \in Ranks : Group(r) = r
        BY <4>1 DEF Group
      <4> QED
        BY <3>5, <4>1, <4>2 DEF GroupWide
    <3> QED
      BY <3>3, <3>4, <3>5
  <2> QED
    BY <2>1, <2>2 DEF RandomnessKept, GroupWide
<1> QED
  BY <1>1, Inductive, StreamsKept, PTL

===============================================================================
