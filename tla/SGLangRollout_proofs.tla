-------------------------- MODULE SGLangRollout_proofs -------------------------
(***************************************************************************)
(* Theorems of SGLangRollout, for any requests, modes and lengths, and of  *)
(* the tools that its requests call, ToolExecution, for any pools, calls   *)
(* and limits.                                                             *)
(*                                                                         *)
(* The invariant behind the former is about the with blocks: who is in one *)
(* is running in a call that is not over (Blocks), what it saved and was   *)
(* given are what its mode sets (Given), and the parameters are as         *)
(* configured where overlaps cannot have mixed them up (Training, Alone).  *)
(*                                                                         *)
(* The invariant behind the latter says who has which limiter (Links),     *)
(* where a call can be while its pool and its limiter live (CallsSound),   *)
(* and that a queue holds a call once, and one that waits or whose pool    *)
(* died (Queue).                                                           *)
(***************************************************************************)
EXTENDS SGLangRollout, ToolExecution, SequenceTheorems, FiniteSetTheorems, TLAPS

Decodings == ModeNames \union {"config"}

\* Only a call rolls out.
Calling == phase # "idle" => called # <<>>

\* Whoever is in a with block is running, and its call has not returned.
Blocks ==
    \A r \in Requests : InBlock(r) =>
        /\ phase # "idle"
        /\ called # <<>>
        /\ state[r] = "running"
        /\ turns[r] < MaxTurns
        /\ ~left[r]

\* What a with block saved and what the engine was given.
Given ==
    \A r \in Requests : InBlock(r) =>
        /\ DOMAIN saved[r] = (IF Mode = "train" THEN {"n", "max_new_tokens"} ELSE Keys)
        /\ saved[r]["n"] \in Nat
        /\ saved[r]["max_new_tokens"] \in Nat
        /\ Mode # "train" => saved[r]["decoding"] \in Decodings
        /\ asked[r]["n"] = 1
        /\ Mode # "train" => asked[r]["decoding"] = Mode
        /\ asked[r]["max_new_tokens"] >= 1
        /\ Len(ids[r]) + asked[r]["max_new_tokens"] + 1 <= MaxModelLen

AllTraining == \A i \in 1 .. Len(called) : called[i] = "train"

\* Training calls leave the decoding alone.
Training ==
    AllTraining =>
        /\ params["decoding"] = "config"
        /\ \A r \in Requests : InBlock(r) => asked[r]["decoding"] = "config"

\* Without an overlap there is one block at most, and leaving it restores everything.
Alone ==
    ~overlap =>
        /\ \A q, r \in Requests : InBlock(q) /\ InBlock(r) => q = r
        /\ (\A r \in Requests : ~InBlock(r)) => params = Configured
        /\ \A r \in Requests : InBlock(r) => Update(params, saved[r]) = Configured

\* A request that still has turns but has left the loop had a reason to.
Reasoned ==
    \A r \in Requests :
        /\ left[r] => reason[r] \in {"stop", "length"}
        /\ state[r] = "completed" => reason[r] # "tool_calls"

IInv == TypeOK /\ Calling /\ Blocks /\ Given /\ Training /\ Alone /\ Reasoned

--------------------------------------------------------------------------------
(* The dictionaries *)

\* A dictionary has every key, and is not the absence of one.
LEMMA DictionaryFacts ==
    ASSUME NEW d \in Dictionaries
    PROVE  /\ DOMAIN d = Keys
           /\ d = [k \in Keys |-> d[k]]
           /\ d # Nobody
           /\ d["n"] \in Nat
           /\ d["max_new_tokens"] \in Nat
           /\ d["decoding"] \in Decodings
<1>1. d = [k \in Keys |-> d[k]] /\ DOMAIN d = Keys
  BY DEF Dictionaries, Keys
<1>2. DOMAIN Nobody = {}
  BY DEF Nobody
<1>3. d # Nobody
  BY <1>1, <1>2 DEF Keys
<1> QED
  BY <1>1, <1>3 DEF Dictionaries, Decodings

\* What the keyword arguments of a call set.
LEMMA OverridesFacts ==
    ASSUME NEW m \in ModeNames, NEW b \in Nat
    PROVE  /\ DOMAIN Overrides(m, b)
                = (IF m = "train" THEN {"n", "max_new_tokens"} ELSE Keys)
           /\ Overrides(m, b)["n"] = 1
           /\ Overrides(m, b)["max_new_tokens"] = b
           /\ m # "train" => Overrides(m, b)["decoding"] = m
BY DEF Overrides, Keys

\* A dictionary stays one when some of its keys get values of their types.
LEMMA UpdateFacts ==
    ASSUME NEW d \in Dictionaries, NEW new,
           "n" \in DOMAIN new => new["n"] \in Nat,
           "max_new_tokens" \in DOMAIN new => new["max_new_tokens"] \in Nat,
           "decoding" \in DOMAIN new => new["decoding"] \in Decodings
    PROVE  /\ Update(d, new) \in Dictionaries
           /\ \A k \in Keys : Update(d, new)[k] = IF k \in DOMAIN new THEN new[k] ELSE d[k]
<1>1. DOMAIN d = Keys
  BY DictionaryFacts
<1>2. Update(d, new) = [k \in Keys |-> IF k \in DOMAIN new THEN new[k] ELSE d[k]]
  BY <1>1 DEF Update
<1>3. /\ Update(d, new)["n"] \in Nat
      /\ Update(d, new)["max_new_tokens"] \in Nat
      /\ Update(d, new)["decoding"] \in Decodings
  BY <1>2, DictionaryFacts DEF Keys
<1>4. Update(d, new) = [n |-> Update(d, new)["n"],
                        max_new_tokens |-> Update(d, new)["max_new_tokens"],
                        decoding |-> Update(d, new)["decoding"]]
  BY <1>2 DEF Keys
<1>5. Update(d, new) \in Dictionaries
  BY <1>3, <1>4 DEF Dictionaries, Decodings
<1> QED
  BY <1>2, <1>5

\* Putting back what was saved undoes an update.
LEMMA Undone ==
    ASSUME NEW d \in Dictionaries, NEW new
    PROVE  Update(Update(d, new), [k \in DOMAIN new |-> d[k]]) = d
<1>1. DOMAIN d = Keys /\ d = [k \in Keys |-> d[k]]
  BY DictionaryFacts
<1>2. Update(d, new) = [k \in Keys |-> IF k \in DOMAIN new THEN new[k] ELSE d[k]]
  BY <1>1 DEF Update
<1> QED
  BY <1>1, <1>2 DEF Update

LEMMA ConfiguredFacts == Configured \in Dictionaries /\ Configured["decoding"] = "config"
<1>1. Configured = [n |-> ConfiguredN, max_new_tokens |-> ResponseLength, decoding |-> "config"]
  BY DEF Configured, Keys
<1> QED
  BY <1>1, SizeAssumption DEF Dictionaries

\* Whoever is in a with block has a dictionary.
LEMMA InBlockFacts ==
    ASSUME TypeOK, NEW r \in Requests
    PROVE  InBlock(r) <=> asked[r] \in Dictionaries
BY DictionaryFacts DEF TypeOK, InBlock

--------------------------------------------------------------------------------
(* Entering and leaving a with block *)

LEMMA ModeFacts ==
    ASSUME called \in Seq(Modes), called # <<>>
    PROVE  Mode \in ModeNames
<1>1. Len(called) \in 1 .. Len(called)
  BY EmptySeq, LenProperties
<1> QED
  BY <1>1, ElementOfSeq, ModeAssumption DEF Mode

LEMMA EnterFacts ==
    ASSUME TypeOK, NEW r \in Requests, NEW m \in ModeNames, NEW b \in Nat,
           Enter(r, Overrides(m, b))
    PROVE  /\ params' \in Dictionaries
           /\ asked' \in [Requests -> Dictionaries \union {Nobody}]
           /\ DOMAIN saved' = Requests
           /\ \A q \in Requests \ {r} : asked'[q] = asked[q] /\ saved'[q] = saved[q]
           /\ InBlock(r)'
           /\ asked'[r]["n"] = 1
           /\ asked'[r]["max_new_tokens"] = b
           /\ asked'[r]["decoding"] = IF m = "train" THEN params["decoding"] ELSE m
           /\ params'["decoding"] = asked'[r]["decoding"]
           /\ DOMAIN saved'[r] = (IF m = "train" THEN {"n", "max_new_tokens"} ELSE Keys)
           /\ \A k \in DOMAIN saved'[r] : saved'[r][k] = params[k]
           /\ Update(params', saved'[r]) = params
<1> DEFINE o == Overrides(m, b)
<1>1. /\ DOMAIN o = (IF m = "train" THEN {"n", "max_new_tokens"} ELSE Keys)
      /\ o["n"] = 1 /\ o["max_new_tokens"] = b
      /\ m # "train" => o["decoding"] = m
  BY OverridesFacts
<1> HIDE DEF o
<1>2. params \in Dictionaries
  BY DEF TypeOK
<1>3. /\ Update(params, o) \in Dictionaries
      /\ \A k \in Keys : Update(params, o)[k] = IF k \in DOMAIN o THEN o[k] ELSE params[k]
  BY <1>1, <1>2, UpdateFacts DEF Decodings, Keys
<1>4. /\ saved' = [saved EXCEPT ![r] = [k \in DOMAIN o |-> params[k]]]
      /\ params' = Update(params, o)
      /\ asked' = [asked EXCEPT ![r] = Update(params, o)]
  BY DEF Enter, o
<1>5. /\ asked \in [Requests -> Dictionaries \union {Nobody}]
      /\ DOMAIN saved = Requests
  BY DEF TypeOK
<1>6. /\ asked' \in [Requests -> Dictionaries \union {Nobody}]
      /\ DOMAIN saved' = Requests
      /\ asked'[r] = Update(params, o)
      /\ saved'[r] = [k \in DOMAIN o |-> params[k]]
      /\ \A q \in Requests \ {r} : asked'[q] = asked[q] /\ saved'[q] = saved[q]
  BY <1>3, <1>4, <1>5
<1>7. InBlock(r)'
  BY <1>3, <1>6, DictionaryFacts DEF InBlock
<1>8. Update(params', saved'[r]) = params
  BY <1>2, <1>4, <1>6, Undone
<1>9. /\ asked'[r]["n"] = 1
      /\ asked'[r]["max_new_tokens"] = b
      /\ asked'[r]["decoding"] = IF m = "train" THEN params["decoding"] ELSE m
  BY <1>1, <1>3, <1>6 DEF Keys
<1> QED
  BY <1>1, <1>3, <1>4, <1>6, <1>7, <1>8, <1>9

LEMMA ExitFacts ==
    ASSUME TypeOK, Given, NEW r \in Requests, InBlock(r), Exit(r)
    PROVE  /\ params' \in Dictionaries
           /\ params'["decoding"]
                = IF Mode = "train" THEN params["decoding"] ELSE saved[r]["decoding"]
           /\ params' = Update(params, saved[r])
           /\ asked' \in [Requests -> Dictionaries \union {Nobody}]
           /\ DOMAIN saved' = Requests
           /\ \A q \in Requests \ {r} : asked'[q] = asked[q] /\ saved'[q] = saved[q]
           /\ ~InBlock(r)'
           /\ overlap' = overlap
<1>1. /\ DOMAIN saved[r] = (IF Mode = "train" THEN {"n", "max_new_tokens"} ELSE Keys)
      /\ saved[r]["n"] \in Nat
      /\ saved[r]["max_new_tokens"] \in Nat
      /\ Mode # "train" => saved[r]["decoding"] \in Decodings
  BY DEF Given
<1>2. params \in Dictionaries /\ DOMAIN saved = Requests
      /\ asked \in [Requests -> Dictionaries \union {Nobody}]
  BY DEF TypeOK
<1>3. /\ Update(params, saved[r]) \in Dictionaries
      /\ \A k \in Keys : Update(params, saved[r])[k]
                = IF k \in DOMAIN saved[r] THEN saved[r][k] ELSE params[k]
  BY <1>1, <1>2, UpdateFacts
<1>4. /\ saved' = [saved EXCEPT ![r] = Nobody]
      /\ params' = Update(params, saved[r])
      /\ asked' = [asked EXCEPT ![r] = Nobody]
      /\ overlap' = overlap
  BY DEF Exit
<1>5. /\ asked' \in [Requests -> Dictionaries \union {Nobody}]
      /\ DOMAIN saved' = Requests
      /\ asked'[r] = Nobody
      /\ \A q \in Requests \ {r} : asked'[q] = asked[q] /\ saved'[q] = saved[q]
  BY <1>2, <1>4
<1> QED
  BY <1>1, <1>3, <1>4, <1>5 DEF InBlock, Keys

--------------------------------------------------------------------------------
(* The token sequences *)

LEMMA RepeatFacts ==
    ASSUME NEW kind \in Kinds, NEW n \in Nat
    PROVE  /\ Repeat(kind, n) \in Seq(Kinds)
           /\ Len(Repeat(kind, n)) = n
           /\ \A i \in 1 .. n : Repeat(kind, n)[i] = kind
BY DEF Repeat

LEMMA WithGenFacts ==
    ASSUME NEW s \in Seq(Kinds)
    PROVE  /\ WithGen(s) \in Seq(Kinds)
           /\ Len(WithGen(s)) \in Nat
<1>1. "gen" \in Kinds
  BY DEF Kinds
<1>2. Append(s, "gen") \in Seq(Kinds)
  BY <1>1, AppendProperties
<1> QED
  BY <1>2, LenProperties DEF WithGen

\* There is room for a token if the prompt is not too long.
LEMMA BudgetFacts ==
    ASSUME NEW s, Len(s) \in Nat, ~TooLong(s)
    PROVE  /\ Budget(s) \in Nat
           /\ Budget(s) >= 1
           /\ Len(s) + Budget(s) + 1 <= MaxModelLen
<1> DEFINE n == Len(s)
<1>1. n \in Nat /\ ~(n + 1 >= MaxModelLen)
  BY DEF TooLong
<1>2. Budget(s) = IF ResponseLength <= MaxModelLen - n - 1
                  THEN ResponseLength ELSE MaxModelLen - n - 1
  BY DEF Budget
<1> HIDE DEF n
<1>3. /\ Budget(s) \in Nat
      /\ Budget(s) >= 1
      /\ n + Budget(s) + 1 <= MaxModelLen
  BY <1>1, <1>2, SizeAssumption
<1> QED
  BY <1>3 DEF n

LEMMA KeptLenFacts == KeptLen \in Nat \ {0} /\ KeptLen <= MaxModelLen
BY SizeAssumption, VerifiedConfig DEF KeptLen

LEMMA WithoutGenFacts ==
    ASSUME NEW s \in Seq(Kinds)
    PROVE  /\ WithoutGen(s) \in Seq(Kinds)
           /\ Len(WithoutGen(s)) <= Len(s)
           /\ \A i \in 1 .. Len(WithoutGen(s)) : WithoutGen(s)[i] = s[i]
<1> DEFINE n == Len(s)
           t == SubSeq(s, 1, n - 1)
<1>1. n \in Nat
  BY LenProperties
<1>2. CASE s[n] # "gen" \/ n = 0
  <2>1. CASE s[n] # "gen"
    <3>1. WithoutGen(s) = s
      BY <2>1 DEF WithoutGen
    <3> QED
      BY <1>1, <3>1
  <2>2. CASE n = 0
    <3>1. s = <<>>
      BY <2>2, EmptySeq
    <3>2. SubSeq(s, 1, n - 1) = <<>>
      BY <2>2, <3>1
    <3>3. WithoutGen(s) = <<>>
      BY <3>1, <3>2 DEF WithoutGen
    <3> QED
      BY <3>3, <3>1
  <2> QED
    BY <1>2, <2>1, <2>2
<1>3. CASE s[n] = "gen" /\ n # 0
  <2>1. WithoutGen(s) = t
    BY <1>3 DEF WithoutGen
  <2>2. \A i \in 1 .. n - 1 : s[i] \in Kinds
    BY <1>1, ElementOfSeq
  <2>3. t = [i \in 1 .. n - 1 |-> s[i]]
    BY <1>1, <1>3
  <2>4. n - 1 \in Nat
    BY <1>1, <1>3
  <2> HIDE DEF n, t
  <2>5. /\ t \in Seq(Kinds)
        /\ Len(t) = n - 1
        /\ \A i \in 1 .. n - 1 : t[i] = s[i]
    BY <2>2, <2>3, <2>4
  <2> QED
    BY <1>1, <2>1, <2>5 DEF n
<1> QED
  BY <1>2, <1>3

LEMMA FirstOfFacts ==
    ASSUME NEW s \in Seq(Kinds), NEW n \in Nat
    PROVE  /\ FirstOf(s, n) \in Seq(Kinds)
           /\ Len(FirstOf(s, n)) = IF n <= Len(s) THEN n ELSE Len(s)
           /\ \A i \in 1 .. Len(FirstOf(s, n)) : FirstOf(s, n)[i] = s[i]
<1> DEFINE m == IF n <= Len(s) THEN n ELSE Len(s)
<1>1. Len(s) \in Nat /\ m \in Nat /\ m <= Len(s)
  BY LenProperties
<1>2. FirstOf(s, n) = SubSeq(s, 1, m)
  BY DEF FirstOf
<1>3. \A i \in 1 .. Len(s) : s[i] \in Kinds
  BY ElementOfSeq
<1> HIDE DEF m
<1>4. SubSeq(s, 1, m) = [i \in 1 .. m |-> s[i]]
  BY <1>1
<1>5. /\ SubSeq(s, 1, m) \in Seq(Kinds)
      /\ Len(SubSeq(s, 1, m)) = m
      /\ \A i \in 1 .. m : SubSeq(s, 1, m)[i] = s[i]
  BY <1>1, <1>3, <1>4
<1> QED
  BY <1>2, <1>5 DEF m

LEMMA AfterFacts ==
    ASSUME NEW s \in Seq(Kinds), NEW n \in Nat
    PROVE  /\ After(s, n) \in Seq(Kinds)
           /\ Len(After(s, n)) = IF n <= Len(s) THEN Len(s) - n ELSE 0
           /\ \A i \in 1 .. Len(After(s, n)) : After(s, n)[i] = s[n + i]
<1> DEFINE m == IF n <= Len(s) THEN Len(s) - n ELSE 0
<1>1. Len(s) \in Nat /\ m \in Nat /\ (m > 0 => n + m = Len(s))
  BY LenProperties
<1>2. \A i \in 1 .. Len(s) : s[i] \in Kinds
  BY ElementOfSeq
<1>3. After(s, n) = [i \in 1 .. m |-> s[n + i]]
  BY <1>1 DEF After
<1> HIDE DEF m
<1>4. \A i \in 1 .. m : s[n + i] \in Kinds
  BY <1>1, <1>2
<1>5. /\ After(s, n) \in Seq(Kinds)
      /\ Len(After(s, n)) = m
      /\ \A i \in 1 .. m : After(s, n)[i] = s[n + i]
  BY <1>1, <1>3, <1>4
<1> QED
  BY <1>5 DEF m

--------------------------------------------------------------------------------
(* The invariant *)

LEMMA Initially == Init => IInv
<1> SUFFICES ASSUME Init PROVE IInv
  OBVIOUS
<1>1. \A r \in Requests : ~InBlock(r)
  BY DEF Init, InBlock
<1>2. /\ <<>> \in Seq(Modes)
      /\ <<>> \in Seq(Kinds)
  BY EmptySeq
<1>3. TypeOK
  <2>1. params \in Dictionaries
    BY ConfiguredFacts DEF Init
  <2>2. turns \in [Requests -> 0 .. MaxTurns] /\ prompt \in [Requests -> Nat]
    BY SizeAssumption DEF Init
  <2>3. DOMAIN saved = Requests /\ asked \in [Requests -> Dictionaries \union {Nobody}]
    BY DEF Init
  <2>4. called \in Seq(Modes)
    BY <1>2 DEF Init
  <2>5. ids \in [Requests -> Seq(Kinds)] /\ response \in [Requests -> Seq(Kinds)]
    BY <1>2 DEF Init
  <2> QED
    BY <2>1, <2>2, <2>3, <2>4, <2>5 DEF Init, TypeOK, States, Reasons
<1>4. params = Configured
  BY DEF Init
<1>5. Training /\ Alone
  BY <1>1, <1>4, ConfiguredFacts DEF Training, Alone
<1>6. Blocks /\ Given
  BY <1>1 DEF Blocks, Given
<1>7. Reasoned
  BY DEF Init, Reasoned
<1>8. Calling
  BY DEF Init, Calling
<1> QED
  BY <1>3, <1>5, <1>6, <1>7, <1>8 DEF IInv

LEMMA StartCallKeeps == IInv /\ StartCall => IInv'
<1> SUFFICES ASSUME IInv, StartCall PROVE IInv'
  OBVIOUS
<1>1. \A r \in Requests : ~InBlock(r)
  BY DEF IInv, Blocks, StartCall
<1>2. \A r \in Requests : ~InBlock(r)'
  BY <1>1 DEF StartCall, sampling, InBlock
<1>3. PICK m \in Modes : called' = Append(called, m)
  BY DEF StartCall
<1>4. called \in Seq(Modes)
  BY DEF IInv, TypeOK
<1>5. /\ called' \in Seq(Modes)
      /\ Len(called') = Len(called) + 1
      /\ \A i \in 1 .. Len(called) : called'[i] = called[i]
  BY <1>3, <1>4, AppendProperties
<1>6. PICK lens \in [Requests -> PromptLens] :
        /\ ids' = [r \in Requests |-> Append(Repeat("prompt", lens[r]), "gen")]
        /\ prompt' = [r \in Requests |-> lens[r] + 1]
  BY DEF StartCall
<1>7. ASSUME NEW r \in Requests
      PROVE  Append(Repeat("prompt", lens[r]), "gen") \in Seq(Kinds) /\ lens[r] + 1 \in Nat
  <2>1. lens[r] \in Nat /\ "prompt" \in Kinds /\ "gen" \in Kinds
    BY <1>6, SizeAssumption DEF Kinds
  <2> QED
    BY <2>1, RepeatFacts, AppendProperties
<1>8. TypeOK'
  <2>1. ids' \in [Requests -> Seq(Kinds)] /\ prompt' \in [Requests -> Nat]
    BY <1>6, <1>7
  <2>2. <<>> \in Seq(Kinds)
    BY EmptySeq
  <2> QED
    BY <1>5, <2>1, <2>2, SizeAssumption
    DEF IInv, TypeOK, StartCall, sampling, States, Reasons
<1>9. Training'
  <2>1. Len(called) \in Nat
    BY <1>4, LenProperties
  <2>2. AllTraining' => AllTraining
    BY <1>5, <2>1 DEF AllTraining
  <2> QED
    BY <1>2, <2>2 DEF IInv, Training, StartCall, sampling
<1>10. Alone'
  BY <1>1, <1>2 DEF IInv, Alone, StartCall, sampling
<1>11. Blocks' /\ Given'
  BY <1>2 DEF Blocks, Given
<1>12. Reasoned'
  BY DEF StartCall, Reasoned
<1>13. Calling'
  <2>1. Len(called') # 0
    BY <1>4, <1>5, LenProperties
  <2>2. called' # <<>>
    BY <2>1, EmptySeq
  <2> QED
    BY <2>2 DEF Calling
<1> QED
  BY <1>8, <1>9, <1>10, <1>11, <1>12, <1>13 DEF IInv

LEMMA CallReturnsKeeps == IInv /\ CallReturns => IInv'
<1> SUFFICES ASSUME IInv, CallReturns PROVE IInv'
  OBVIOUS
<1>1. UNCHANGED <<called, params, overlap, saved, asked, state, ids, prompt, turns, reason,
                  left, response>>
  BY DEF CallReturns, sampling, request
<1>2. \A r \in Requests : ~InBlock(r)
  BY DEF IInv, Blocks, CallReturns
<1>3. \A r \in Requests : ~InBlock(r)'
  BY <1>1, <1>2 DEF InBlock
<1>4. TypeOK'
  BY <1>1 DEF IInv, TypeOK, CallReturns
<1>5. Training' /\ Alone'
  BY <1>1, <1>2, <1>3 DEF IInv, Training, AllTraining, Alone
<1>6. Blocks' /\ Given' /\ Reasoned'
  BY <1>1, <1>3 DEF IInv, Blocks, Given, Reasoned
<1>7. Calling'
  BY <1>1 DEF IInv, Calling, CallReturns
<1> QED
  BY <1>4, <1>5, <1>6, <1>7 DEF IInv

\* A step of a request outside of its with block that leaves the parameters alone.
LEMMA QuietStep ==
    ASSUME IInv, NEW r \in Requests, ~InBlock(r), TypeOK', UNCHANGED <<called, sampling>>,
           phase # "idle", phase' # "idle",
           \A q \in Requests \ {r} :
               /\ state'[q] = state[q] /\ turns'[q] = turns[q] /\ ids'[q] = ids[q]
               /\ reason'[q] = reason[q] /\ left'[q] = left[q],
           left'[r] => reason'[r] \in {"stop", "length"},
           state'[r] = "completed" => reason'[r] # "tool_calls"
    PROVE  IInv'
<1>1. UNCHANGED <<called, params, overlap, saved, asked>>
  BY DEF sampling
<1>2. \A q \in Requests : InBlock(q)' <=> InBlock(q)
  BY <1>1 DEF InBlock
<1>3. \A q \in Requests : InBlock(q) => q # r
  OBVIOUS
<1>4. Training' /\ Alone'
  BY <1>1, <1>2 DEF IInv, Training, AllTraining, Alone
<1>5. Blocks'
  BY <1>1, <1>2, <1>3 DEF IInv, Blocks
<1>6. Given'
  BY <1>1, <1>2, <1>3 DEF IInv, Given, Mode
<1>7. Reasoned' /\ Calling'
  BY DEF IInv, Reasoned, Calling
<1> QED
  BY <1>4, <1>5, <1>6, <1>7 DEF IInv

LEMMA ToolsCreatedKeeps == \A r \in Requests : IInv /\ ToolsCreated(r) => IInv'
<1> SUFFICES ASSUME NEW r \in Requests, IInv, ToolsCreated(r) PROVE IInv'
  OBVIOUS
<1>1. ~InBlock(r)
  BY DEF IInv, Blocks, ToolsCreated
<1>2. TypeOK'
  BY DEF IInv, TypeOK, ToolsCreated, sampling, States
<1>3. state'[r] = "running"
  BY DEF IInv, TypeOK, ToolsCreated
<1> QED
  BY <1>1, <1>2, <1>3, QuietStep DEF ToolsCreated, Looping, IInv, TypeOK, Reasoned

LEMMA PromptTooLongKeeps == \A r \in Requests : IInv /\ PromptTooLong(r) => IInv'
<1> SUFFICES ASSUME NEW r \in Requests, IInv, PromptTooLong(r) PROVE IInv'
  OBVIOUS
<1>1. WithGen(ids[r]) \in Seq(Kinds)
  BY WithGenFacts DEF IInv, TypeOK
<1>2. TypeOK'
  BY <1>1 DEF IInv, TypeOK, PromptTooLong, sampling, Reasons
<1>3. reason'[r] = "length"
  BY DEF IInv, TypeOK, PromptTooLong
<1> QED
  BY <1>2, <1>3, QuietStep DEF PromptTooLong, Looping, IInv, TypeOK

LEMMA ToolsAnsweredKeeps == \A r \in Requests : IInv /\ ToolsAnswered(r) => IInv'
<1> SUFFICES ASSUME NEW r \in Requests, IInv, ToolsAnswered(r) PROVE IInv'
  OBVIOUS
<1>1. ~InBlock(r)
  BY DEF IInv, Blocks, ToolsAnswered
<1>2. PICK n \in ToolLens : ids' = [ids EXCEPT ![r] = ids[r] \o Repeat("tool", n)]
  BY DEF ToolsAnswered
<1>3. ids[r] \o Repeat("tool", n) \in Seq(Kinds)
  <2>1. n \in Nat /\ "tool" \in Kinds
    BY SizeAssumption DEF Kinds
  <2>2. ids[r] \in Seq(Kinds)
    BY DEF IInv, TypeOK
  <2> QED
    BY <2>1, <2>2, RepeatFacts, ConcatProperties
<1>4. ids' \in [Requests -> Seq(Kinds)]
  BY <1>2, <1>3 DEF IInv, TypeOK
<1>5. \/ /\ reason' = [reason EXCEPT ![r] = "stop"]
         /\ left' = [left EXCEPT ![r] = TRUE]
         /\ UNCHANGED state
      \/ /\ state' = [state EXCEPT ![r] = "running"]
         /\ UNCHANGED <<reason, left>>
  BY DEF ToolsAnswered
<1>6. /\ state' \in [Requests -> States] /\ reason' \in [Requests -> Reasons]
      /\ left' \in [Requests -> BOOLEAN]
  BY <1>5 DEF IInv, TypeOK, States, Reasons
<1>7. TypeOK'
  BY <1>4, <1>6 DEF IInv, TypeOK, ToolsAnswered, sampling
<1>8. /\ left'[r] => reason'[r] \in {"stop", "length"}
      /\ state'[r] = "completed" => reason'[r] # "tool_calls"
  BY <1>5 DEF IInv, TypeOK, Reasoned
<1>9. \A q \in Requests \ {r} :
        /\ state'[q] = state[q] /\ turns'[q] = turns[q] /\ ids'[q] = ids[q]
        /\ reason'[q] = reason[q] /\ left'[q] = left[q]
  BY <1>2, <1>5 DEF ToolsAnswered, IInv, TypeOK
<1> QED
  BY <1>1, <1>7, <1>8, <1>9, QuietStep DEF ToolsAnswered, Looping

LEMMA FinalizeKeeps == \A r \in Requests : IInv /\ Finalize(r) => IInv'
<1> SUFFICES ASSUME NEW r \in Requests, IInv, Finalize(r) PROVE IInv'
  OBVIOUS
<1>1. FinalReason(r) \in {"stop", "length"}
  <2>1. turns[r] \in Nat /\ left[r] \in BOOLEAN
    BY SizeAssumption DEF IInv, TypeOK
  <2>2. left[r] \/ turns[r] >= MaxTurns
    BY <2>1, SizeAssumption DEF Finalize, Looping
  <2> QED
    BY <2>2 DEF IInv, Reasoned, FinalReason
<1> DEFINE kept == FirstOf(WithoutGen(ids[r]), KeptLen)
           resp == FirstOf(After(kept, prompt[r]), ResponseLength)
<1>2. /\ ids' = [ids EXCEPT ![r] = kept]
      /\ response' = [response EXCEPT ![r] = resp]
      /\ UNCHANGED phase
  BY <1>1 DEF Finalize
<1>3. ids[r] \in Seq(Kinds) /\ prompt[r] \in Nat
  BY DEF IInv, TypeOK
<1>4. kept \in Seq(Kinds)
  BY <1>3, WithoutGenFacts, FirstOfFacts, KeptLenFacts
<1>5. resp \in Seq(Kinds)
  BY <1>3, <1>4, AfterFacts, FirstOfFacts, SizeAssumption
<1> HIDE DEF kept, resp
<1>6. TypeOK'
  BY <1>1, <1>2, <1>4, <1>5 DEF IInv, TypeOK, Finalize, sampling, States, Reasons
<1>7. reason'[r] = FinalReason(r)
  BY DEF IInv, TypeOK, Finalize
<1>8. \A q \in Requests \ {r} :
        /\ state'[q] = state[q] /\ turns'[q] = turns[q] /\ ids'[q] = ids[q]
        /\ reason'[q] = reason[q] /\ left'[q] = left[q]
  BY <1>2 DEF Finalize, IInv, TypeOK
<1> QED
  BY <1>1, <1>2, <1>6, <1>7, <1>8, QuietStep DEF Finalize

LEMMA CallEngineKeeps == \A r \in Requests : IInv /\ CallEngine(r) => IInv'
<1> SUFFICES ASSUME NEW r \in Requests, IInv, CallEngine(r) PROVE IInv'
  OBVIOUS
<1> DEFINE longer == WithGen(ids[r])
           b == Budget(longer)
<1>1. longer \in Seq(Kinds) /\ Len(longer) \in Nat
  BY WithGenFacts DEF IInv, TypeOK
<1>2. b \in Nat /\ b >= 1 /\ Len(longer) + b + 1 <= MaxModelLen
  <2>1. ~TooLong(longer)
    BY DEF CallEngine
  <2> QED
    BY <1>1, <2>1, BudgetFacts
<1>3. ids' = [ids EXCEPT ![r] = longer] /\ ids'[r] = longer
  BY DEF CallEngine, IInv, TypeOK
<1>4. Enter(r, Overrides(Mode, b))
  BY DEF CallEngine
<1> HIDE DEF longer, b
<1>5. called # <<>> /\ Mode \in ModeNames
  <2>1. called # <<>>
    BY DEF CallEngine, Looping, IInv, TypeOK, Calling
  <2> QED
    BY <2>1, ModeFacts DEF IInv, TypeOK
<1>6. UNCHANGED <<phase, called, state, prompt, turns, reason, left, response>> /\ Mode' = Mode
  BY DEF CallEngine, Mode
<1>7. /\ params' \in Dictionaries
      /\ asked' \in [Requests -> Dictionaries \union {Nobody}]
      /\ DOMAIN saved' = Requests
      /\ \A q \in Requests \ {r} : asked'[q] = asked[q] /\ saved'[q] = saved[q]
      /\ InBlock(r)'
      /\ asked'[r]["n"] = 1
      /\ asked'[r]["max_new_tokens"] = b
      /\ asked'[r]["decoding"] = IF Mode = "train" THEN params["decoding"] ELSE Mode
      /\ params'["decoding"] = asked'[r]["decoding"]
      /\ DOMAIN saved'[r] = (IF Mode = "train" THEN {"n", "max_new_tokens"} ELSE Keys)
      /\ \A k \in DOMAIN saved'[r] : saved'[r][k] = params[k]
      /\ Update(params', saved'[r]) = params
  BY <1>2, <1>4, <1>5, EnterFacts DEF IInv
<1>8. \A q \in Requests \ {r} : InBlock(q)' <=> InBlock(q)
  BY <1>7 DEF InBlock
<1>9. overlap' = (overlap \/ \E q \in Requests : InBlock(q))
  BY <1>4 DEF Enter
<1>10. /\ phase = "rolling" /\ ~left[r] /\ turns[r] < MaxTurns
       /\ state[r] = "running" /\ ~InBlock(r)
  BY DEF CallEngine, Looping
<1>11. TypeOK'
  BY <1>1, <1>3, <1>6, <1>7, <1>9 DEF IInv, TypeOK
<1>12. Blocks'
  BY <1>5, <1>6, <1>8, <1>10 DEF IInv, Blocks
<1>13. Given'
  <2>1. ASSUME NEW q \in Requests \ {r}, InBlock(q)'
        PROVE  ids'[q] = ids[q] /\ saved'[q] = saved[q] /\ asked'[q] = asked[q] /\ InBlock(q)
    BY <1>3, <1>7, <1>8, <2>1 DEF IInv, TypeOK
  <2>2. params["n"] \in Nat /\ params["max_new_tokens"] \in Nat /\ params["decoding"] \in Decodings
    BY DictionaryFacts DEF IInv, TypeOK
  <2>3. /\ saved'[r]["n"] \in Nat
        /\ saved'[r]["max_new_tokens"] \in Nat
        /\ Mode # "train" => saved'[r]["decoding"] \in Decodings
    BY <1>7, <2>2 DEF Keys
  <2>4. /\ Mode # "train" => asked'[r]["decoding"] = Mode
        /\ asked'[r]["max_new_tokens"] >= 1
        /\ Len(ids'[r]) + asked'[r]["max_new_tokens"] + 1 <= MaxModelLen
    BY <1>2, <1>3, <1>7
  <2> SUFFICES ASSUME NEW q \in Requests, InBlock(q)'
               PROVE  /\ DOMAIN saved'[q] = (IF Mode = "train" THEN {"n", "max_new_tokens"} ELSE Keys)
                      /\ saved'[q]["n"] \in Nat
                      /\ saved'[q]["max_new_tokens"] \in Nat
                      /\ Mode # "train" => saved'[q]["decoding"] \in Decodings
                      /\ asked'[q]["n"] = 1
                      /\ Mode # "train" => asked'[q]["decoding"] = Mode
                      /\ asked'[q]["max_new_tokens"] >= 1
                      /\ Len(ids'[q]) + asked'[q]["max_new_tokens"] + 1 <= MaxModelLen
    BY <1>6 DEF Given
  <2>5. CASE q = r
    BY <1>7, <2>3, <2>4, <2>5
  <2>6. CASE q # r
    BY <2>1, <2>6 DEF IInv, Given
  <2> QED
    BY <2>5, <2>6
<1>14. Training'
  <2>1. AllTraining => Mode = "train"
    <3>1. Len(called) \in 1 .. Len(called)
      BY <1>5, EmptySeq, LenProperties DEF IInv, TypeOK
    <3> QED
      BY <3>1 DEF AllTraining, Mode
  <2>2. AllTraining' <=> AllTraining
    BY <1>6 DEF AllTraining
  <2> QED
    BY <1>7, <1>8, <2>1, <2>2 DEF IInv, Training
<1>15. Alone'
  <2> SUFFICES ASSUME ~overlap'
               PROVE  /\ \A q, t \in Requests : InBlock(q)' /\ InBlock(t)' => q = t
                      /\ (\A q \in Requests : ~InBlock(q)') => params' = Configured
                      /\ \A q \in Requests : InBlock(q)' => Update(params', saved'[q]) = Configured
    BY DEF Alone
  <2>1. ~overlap /\ \A q \in Requests : ~InBlock(q)
    BY <1>9
  <2>2. params = Configured
    BY <2>1 DEF IInv, Alone
  <2> QED
    BY <1>7, <1>8, <2>1, <2>2
<1>16. Reasoned' /\ Calling'
  BY <1>6 DEF IInv, Reasoned, Calling
<1> QED
  BY <1>11, <1>12, <1>13, <1>14, <1>15, <1>16 DEF IInv

\* Leaving a with block, with a reason if the loop is left too.
LEMMA ExitKeeps ==
    ASSUME IInv, NEW r \in Requests, InBlock(r), Exit(r),
           UNCHANGED called, phase' # "idle",
           phase' \in {"idle", "rolling", "failed"},
           state' \in [Requests -> States], ids' \in [Requests -> Seq(Kinds)],
           turns' \in [Requests -> 0 .. MaxTurns], reason' \in [Requests -> Reasons],
           left' \in [Requests -> BOOLEAN], UNCHANGED <<prompt, response>>,
           \A q \in Requests \ {r} :
               /\ state'[q] = state[q] /\ turns'[q] = turns[q] /\ ids'[q] = ids[q]
               /\ reason'[q] = reason[q] /\ left'[q] = left[q],
           left'[r] => reason'[r] \in {"stop", "length"},
           state'[r] = "completed" => reason'[r] # "tool_calls"
    PROVE  IInv'
<1>1. /\ params' \in Dictionaries
      /\ params'["decoding"] = IF Mode = "train" THEN params["decoding"] ELSE saved[r]["decoding"]
      /\ params' = Update(params, saved[r])
      /\ asked' \in [Requests -> Dictionaries \union {Nobody}]
      /\ DOMAIN saved' = Requests
      /\ \A q \in Requests \ {r} : asked'[q] = asked[q] /\ saved'[q] = saved[q]
      /\ ~InBlock(r)'
      /\ overlap' = overlap
  BY ExitFacts DEF IInv
<1>2. \A q \in Requests : InBlock(q)' => q # r /\ InBlock(q)
  BY <1>1 DEF InBlock
<1>3. Mode' = Mode
  BY DEF Mode
<1>4. TypeOK'
  BY <1>1 DEF IInv, TypeOK
<1>5. Blocks'
  BY <1>2 DEF IInv, Blocks
<1>6. Given'
  <2>1. ASSUME NEW q \in Requests, InBlock(q)'
        PROVE  ids'[q] = ids[q] /\ saved'[q] = saved[q] /\ asked'[q] = asked[q] /\ InBlock(q)
    BY <1>1, <1>2, <2>1
  <2> QED
    BY <1>3, <2>1 DEF IInv, Given
<1>7. Training'
  <2>1. AllTraining => Mode = "train"
    <3>1. called # <<>>
      BY DEF IInv, Blocks
    <3>2. Len(called) \in 1 .. Len(called)
      BY <3>1, EmptySeq, LenProperties DEF IInv, TypeOK
    <3> QED
      BY <3>2 DEF AllTraining, Mode
  <2>2. AllTraining' <=> AllTraining
    BY DEF AllTraining
  <2> QED
    BY <1>1, <1>2, <2>1, <2>2 DEF IInv, Training
<1>8. Alone'
  <2>1. ASSUME ~overlap
        PROVE  params' = Configured /\ \A q \in Requests : ~InBlock(q)'
    BY <1>1, <1>2, <2>1 DEF IInv, Alone
  <2> QED
    BY <1>1, <2>1 DEF Alone
<1>9. Reasoned' /\ Calling'
  <2>1. called # <<>>
    BY DEF IInv, Blocks
  <2> QED
    BY <2>1 DEF IInv, Reasoned, Calling
<1> QED
  BY <1>4, <1>5, <1>6, <1>7, <1>8, <1>9 DEF IInv

LEMMA AnsweredFacts ==
    ASSUME IInv, NEW r \in Requests, NEW n \in AnswerLens, Answered(r, n)
    PROVE  /\ InBlock(r) /\ Exit(r) /\ phase' = "rolling" /\ UNCHANGED <<called, prompt, response>>
           /\ ids' \in [Requests -> Seq(Kinds)]
           /\ turns' \in [Requests -> 0 .. MaxTurns]
           /\ state[r] = "running" /\ ~left[r]
           /\ \A q \in Requests \ {r} : turns'[q] = turns[q] /\ ids'[q] = ids[q]
<1>1. n + CloseLen \in Nat /\ "assistant" \in Kinds
  BY SizeAssumption DEF Kinds
<1>2. ids[r] \o Repeat("assistant", n + CloseLen) \in Seq(Kinds)
  BY <1>1, RepeatFacts, ConcatProperties DEF IInv, TypeOK
<1>3. ids' = [ids EXCEPT ![r] = ids[r] \o Repeat("assistant", n + CloseLen)]
  BY DEF Answered
<1>4. turns[r] + 1 \in 0 .. MaxTurns
  BY SizeAssumption DEF IInv, TypeOK, Blocks, Answered
<1> QED
  BY <1>2, <1>3, <1>4 DEF IInv, TypeOK, Blocks, Answered

LEMMA AnswerKeeps ==
    \A r \in Requests :
        IInv /\ (AnswerCutOff(r) \/ AnswerEnds(r) \/ AnswerCallsTools(r)) => IInv'
<1> SUFFICES ASSUME NEW r \in Requests, IInv,
                    AnswerCutOff(r) \/ AnswerEnds(r) \/ AnswerCallsTools(r)
             PROVE  IInv'
  OBVIOUS
<1>1. PICK n \in AnswerLens : Answered(r, n)
  BY DEF AnswerCutOff, AnswerEnds, AnswerCallsTools
<1>2. /\ InBlock(r) /\ Exit(r) /\ phase' = "rolling" /\ UNCHANGED <<called, prompt, response>>
      /\ ids' \in [Requests -> Seq(Kinds)]
      /\ turns' \in [Requests -> 0 .. MaxTurns]
      /\ state[r] = "running" /\ ~left[r]
      /\ \A q \in Requests \ {r} : turns'[q] = turns[q] /\ ids'[q] = ids[q]
  BY <1>1, AnsweredFacts
<1>3. /\ state' \in [Requests -> States]
      /\ reason' \in [Requests -> Reasons]
      /\ left' \in [Requests -> BOOLEAN]
      /\ \A q \in Requests \ {r} :
            state'[q] = state[q] /\ reason'[q] = reason[q] /\ left'[q] = left[q]
      /\ left'[r] => reason'[r] \in {"stop", "length"}
      /\ state'[r] # "completed"
  BY <1>2 DEF IInv, TypeOK, AnswerCutOff, AnswerEnds, AnswerCallsTools, States, Reasons
<1> QED
  BY <1>2, <1>3, ExitKeeps

LEMMA RaisesKeeps == \A r \in Requests : IInv /\ Raises(r) => IInv'
<1> SUFFICES ASSUME NEW r \in Requests, IInv, Raises(r) PROVE IInv'
  OBVIOUS
<1>1. phase = "rolling" /\ phase' = "failed" /\ UNCHANGED <<called, state, ids, prompt, turns, reason, left, response>>
  BY DEF Raises, request
<1>2. CASE InBlock(r) /\ Exit(r)
  BY <1>1, <1>2, ExitKeeps DEF IInv, TypeOK, Reasoned
<1>3. CASE ~InBlock(r) /\ UNCHANGED sampling
  <2>1. TypeOK'
    BY <1>1, <1>3 DEF IInv, TypeOK, sampling
  <2> QED
    BY <1>1, <1>3, <2>1, QuietStep DEF IInv, Reasoned
<1> QED
  BY <1>2, <1>3 DEF Raises

LEMMA Invariance == IInv /\ [Next]_vars => IInv'
<1> SUFFICES ASSUME IInv, [Next]_vars PROVE IInv'
  OBVIOUS
<1>1. CASE StartCall
  BY <1>1, StartCallKeeps
<1>2. CASE CallReturns
  BY <1>2, CallReturnsKeeps
<1>3. ASSUME NEW r \in Requests, RequestStep(r)
      PROVE  IInv'
  BY <1>3, ToolsCreatedKeeps, PromptTooLongKeeps, CallEngineKeeps, AnswerKeeps,
     ToolsAnsweredKeeps, RaisesKeeps, FinalizeKeeps DEF RequestStep
<1>4. CASE UNCHANGED vars
  BY <1>4 DEF vars, sampling, request, IInv, TypeOK, Calling, Blocks, Given, Training, AllTraining,
     Alone, Reasoned, InBlock, Mode
<1> QED
  BY <1>1, <1>2, <1>3, <1>4 DEF Next

LEMMA AlwaysIInv == Spec => []IInv
BY Initially, Invariance, PTL DEF Spec

--------------------------------------------------------------------------------
(* Theorems *)

\* The state stays within its types: sampling_params keeps its keys, and no request
\* makes more than max_turns calls of the engine (_async_rollout_a_request).
THEOREM TypeCorrect == Spec => []TypeOK
<1>1. IInv => TypeOK
  BY DEF IInv
<1> QED
  BY <1>1, AlwaysIInv, PTL

\* What the engine is asked always fits the model, however the requests of a call
\* overlap and whatever they leave in sampling_params (_handle_engine_call).
THEOREM Fitting == Spec => []EngineFits
<1>1. IInv => EngineFits
  BY DEF IInv, Given, EngineFits
<1> QED
  BY <1>1, AlwaysIInv, PTL

\* A validation or greedy call samples as it asks (_handle_engine_call).
THEOREM SampledRight == Spec => []SampledAsAsked
<1>1. IInv => SampledAsAsked
  BY DEF IInv, Given, SampledAsAsked
<1> QED
  BY <1>1, AlwaysIInv, PTL

\* Training calls sample as configured until the first call of another kind
\* (_handle_engine_call, update_sampling_params).
THEOREM TrainingRight == Spec => []TrainsAsConfigured
<1>1. IInv => TrainsAsConfigured
  BY DEF IInv, Training, AllTraining, TrainsAsConfigured
<1> QED
  BY <1>1, AlwaysIInv, PTL

\* Without overlaps update_sampling_params restores what it found.
THEOREM RestoringAlone == Spec => []RestoredIfAlone
<1>1. IInv => RestoredIfAlone
  BY DEF IInv, Alone, RestoredIfAlone
<1> QED
  BY <1>1, AlwaysIInv, PTL

\* finalize never meets a reason it does not know.
THEOREM ReasonsKnown == Spec => []ReasonKnown
<1>1. IInv => ReasonKnown
  BY DEF IInv, Reasoned, ReasonKnown
<1> QED
  BY <1>1, AlwaysIInv, PTL

--------------------------------------------------------------------------------
(* The tokens, turn by turn *)

\* s alternates between generation prompts and assistant messages.
Alternates(s) ==
    \A i \in 1 .. Len(s) - 1 :
        /\ s[i] = "gen" => s[i + 1] = "assistant"
        /\ s[i + 1] = "assistant" => s[i] \in {"gen", "assistant"}

EndsWith(s, kind) == Len(s) > 0 /\ s[Len(s)] = kind

\* Where the tokens of a request are in its turn.
Turning ==
    \A r \in Requests :
        /\ Alternates(ids[r])
        /\ (phase # "idle" /\ state[r] # "completed") =>
            /\ Len(ids[r]) >= prompt[r]
            /\ prompt[r] >= 1
            /\ ids[r][prompt[r]] = "gen"
        /\ InBlock(r) => EndsWith(ids[r], "gen")
        /\ (state[r] = "tool_calling" /\ ~left[r]) => EndsWith(ids[r], "assistant")
        /\ (state[r] = "completed" /\ EndsWith(ids[r], "gen")) => Len(ids[r]) = KeptLen
        /\ response[r] # <<>> => response[r][1] = "assistant"

LEMMA AppendedAlternates ==
    ASSUME NEW s \in Seq(Kinds), Alternates(s), ~EndsWith(s, "gen")
    PROVE  Alternates(Append(s, "gen"))
<1> DEFINE n == Len(s)
           t == Append(s, "gen")
<1>1. n \in Nat /\ "gen" \in Kinds
  BY LenProperties DEF Kinds
<1>2. Len(t) = n + 1 /\ t[n + 1] = "gen" /\ \A i \in 1 .. n : t[i] = s[i]
  BY <1>1, AppendProperties
<1>3. n > 0 => s[n] # "gen"
  BY DEF EndsWith
<1>4. \A i \in 1 .. n - 1 : /\ s[i] = "gen" => s[i + 1] = "assistant"
                            /\ s[i + 1] = "assistant" => s[i] \in {"gen", "assistant"}
  BY DEF Alternates
<1> HIDE DEF n, t
<1>5. ASSUME NEW i \in 1 .. n
      PROVE  /\ t[i] = "gen" => t[i + 1] = "assistant"
             /\ t[i + 1] = "assistant" => t[i] \in {"gen", "assistant"}
  <2>1. CASE i = n
    BY <1>1, <1>2, <1>3, <2>1
  <2>2. CASE i # n
    <3>1. i \in 1 .. n - 1 /\ i + 1 \in 1 .. n
      BY <1>1, <2>2
    <3> QED
      BY <1>2, <1>4, <3>1
  <2> QED
    BY <2>1, <2>2
<1>6. Alternates(t)
  BY <1>1, <1>2, <1>5 DEF Alternates
<1> QED
  BY <1>6 DEF t

LEMMA RepeatedAlternates ==
    ASSUME NEW s \in Seq(Kinds), NEW kind \in {"assistant", "tool"}, NEW k \in Nat,
           Alternates(s), Len(s) > 0, s[Len(s)] \in {"gen", "assistant"},
           kind = "tool" \/ k = 0 => s[Len(s)] # "gen"
    PROVE  /\ Alternates(s \o Repeat(kind, k))
           /\ s \o Repeat(kind, k) \in Seq(Kinds)
           /\ Len(s \o Repeat(kind, k)) = Len(s) + k
           /\ \A i \in 1 .. Len(s) : (s \o Repeat(kind, k))[i] = s[i]
           /\ k > 0 => (s \o Repeat(kind, k))[Len(s) + k] = kind
<1> DEFINE n == Len(s)
           e == Repeat(kind, k)
           t == s \o e
<1>1. n \in Nat /\ n > 0 /\ kind \in Kinds
  BY LenProperties DEF Kinds
<1>2. e \in Seq(Kinds) /\ Len(e) = k /\ \A i \in 1 .. k : e[i] = kind
  BY <1>1, RepeatFacts
<1> HIDE DEF e
<1>3. /\ t \in Seq(Kinds)
      /\ Len(t) = n + k
      /\ \A i \in 1 .. n + k : t[i] = IF i <= n THEN s[i] ELSE e[i - n]
  BY <1>2, ConcatProperties
<1>4. \A i \in 1 .. n - 1 : /\ s[i] = "gen" => s[i + 1] = "assistant"
                            /\ s[i + 1] = "assistant" => s[i] \in {"gen", "assistant"}
  BY DEF Alternates
<1>5. s[n] \in {"gen", "assistant"} /\ (kind = "tool" \/ k = 0 => s[n] # "gen")
  OBVIOUS
<1> HIDE DEF n, t
<1>6. \A i \in 1 .. n : t[i] = s[i]
  BY <1>1, <1>3
<1>7. \A i \in n + 1 .. n + k : t[i] = kind
  <2> SUFFICES ASSUME NEW i \in n + 1 .. n + k PROVE t[i] = kind
    OBVIOUS
  <2>1. i - n \in 1 .. k /\ i \in 1 .. n + k /\ ~(i <= n)
    BY <1>1
  <2> QED
    BY <1>2, <1>3, <2>1
<1>8. ASSUME NEW i \in 1 .. n + k - 1
      PROVE  /\ t[i] = "gen" => t[i + 1] = "assistant"
             /\ t[i + 1] = "assistant" => t[i] \in {"gen", "assistant"}
  <2>1. CASE i < n
    <3>1. i \in 1 .. n - 1 /\ i \in 1 .. n /\ i + 1 \in 1 .. n
      BY <1>1, <2>1
    <3> QED
      BY <1>4, <1>6, <3>1
  <2>2. CASE i = n
    <3>1. n \in 1 .. n /\ n + 1 \in n + 1 .. n + k
      BY <1>1, <2>2
    <3> QED
      BY <1>5, <1>6, <1>7, <2>2, <3>1
  <2>3. CASE i > n
    <3>1. i \in n + 1 .. n + k /\ i + 1 \in n + 1 .. n + k
      BY <1>1, <2>3
    <3> QED
      BY <1>7, <3>1
  <2> QED
    BY <1>1, <2>1, <2>2, <2>3
<1>9. Alternates(t)
  <2>1. Len(t) = n + k
    BY <1>3
  <2> SUFFICES ASSUME NEW i \in 1 .. Len(t) - 1
               PROVE  /\ t[i] = "gen" => t[i + 1] = "assistant"
                      /\ t[i + 1] = "assistant" => t[i] \in {"gen", "assistant"}
    BY DEF Alternates
  <2>2. i \in 1 .. n + k - 1
    BY <1>1, <2>1
  <2> QED
    BY <1>8, <2>2
<1>10. k > 0 => t[n + k] = kind
  BY <1>1, <1>7
<1> QED
  BY <1>3, <1>6, <1>9, <1>10 DEF n, e, t

LEMMA PrefixAlternates ==
    ASSUME NEW s \in Seq(Kinds), NEW t \in Seq(Kinds), Alternates(s), Len(t) <= Len(s),
           \A i \in 1 .. Len(t) : t[i] = s[i]
    PROVE  Alternates(t)
<1> DEFINE n == Len(s)
           k == Len(t)
<1>1. n \in Nat /\ k \in Nat /\ k <= n
  BY LenProperties
<1>2. \A i \in 1 .. k : t[i] = s[i]
  OBVIOUS
<1>3. \A i \in 1 .. n - 1 : /\ s[i] = "gen" => s[i + 1] = "assistant"
                            /\ s[i + 1] = "assistant" => s[i] \in {"gen", "assistant"}
  BY DEF Alternates
<1> HIDE DEF n, k
<1>4. ASSUME NEW i \in 1 .. k - 1
      PROVE  /\ t[i] = "gen" => t[i + 1] = "assistant"
             /\ t[i + 1] = "assistant" => t[i] \in {"gen", "assistant"}
  <2>1. i \in 1 .. n - 1 /\ i \in 1 .. k /\ i + 1 \in 1 .. k
    BY <1>1
  <2> QED
    BY <1>2, <1>3, <2>1
<1> QED
  BY <1>4 DEF Alternates, k

LEMMA TurningInitially == Init => Turning
<1> SUFFICES ASSUME Init, NEW r \in Requests
             PROVE  /\ ids[r] = <<>> /\ response[r] = <<>> /\ ~InBlock(r)
                    /\ state[r] = "completed" /\ phase = "idle"
  BY EmptySeq DEF Turning, Alternates, EndsWith
<1> QED
  BY DEF Init, InBlock

\* A step of r leaves the other requests as they are.
LEMMA OthersTurn ==
    ASSUME Turning, NEW r \in Requests,
           \A q \in Requests \ {r} :
               /\ ids'[q] = ids[q] /\ response'[q] = response[q] /\ state'[q] = state[q]
               /\ prompt'[q] = prompt[q] /\ left'[q] = left[q]
               /\ (InBlock(q)' => InBlock(q)),
           phase = "idle" => phase' = "idle",
           Alternates(ids'[r]),
           (phase' # "idle" /\ state'[r] # "completed") =>
               Len(ids'[r]) >= prompt'[r] /\ prompt'[r] >= 1 /\ ids'[r][prompt'[r]] = "gen",
           InBlock(r)' => EndsWith(ids'[r], "gen"),
           (state'[r] = "tool_calling" /\ ~left'[r]) => EndsWith(ids'[r], "assistant"),
           (state'[r] = "completed" /\ EndsWith(ids'[r], "gen")) => Len(ids'[r]) = KeptLen,
           response'[r] # <<>> => response'[r][1] = "assistant"
    PROVE  Turning'
<1> SUFFICES ASSUME NEW q \in Requests
             PROVE  /\ Alternates(ids'[q])
                    /\ (phase' # "idle" /\ state'[q] # "completed") =>
                        /\ Len(ids'[q]) >= prompt'[q]
                        /\ prompt'[q] >= 1
                        /\ ids'[q][prompt'[q]] = "gen"
                    /\ InBlock(q)' => EndsWith(ids'[q], "gen")
                    /\ (state'[q] = "tool_calling" /\ ~left'[q]) => EndsWith(ids'[q], "assistant")
                    /\ (state'[q] = "completed" /\ EndsWith(ids'[q], "gen"))
                        => Len(ids'[q]) = KeptLen
                    /\ response'[q] # <<>> => response'[q][1] = "assistant"
  BY DEF Turning, KeptLen, Alternates, EndsWith
<1>1. CASE q = r
  BY <1>1
<1>2. CASE q # r
  BY <1>2 DEF Turning
<1> QED
  BY <1>1, <1>2

LEMMA StartCallTurns == IInv /\ Turning /\ StartCall => Turning'
<1> SUFFICES ASSUME IInv, Turning, StartCall, NEW r \in Requests
             PROVE  /\ Alternates(ids'[r])
                    /\ Len(ids'[r]) >= prompt'[r]
                    /\ prompt'[r] >= 1
                    /\ ids'[r][prompt'[r]] = "gen"
                    /\ ~InBlock(r)'
                    /\ state'[r] = "pending"
                    /\ response'[r] = <<>>
  BY DEF Turning, Alternates, EndsWith
<1>1. PICK lens \in [Requests -> PromptLens] :
        /\ ids' = [q \in Requests |-> Append(Repeat("prompt", lens[q]), "gen")]
        /\ prompt' = [q \in Requests |-> lens[q] + 1]
  BY DEF StartCall
<1> DEFINE n == lens[r]
           e == Repeat("prompt", n)
<1>2. n \in Nat \ {0} /\ "prompt" \in Kinds /\ "gen" \in Kinds
  BY <1>1, SizeAssumption DEF Kinds
<1>3. ids'[r] = Append(e, "gen") /\ prompt'[r] = n + 1
  BY <1>1
<1> HIDE DEF n
<1>4. e \in Seq(Kinds) /\ Len(e) = n /\ \A i \in 1 .. n : e[i] = "prompt"
  BY <1>2, RepeatFacts
<1> HIDE DEF e
<1>5. /\ Len(Append(e, "gen")) = n + 1
      /\ Append(e, "gen")[n + 1] = "gen"
      /\ \A i \in 1 .. n : Append(e, "gen")[i] = e[i]
  BY <1>2, <1>4, AppendProperties
<1>6. Alternates(e)
  BY <1>2, <1>4 DEF Alternates
<1>7. ~EndsWith(e, "gen")
  BY <1>2, <1>4 DEF EndsWith
<1>8. Alternates(Append(e, "gen"))
  BY <1>4, <1>6, <1>7, AppendedAlternates
<1>9. ~InBlock(r)'
  BY DEF StartCall, sampling, InBlock, IInv, Blocks
<1>10. state'[r] = "pending" /\ response'[r] = <<>>
  BY DEF StartCall
<1>11. n + 1 >= n + 1 /\ n + 1 >= 1
  BY <1>2
<1> QED
  BY <1>3, <1>5, <1>8, <1>9, <1>10, <1>11

\* The generation prompt is put at the end.
LEMMA WithGenTurns ==
    ASSUME NEW s \in Seq(Kinds), Len(s) >= 1, Alternates(s)
    PROVE  /\ Alternates(WithGen(s))
           /\ EndsWith(WithGen(s), "gen")
           /\ Len(WithGen(s)) >= Len(s)
           /\ \A i \in 1 .. Len(s) : WithGen(s)[i] = s[i]
<1> DEFINE n == Len(s)
<1>1. n \in Nat /\ n >= 1 /\ "gen" \in Kinds
  BY LenProperties DEF Kinds
<1>2. CASE s[n] = "gen"
  <2>1. WithGen(s) = s
    BY <1>2 DEF WithGen
  <2> QED
    BY <1>1, <1>2, <2>1 DEF EndsWith
<1>3. CASE s[n] # "gen"
  <2>1. WithGen(s) = Append(s, "gen")
    BY <1>3 DEF WithGen
  <2>2. Alternates(Append(s, "gen"))
    BY <1>3, AppendedAlternates DEF EndsWith
  <2>3. /\ Len(Append(s, "gen")) = n + 1
        /\ Append(s, "gen")[n + 1] = "gen"
        /\ \A i \in 1 .. n : Append(s, "gen")[i] = s[i]
    BY <1>1, AppendProperties
  <2> HIDE DEF n
  <2>4. EndsWith(Append(s, "gen"), "gen") /\ Len(Append(s, "gen")) >= n
    BY <1>1, <2>3 DEF EndsWith
  <2> QED
    BY <2>1, <2>2, <2>3, <2>4 DEF n
<1> QED
  BY <1>2, <1>3

LEMMA GenStepTurns ==
    \A r \in Requests :
        IInv /\ Turning /\ (PromptTooLong(r) \/ CallEngine(r)) => Turning'
<1> SUFFICES ASSUME NEW r \in Requests, IInv, Turning, PromptTooLong(r) \/ CallEngine(r)
             PROVE  Turning'
  OBVIOUS
<1>1. /\ phase = "rolling" /\ UNCHANGED <<phase, state, prompt, response>>
      /\ state[r] = "running"
      /\ ids' = [ids EXCEPT ![r] = WithGen(ids[r])]
  BY DEF PromptTooLong, CallEngine, Looping
<1>2. ids'[r] = WithGen(ids[r]) /\ \A q \in Requests \ {r} : ids'[q] = ids[q]
  BY <1>1 DEF IInv, TypeOK
<1>3. \A q \in Requests \ {r} : left'[q] = left[q] /\ (InBlock(q)' => InBlock(q))
  BY DEF PromptTooLong, CallEngine, Enter, sampling, InBlock, IInv, TypeOK
<1> DEFINE s == ids[r]
           p == prompt[r]
<1>4. s \in Seq(Kinds) /\ p \in Nat /\ Len(s) \in Nat
  BY LenProperties DEF IInv, TypeOK
<1>5. Alternates(s) /\ Len(s) >= p /\ p >= 1 /\ s[p] = "gen"
  BY <1>1 DEF Turning
<1>6. /\ Alternates(WithGen(s))
      /\ EndsWith(WithGen(s), "gen")
      /\ Len(WithGen(s)) >= Len(s)
      /\ \A i \in 1 .. Len(s) : WithGen(s)[i] = s[i]
  BY <1>4, <1>5, WithGenTurns
<1>7. Len(WithGen(s)) \in Nat
  BY <1>4, WithGenFacts
<1>8. p \in 1 .. Len(s)
  BY <1>4, <1>5
<1>9. Len(WithGen(s)) >= p /\ WithGen(s)[p] = "gen"
  BY <1>4, <1>5, <1>6, <1>7, <1>8
<1>10. response[r] # <<>> => response[r][1] = "assistant"
  BY DEF Turning
<1> QED
  BY <1>1, <1>2, <1>3, <1>5, <1>6, <1>9, <1>10, OthersTurn

LEMMA ToolsTurn == \A r \in Requests : IInv /\ Turning /\ ToolsAnswered(r) => Turning'
<1> SUFFICES ASSUME NEW r \in Requests, IInv, Turning, ToolsAnswered(r) PROVE Turning'
  OBVIOUS
<1>1. PICK k \in ToolLens : ids' = [ids EXCEPT ![r] = ids[r] \o Repeat("tool", k)]
  BY DEF ToolsAnswered
<1> DEFINE s == ids[r]
           p == prompt[r]
           t == s \o Repeat("tool", k)
<1>2. /\ phase = "rolling" /\ state[r] = "tool_calling"
      /\ UNCHANGED <<phase, prompt, response, asked>>
      /\ state'[r] \in {"tool_calling", "running"}
      /\ \A q \in Requests \ {r} : state'[q] = state[q]
  BY DEF ToolsAnswered, Looping, sampling, IInv, TypeOK
<1>3. ids'[r] = t /\ \A q \in Requests \ {r} : ids'[q] = ids[q]
  BY <1>1 DEF IInv, TypeOK
<1>4. \A q \in Requests : InBlock(q)' => InBlock(q)
  BY <1>2 DEF InBlock
<1>5. ~InBlock(r)'
  BY <1>2, <1>4 DEF IInv, Blocks
<1>6. s \in Seq(Kinds) /\ p \in Nat /\ Len(s) \in Nat /\ k \in Nat
  BY LenProperties, SizeAssumption DEF IInv, TypeOK
<1>7. /\ Alternates(s) /\ Len(s) >= p /\ p >= 1 /\ s[p] = "gen"
      /\ EndsWith(s, "assistant")
      /\ response[r] # <<>> => response[r][1] = "assistant"
  BY <1>2 DEF Turning, ToolsAnswered, Looping
<1>8. Len(s) > 0 /\ s[Len(s)] = "assistant"
  BY <1>7 DEF EndsWith
<1>9. /\ Alternates(t)
      /\ t \in Seq(Kinds)
      /\ Len(t) = Len(s) + k
      /\ \A i \in 1 .. Len(s) : t[i] = s[i]
  BY <1>6, <1>7, <1>8, RepeatedAlternates
<1>10. Len(t) >= p /\ t[p] = "gen"
  BY <1>6, <1>7, <1>9
<1>11. /\ state'[r] # "tool_calling" \/ left'[r]
       /\ \A q \in Requests \ {r} : left'[q] = left[q]
  BY DEF ToolsAnswered, IInv, TypeOK
<1> QED
  BY <1>2, <1>3, <1>4, <1>5, <1>7, <1>9, <1>10, <1>11, OthersTurn

LEMMA AnswerTurns ==
    \A r \in Requests :
        IInv /\ Turning /\ (AnswerCutOff(r) \/ AnswerEnds(r) \/ AnswerCallsTools(r)) => Turning'
<1> SUFFICES ASSUME NEW r \in Requests, IInv, Turning,
                    AnswerCutOff(r) \/ AnswerEnds(r) \/ AnswerCallsTools(r)
             PROVE  Turning'
  OBVIOUS
<1>1. PICK n \in AnswerLens : Answered(r, n)
  BY DEF AnswerCutOff, AnswerEnds, AnswerCallsTools
<1> DEFINE s == ids[r]
           p == prompt[r]
           k == n + CloseLen
           t == s \o Repeat("assistant", k)
<1>2. /\ phase = "rolling" /\ InBlock(r) /\ Exit(r) /\ UNCHANGED <<phase, prompt, response>>
      /\ ids' = [ids EXCEPT ![r] = t]
  BY <1>1 DEF Answered
<1>3. ids'[r] = t /\ \A q \in Requests \ {r} : ids'[q] = ids[q]
  BY <1>2 DEF IInv, TypeOK
<1>4. /\ state[r] = "running"
      /\ state'[r] \in {"running", "tool_calling"}
      /\ \A q \in Requests \ {r} : state'[q] = state[q] /\ left'[q] = left[q]
  BY <1>2 DEF AnswerCutOff, AnswerEnds, AnswerCallsTools, IInv, TypeOK, Blocks
<1>5. ~InBlock(r)' /\ \A q \in Requests \ {r} : InBlock(q)' => InBlock(q)
  BY <1>2, ExitFacts DEF IInv, InBlock
<1>6. s \in Seq(Kinds) /\ p \in Nat /\ Len(s) \in Nat /\ k \in Nat /\ k > 0
  BY LenProperties, SizeAssumption DEF IInv, TypeOK
<1>7. /\ Alternates(s) /\ Len(s) >= p /\ p >= 1 /\ s[p] = "gen"
      /\ EndsWith(s, "gen")
      /\ response[r] # <<>> => response[r][1] = "assistant"
  BY <1>2, <1>4 DEF Turning
<1>8. Len(s) > 0 /\ s[Len(s)] = "gen"
  BY <1>7 DEF EndsWith
<1> HIDE DEF k
<1>9. /\ Alternates(t)
      /\ t \in Seq(Kinds)
      /\ Len(t) = Len(s) + k
      /\ \A i \in 1 .. Len(s) : t[i] = s[i]
      /\ t[Len(s) + k] = "assistant"
  <2>1. ("assistant" = "tool" \/ k = 0) => s[Len(s)] # "gen"
    BY <1>6
  <2>2. s[Len(s)] \in {"gen", "assistant"} /\ "assistant" \in {"assistant", "tool"}
    BY <1>8
  <2> HIDE DEF s
  <2> QED
    BY <1>6, <1>7, <1>8, <2>1, <2>2, RepeatedAlternates
<1>10. Len(t) >= p /\ t[p] = "gen"
  BY <1>6, <1>7, <1>9
<1>11. EndsWith(t, "assistant")
  BY <1>6, <1>9 DEF EndsWith
<1> QED
  BY <1>2, <1>3, <1>4, <1>5, <1>7, <1>9, <1>10, <1>11, OthersTurn

LEMMA QuietTurns ==
    \A r \in Requests : IInv /\ Turning /\ (ToolsCreated(r) \/ Raises(r)) => Turning'
<1> SUFFICES ASSUME NEW r \in Requests, IInv, Turning, ToolsCreated(r) \/ Raises(r)
             PROVE  Turning'
  OBVIOUS
<1>1. phase = "rolling" /\ UNCHANGED <<ids, prompt, left, response>>
  BY DEF ToolsCreated, Raises, Looping, request
<1>2. /\ state'[r] = state[r] \/ (state[r] = "pending" /\ state'[r] = "running")
      /\ \A q \in Requests \ {r} : state'[q] = state[q]
  BY DEF ToolsCreated, Raises, request, IInv, TypeOK
<1>3. \A q \in Requests : InBlock(q)' => InBlock(q)
  <2>1. CASE Exit(r)
    BY <2>1, DictionaryFacts DEF Exit, InBlock, IInv, TypeOK
  <2>2. CASE UNCHANGED sampling
    BY <2>2 DEF sampling, InBlock
  <2> QED
    BY <2>1, <2>2 DEF ToolsCreated, Raises
<1>4. /\ Alternates(ids[r])
      /\ state[r] # "completed" =>
           Len(ids[r]) >= prompt[r] /\ prompt[r] >= 1 /\ ids[r][prompt[r]] = "gen"
      /\ InBlock(r) => EndsWith(ids[r], "gen")
      /\ (state[r] = "tool_calling" /\ ~left[r]) => EndsWith(ids[r], "assistant")
      /\ (state[r] = "completed" /\ EndsWith(ids[r], "gen")) => Len(ids[r]) = KeptLen
      /\ response[r] # <<>> => response[r][1] = "assistant"
  BY <1>1 DEF Turning
<1> QED
  BY <1>1, <1>2, <1>3, <1>4, OthersTurn

LEMMA FinalizeTurns == \A r \in Requests : IInv /\ Turning /\ Finalize(r) => Turning'
<1> SUFFICES ASSUME NEW r \in Requests, IInv, Turning, Finalize(r) PROVE Turning'
  OBVIOUS
<1> DEFINE s == ids[r]
           p == prompt[r]
           u == WithoutGen(s)
           kept == FirstOf(u, KeptLen)
           rest == After(kept, p)
           resp == FirstOf(rest, ResponseLength)
<1>1. FinalReason(r) \in {"stop", "length"}
  <2>1. turns[r] \in Nat /\ left[r] \in BOOLEAN
    BY SizeAssumption DEF IInv, TypeOK
  <2>2. left[r] \/ turns[r] >= MaxTurns
    BY <2>1, SizeAssumption DEF Finalize, Looping
  <2> QED
    BY <2>2 DEF IInv, Reasoned, FinalReason
<1>2. /\ phase = "rolling" /\ ~InBlock(r)
      /\ state[r] # "completed"
      /\ ids' = [ids EXCEPT ![r] = kept]
      /\ response' = [response EXCEPT ![r] = resp]
      /\ UNCHANGED <<phase, prompt, left, asked>>
  BY <1>1 DEF Finalize, sampling
<1>3. /\ ids'[r] = kept /\ response'[r] = resp /\ state'[r] = "completed"
      /\ \A q \in Requests \ {r} :
            ids'[q] = ids[q] /\ response'[q] = response[q] /\ state'[q] = state[q]
  BY <1>2 DEF Finalize, IInv, TypeOK
<1>4. \A q \in Requests : InBlock(q)' => InBlock(q)
  BY <1>2 DEF InBlock
<1>5. s \in Seq(Kinds) /\ p \in Nat /\ Len(s) \in Nat
  BY LenProperties DEF IInv, TypeOK
<1>6. Alternates(s) /\ Len(s) >= p /\ p >= 1 /\ s[p] = "gen"
  BY <1>2 DEF Turning
<1>7. u \in Seq(Kinds) /\ Len(u) <= Len(s) /\ \A i \in 1 .. Len(u) : u[i] = s[i]
  BY <1>5, WithoutGenFacts
<1>8. /\ kept \in Seq(Kinds)
      /\ Len(kept) = IF KeptLen <= Len(u) THEN KeptLen ELSE Len(u)
      /\ \A i \in 1 .. Len(kept) : kept[i] = u[i]
  BY <1>7, KeptLenFacts, FirstOfFacts
<1>9. ~EndsWith(u, "gen")
  <2>1. CASE s[Len(s)] # "gen"
    <3>1. u = s
      BY <2>1 DEF WithoutGen
    <3> QED
      BY <2>1, <3>1 DEF EndsWith
  <2>2. CASE s[Len(s)] = "gen"
    <3> DEFINE n == Len(s)
    <3>1. n \in Nat /\ n >= 1
      BY <1>5, <1>6
    <3>2. u = [i \in 1 .. n - 1 |-> s[i]]
      BY <2>2, <3>1 DEF WithoutGen
    <3>3. \A i \in 1 .. n - 1 : s[i] = "gen" => s[i + 1] = "assistant"
      BY <1>6 DEF Alternates
    <3>4. s[n] = "gen"
      BY <2>2
    <3>5. \A i \in 1 .. n - 1 : s[i] \in Kinds
      BY <1>5, ElementOfSeq
    <3> HIDE DEF n, u
    <3>6. n - 1 \in Nat /\ Len(u) = n - 1
      BY <3>1, <3>2, <3>5
    <3>7. ASSUME n - 1 > 0 PROVE u[n - 1] # "gen"
      <4>1. n - 1 \in 1 .. n - 1 /\ (n - 1) + 1 = n
        BY <3>1, <3>7
      <4>2. s[n - 1] # "gen"
        BY <3>3, <3>4, <4>1
      <4> QED
        BY <3>2, <4>1, <4>2
    <3> QED
      BY <3>6, <3>7 DEF EndsWith
  <2> QED
    BY <2>1, <2>2
<1>10. Len(u) \in Nat /\ Len(kept) \in Nat /\ KeptLen \in Nat
  BY <1>7, <1>8, LenProperties, KeptLenFacts
<1>11. Alternates(kept)
  <2>1. Alternates(u)
    BY <1>5, <1>6, <1>7, PrefixAlternates
  <2> HIDE DEF u, kept
  <2> QED
    BY <1>7, <1>8, <1>10, <2>1, PrefixAlternates
<1>12. EndsWith(kept, "gen") => Len(kept) = KeptLen
  <2> HIDE DEF u, kept
  <2>1. SUFFICES ASSUME Len(kept) # KeptLen, EndsWith(kept, "gen") PROVE FALSE
    OBVIOUS
  <2>2. Len(kept) = Len(u)
    BY <1>8, <2>1
  <2>3. Len(kept) \in 1 .. Len(kept)
    BY <1>10, <2>1 DEF EndsWith
  <2>4. u[Len(u)] = "gen" /\ Len(u) > 0
    BY <1>8, <2>1, <2>2, <2>3 DEF EndsWith
  <2> QED
    BY <1>9, <2>4 DEF EndsWith
<1>13. resp # <<>> => resp[1] = "assistant"
  <2> SUFFICES ASSUME resp # <<>> PROVE resp[1] = "assistant"
    OBVIOUS
  <2>1. /\ rest \in Seq(Kinds)
        /\ Len(rest) = IF p <= Len(kept) THEN Len(kept) - p ELSE 0
        /\ \A i \in 1 .. Len(rest) : rest[i] = kept[p + i]
    BY <1>5, <1>8, AfterFacts
  <2>2. /\ resp \in Seq(Kinds)
        /\ Len(resp) = IF ResponseLength <= Len(rest) THEN ResponseLength ELSE Len(rest)
        /\ \A i \in 1 .. Len(resp) : resp[i] = rest[i]
    BY <2>1, FirstOfFacts, SizeAssumption
  <2> HIDE DEF kept, rest, resp, u
  <2>3. Len(resp) \in Nat \ {0} /\ Len(rest) \in Nat
    BY <2>1, <2>2, EmptySeq, LenProperties
  <2>4. 1 \in 1 .. Len(resp) /\ 1 \in 1 .. Len(rest)
    BY <2>2, <2>3, SizeAssumption
  <2>5. resp[1] = kept[p + 1]
    BY <2>1, <2>2, <2>4
  <2>6. p < Len(kept)
    BY <1>5, <1>10, <2>1, <2>4
  <2>7. kept[p] = "gen"
    <3>1. p \in 1 .. Len(kept) /\ p \in 1 .. Len(u)
      BY <1>5, <1>6, <1>8, <1>10, <2>6
    <3> QED
      BY <1>6, <1>7, <1>8, <3>1
  <2>8. p \in 1 .. Len(kept) - 1
    BY <1>5, <1>6, <1>10, <2>6
  <2> QED
    BY <1>11, <2>5, <2>7, <2>8 DEF Alternates
<1> HIDE DEF kept, resp
<1> QED
  BY <1>2, <1>3, <1>4, <1>11, <1>12, <1>13, OthersTurn

LEMMA TurningInvariance == IInv /\ Turning /\ [Next]_vars => Turning'
<1> SUFFICES ASSUME IInv, Turning, [Next]_vars PROVE Turning'
  OBVIOUS
<1>1. CASE StartCall
  BY <1>1, StartCallTurns
<1>2. CASE CallReturns
  <2>1. UNCHANGED <<asked, state, ids, prompt, left, response>>
    BY <1>2 DEF CallReturns, sampling, request
  <2>2. phase # "idle" /\ \A r \in Requests : state[r] = "completed"
    BY <1>2 DEF CallReturns
  <2> QED
    BY <2>1, <2>2 DEF Turning, InBlock, Alternates, EndsWith, KeptLen
<1>3. ASSUME NEW r \in Requests, RequestStep(r)
      PROVE  Turning'
  BY <1>3, QuietTurns, GenStepTurns, AnswerTurns, ToolsTurn, FinalizeTurns DEF RequestStep
<1>4. CASE UNCHANGED vars
  BY <1>4 DEF vars, sampling, request, Turning, InBlock, Alternates, EndsWith, KeptLen
<1> QED
  BY <1>1, <1>2, <1>3, <1>4 DEF Next

\* The tokens of a request alternate between generation prompts and answers, and a
\* response starts with an answer (get_generation_prompt_ids, finalize and
\* truncate_output_ids in schemas.py).
THEOREM TurnsAlternate == Spec => []TurnByTurn
<1>1. IInv /\ Turning => TurnByTurn
  <2> SUFFICES ASSUME IInv, Turning, NEW r \in Requests
               PROVE  /\ Alternates(ids[r])
                      /\ (state[r] = "completed" /\ ids[r] # <<>> /\ ids[r][Len(ids[r])] = "gen")
                          => Len(ids[r]) = KeptLen
                      /\ response[r] # <<>> => response[r][1] = "assistant"
    BY DEF TurnByTurn, Alternates
  <2>1. ids[r] # <<>> => Len(ids[r]) > 0
    BY EmptySeq DEF IInv, TypeOK
  <2> QED
    BY <2>1 DEF Turning, EndsWith
<1> QED
  BY <1>1, AlwaysIInv, TurningInitially, TurningInvariance, PTL DEF Spec

--------------------------------------------------------------------------------
(* Tools *)

\* The limiter a pool has is one, and all that live are the one with the name.
Links ==
    /\ name # NoLimiter => limiterOf[name] = name
    /\ \A p \in Pools :
          /\ limiterOf[p] # NoLimiter =>
                /\ pool[p] # "starting"
                /\ limiterOf[limiterOf[p]] = limiterOf[p]
          /\ Alive(limiterOf[p]) => limiterOf[p] = name

\* Calls that wait or run have a pool, those that wait a limiter as well.
CallsSound ==
    \A c \in Calls :
        /\ status[c] \in {"acquiring", "running"} => pool[PoolOf[c]] = "up"
        /\ status[c] = "acquiring" => Alive(limiterOf[PoolOf[c]])
        /\ c \in releasing => status[c] \in Ended /\ limiterOf[PoolOf[c]] # NoLimiter

\* A limiter's queue: whose call may be in it, and that it is there once.
Waiting(c, q) ==
    /\ limiterOf[PoolOf[c]] = q
    /\ status[c] = "acquiring" \/ (status[c] \in Ended /\ pool[PoolOf[c]] = "dead")

QueueOf(q) ==
    \A i \in 1 .. Len(acquiring[q]) :
        /\ Waiting(acquiring[q][i], q)
        /\ \A j \in 1 .. Len(acquiring[q]) : acquiring[q][i] = acquiring[q][j] => i = j

Queue == \A q \in Pools : QueueOf(q)

ToolInv == ToolTypeOK /\ Links /\ CallsSound /\ Queue /\ TokensConserved

-------------------------------------------------------------------------------
(* The calls that have a token *)

LEMMA OutFinite ==
    ASSUME ToolTypeOK, NEW q
    PROVE  /\ Out(q) \subseteq Calls
           /\ IsFiniteSet(Out(q))
           /\ Cardinality(Out(q)) \in Nat
<1>1. Out(q) \subseteq Calls
  BY DEF Out, Running, ToolTypeOK
<1>2. IsFiniteSet(Out(q))
  BY <1>1, ToolAssumption, FS_Subset DEF ToolAssumption
<1> QED
  BY <1>1, <1>2, FS_CardinalityType

\* What TokensConserved says of one limiter.
Conserved(q) ==
    Alive(q) /\ limiterOf[q] = q =>
        /\ sem[q] + Cardinality(Out(q)) <= RateLimit[q]
        /\ Intact(q) => sem[q] + Cardinality(Out(q)) = RateLimit[q]

\* A limiter whose semaphore and calls a step leaves alone stays conserved.
LEMMA SameCalls ==
    ASSUME NEW q, Conserved(q), Alive(q)' => Alive(q), limiterOf' = limiterOf,
           sem'[q] = sem[q], Out(q)' = Out(q), Intact(q)' => Intact(q)
    PROVE  Conserved(q)'
BY DEF Conserved

-------------------------------------------------------------------------------
(* Each part of the invariant is preserved *)

LEMMA StepTypeOK == ToolTypeOK /\ ToolNext => ToolTypeOK'
<1> SUFFICES ASSUME ToolTypeOK, ToolNext PROVE ToolTypeOK'
  OBVIOUS
<1> USE ToolAssumption DEF ToolAssumption, ToolTypeOK, Ended, Failed
<1>1. ASSUME NEW p \in Pools, StartPool(p) PROVE ToolTypeOK'
  <2>1. Limiter(p) \in Pools /\ RateLimit[p] \in Nat
    BY DEF Limiter, Alive
  <2>2. pool' \in [Pools -> {"starting", "up", "dead"}] /\ name' \in Pools \cup {NoLimiter}
    BY <1>1, <2>1 DEF StartPool
  <2>3. limiterOf' \in [Pools -> Pools \cup {NoLimiter}]
    BY <1>1, <2>1 DEF StartPool
  <2>4. sem' \in [Pools -> Nat]
    BY <1>1, <2>1 DEF StartPool
  <2> QED
    BY <1>1, <2>2, <2>3, <2>4 DEF StartPool
<1>2. ASSUME NEW p \in Pools, Acquire(p) PROVE ToolTypeOK'
  <2>1. Tail(acquiring[p]) \in Seq(Calls) /\ Head(acquiring[p]) \in Calls
    BY <1>2 DEF Acquire
  <2>2. sem[p] \in Nat /\ sem[p] > 0
    BY <1>2 DEF Acquire
  <2>3. sem[p] - 1 \in Nat
    BY <2>2
  <2> QED
    BY <1>2, <2>1, <2>3 DEF Acquire
<1>3. ASSUME NEW p \in Pools, DropStale(p) PROVE ToolTypeOK'
  <2>1. Tail(acquiring[p]) \in Seq(Calls)
    BY <1>3 DEF DropStale
  <2> QED
    BY <1>3, <2>1 DEF DropStale
<1>4. ASSUME NEW p \in Pools, PoolDies(p) PROVE ToolTypeOK'
  <2>1. <<>> \in Seq(Calls)
    OBVIOUS
  <2> QED
    BY <1>4, <2>1 DEF PoolDies
<1>5. ASSUME NEW c \in Calls, Ask(c) PROVE ToolTypeOK'
  BY <1>5 DEF Ask
<1>6. ASSUME NEW c \in Calls, RejectQuery(c) PROVE ToolTypeOK'
  BY <1>6 DEF RejectQuery
<1>7. ASSUME NEW c \in Calls, TakeUp(c) PROVE ToolTypeOK'
  <2> DEFINE q == limiterOf[PoolOf[c]]
  <2>1. q \in Pools => Append(acquiring[q], c) \in Seq(Calls)
    OBVIOUS
  <2>2. acquiring' \in [Pools -> Seq(Calls)]
    <3>1. \/ q \in Pools /\ acquiring' = [acquiring EXCEPT ![q] = Append(acquiring[q], c)]
          \/ acquiring' = acquiring
      BY <1>7 DEF TakeUp, Alive
    <3> HIDE DEF q
    <3> QED
      BY <2>1, <3>1
  <2>3. status' \in [Calls -> {"idle", "asked", "acquiring", "running"} \cup Ended]
    BY <1>7 DEF TakeUp
  <2> QED
    BY <1>7, <2>2, <2>3 DEF TakeUp
<1>8. ASSUME NEW c \in Calls, TryAgain(c) PROVE ToolTypeOK'
  BY <1>8 DEF TryAgain
<1>9. ASSUME NEW c \in Calls, Finish(c) PROVE ToolTypeOK'
  BY <1>9 DEF Finish
<1>10. ASSUME NEW c \in Calls, Release(c) PROVE ToolTypeOK'
  BY <1>10 DEF Release, Alive
<1> QED
  BY <1>1, <1>2, <1>3, <1>4, <1>5, <1>6, <1>7, <1>8, <1>9, <1>10 DEF ToolNext

LEMMA StepLinks == ToolTypeOK /\ Links /\ ToolNext => Links'
<1> SUFFICES ASSUME ToolTypeOK, Links, ToolNext PROVE Links'
  OBVIOUS
<1> USE ToolAssumption DEF ToolAssumption, ToolTypeOK, Links, Alive
<1>1. ASSUME NEW p \in Pools, StartPool(p) PROVE Links'
  BY <1>1 DEF StartPool, Limiter
<1>2. ASSUME NEW p \in Pools, PoolDies(p) PROVE Links'
  BY <1>2 DEF PoolDies
<1>3. ASSUME UNCHANGED <<pool, name, limiterOf>> PROVE Links'
  BY <1>3
<1> QED
  BY <1>1, <1>2, <1>3 DEF ToolNext, Acquire, DropStale, Ask, RejectQuery, TakeUp, TryAgain, Finish, Release

LEMMA StepCalling == ToolTypeOK /\ Links /\ CallsSound /\ Queue /\ ToolNext => CallsSound'
<1> SUFFICES ASSUME ToolTypeOK, Links, CallsSound, Queue, ToolNext PROVE CallsSound'
  OBVIOUS
<1> USE ToolAssumption DEF ToolAssumption, ToolTypeOK, CallsSound, Alive, Ended, Failed
<1>1. ASSUME NEW p \in Pools, StartPool(p) PROVE CallsSound'
  <2>1. /\ pool[p] = "starting" /\ limiterOf[p] = NoLimiter
        /\ pool' \in [Pools -> {"starting", "up", "dead"}]
        /\ \A q \in Pools \ {p} : pool'[q] = pool[q] /\ limiterOf'[q] = limiterOf[q]
        /\ pool'[p] = "up"
        /\ UNCHANGED <<status, releasing>>
    BY <1>1 DEF StartPool, Links
  <2>2. \A q \in Pools : pool[q] = "up" => pool'[q] = "up"
    BY <2>1
  <2>3. ASSUME NEW c \in Calls PROVE
          /\ status[c] \in {"acquiring", "running"} => PoolOf[c] # p
          /\ c \in releasing => PoolOf[c] # p
    BY <2>1
  <2>4. ASSUME NEW c \in Calls PROVE PoolOf[c] \in Pools
    OBVIOUS
  <2>5. ASSUME NEW c \in Calls PROVE
          /\ status'[c] \in {"acquiring", "running"} => pool'[PoolOf[c]] = "up"
          /\ status'[c] = "acquiring" => Alive(limiterOf[PoolOf[c]])'
          /\ c \in releasing' => status'[c] \in Ended /\ limiterOf'[PoolOf[c]] # NoLimiter
    BY <2>1, <2>2, <2>3, <2>4
  <2> QED
    BY <2>5
<1>2. ASSUME NEW p \in Pools, Acquire(p) PROVE CallsSound'
  <2>1. Head(acquiring[p]) \in Calls
    BY <1>2 DEF Acquire
  <2> QED
    BY <1>2, <2>1 DEF Acquire
<1>3. ASSUME NEW p \in Pools, DropStale(p) PROVE CallsSound'
  BY <1>3 DEF DropStale
<1>4. ASSUME NEW p \in Pools, PoolDies(p) PROVE CallsSound'
  BY <1>4 DEF PoolDies, Hit
<1>5. ASSUME NEW c \in Calls, Ask(c) PROVE CallsSound'
  BY <1>5 DEF Ask
<1>6. ASSUME NEW c \in Calls, RejectQuery(c) PROVE CallsSound'
  BY <1>6 DEF RejectQuery
<1>7. ASSUME NEW c \in Calls, TakeUp(c) PROVE CallsSound'
  BY <1>7 DEF TakeUp
<1>8. ASSUME NEW c \in Calls, TryAgain(c) PROVE CallsSound'
  BY <1>8 DEF TryAgain
<1>9. ASSUME NEW c \in Calls, Finish(c) PROVE CallsSound'
  BY <1>9 DEF Finish
<1>10. ASSUME NEW c \in Calls, Release(c) PROVE CallsSound'
  BY <1>10 DEF Release
<1> QED
  BY <1>1, <1>2, <1>3, <1>4, <1>5, <1>6, <1>7, <1>8, <1>9, <1>10 DEF ToolNext

LEMMA QueueKept ==
    ASSUME ToolTypeOK, NEW q \in Pools, QueueOf(q), acquiring'[q] = acquiring[q],
           \A c \in Calls : Waiting(c, q) => Waiting(c, q)'
    PROVE  QueueOf(q)'
<1>1. \A i \in 1 .. Len(acquiring[q]) : acquiring[q][i] \in Calls
  BY DEF ToolTypeOK
<1> QED
  BY <1>1 DEF QueueOf

\* Taking the first call out of a queue.
LEMMA QueueShorter ==
    ASSUME ToolTypeOK, NEW q \in Pools, QueueOf(q), acquiring[q] # <<>>, acquiring'[q] = Tail(acquiring[q]),
           \A c \in Calls : Waiting(c, q) /\ c # Head(acquiring[q]) => Waiting(c, q)'
    PROVE  QueueOf(q)'
<1> DEFINE s == acquiring[q]
           t == Tail(acquiring[q])
<1>1. s \in Seq(Calls) /\ s # <<>>
  BY DEF ToolTypeOK
<1> HIDE DEF s
<1>2. /\ Len(s) \in Nat /\ Len(s) > 0 /\ Head(s) = s[1]
      /\ Len(Tail(s)) = Len(s) - 1
      /\ \A i \in 1 .. Len(Tail(s)) : Tail(s)[i] = s[i + 1]
      /\ \A i \in 1 .. Len(s) : s[i] \in Calls
  BY <1>1
<1>3. acquiring'[q] = Tail(s) /\ Head(acquiring[q]) = Head(s)
  BY DEF s
<1>4. \A i \in 1 .. Len(s) :
        /\ Waiting(s[i], q)
        /\ \A j \in 1 .. Len(s) : s[i] = s[j] => i = j
  BY DEF QueueOf, s
<1>5. ASSUME NEW i \in 1 .. Len(Tail(s)), NEW e \in Calls, e = s[i + 1] PROVE Waiting(e, q)'
  <2>1. i + 1 \in 1 .. Len(s) /\ 1 \in 1 .. Len(s) /\ i + 1 # 1
    BY <1>2
  <2>2. e # Head(s) /\ Waiting(e, q)
    BY <2>1, <1>2, <1>4, <1>5
  <2> QED
    BY <2>2, <1>3
<1>6. ASSUME NEW i \in 1 .. Len(Tail(s)), NEW j \in 1 .. Len(Tail(s)), Tail(s)[i] = Tail(s)[j] PROVE i = j
  <2>1. i + 1 \in 1 .. Len(s) /\ j + 1 \in 1 .. Len(s)
    BY <1>2
  <2>2. i + 1 = j + 1
    BY <2>1, <1>2, <1>4, <1>6
  <2> QED
    BY <2>2, <1>2
<1>7. ASSUME NEW i \in 1 .. Len(Tail(s)) PROVE Tail(s)[i] \in Calls /\ Tail(s)[i] = s[i + 1]
  BY <1>2
<1> QED
  <2>1. ASSUME NEW i \in 1 .. Len(acquiring'[q]) PROVE Waiting(acquiring[q][i], q)'
    <3>1. PICK e \in Calls : e = Tail(s)[i] /\ e = s[i + 1]
      BY <1>3, <1>7
    <3>2. Waiting(e, q)'
      BY <1>3, <1>5, <3>1
    <3> QED
      BY <1>3, <3>1, <3>2 DEF Waiting
  <2> QED
    BY <1>3, <1>6, <2>1 DEF QueueOf

\* Putting a call that is not there at its end.
LEMMA QueueLonger ==
    ASSUME ToolTypeOK, NEW q \in Pools, NEW c \in Calls, QueueOf(q),
           acquiring'[q] = Append(acquiring[q], c), ~Waiting(c, q), Waiting(c, q)',
           \A d \in Calls : Waiting(d, q) => Waiting(d, q)'
    PROVE  QueueOf(q)'
<1> DEFINE s == acquiring[q]
<1>1. s \in Seq(Calls)
  BY DEF ToolTypeOK
<1>3. acquiring'[q] = Append(s, c)
  OBVIOUS
<1>4. \A i \in 1 .. Len(s) :
        /\ Waiting(s[i], q)
        /\ \A j \in 1 .. Len(s) : s[i] = s[j] => i = j
  BY DEF QueueOf
<1> HIDE DEF s
<1>2. /\ Len(s) \in Nat /\ Len(Append(s, c)) = Len(s) + 1 /\ Append(s, c)[Len(s) + 1] = c
      /\ \A i \in 1 .. Len(s) : Append(s, c)[i] = s[i] /\ s[i] \in Calls
  BY <1>1
<1>5. \A i, j \in 1 .. Len(s) + 1 : Append(s, c)[i] = Append(s, c)[j] => i = j
  <2>1. \A i \in 1 .. Len(s) + 1 : i = Len(s) + 1 \/ i \in 1 .. Len(s)
    BY <1>2
  <2>2. \A i \in 1 .. Len(s) : s[i] # c
    BY <1>4
  <2> QED
    BY <2>1, <2>2, <1>2, <1>4
<1>6. \A i \in 1 .. Len(s) + 1 : Append(s, c)[i] = c \/ (Append(s, c)[i] \in Calls /\ i \in 1 .. Len(s) /\ Append(s, c)[i] = s[i])
  BY <1>2
<1>7. ASSUME NEW i \in 1 .. Len(s), NEW e \in Calls, e = s[i] PROVE Waiting(e, q)'
  BY <1>4, <1>7
<1> QED
  BY <1>2, <1>3, <1>5, <1>6, <1>7 DEF QueueOf, Waiting

LEMMA StepQueue == ToolTypeOK /\ Links /\ CallsSound /\ Queue /\ ToolNext => Queue'
<1> SUFFICES ASSUME ToolTypeOK, Links, CallsSound, Queue, ToolNext, NEW q \in Pools PROVE QueueOf(q)'
  BY DEF Queue
<1>0. QueueOf(q) /\ PoolOf \in [Calls -> Pools]
  BY ToolAssumption DEF Queue, ToolAssumption
<1> USE DEF ToolTypeOK, Ended
<1>1. ASSUME NEW p \in Pools, StartPool(p) PROVE QueueOf(q)'
  <2>1. \A c \in Calls : Waiting(c, q) => Waiting(c, q)'
    BY <1>0, <1>1, ToolAssumption DEF StartPool, Waiting, Links, ToolAssumption
  <2> QED
    BY <1>0, <1>1, <2>1, QueueKept DEF StartPool
<1>2. ASSUME NEW p \in Pools, Acquire(p) PROVE QueueOf(q)'
  <2>1. \A c \in Calls : Waiting(c, q) /\ c # Head(acquiring[p]) => Waiting(c, q)'
    BY <1>0, <1>2 DEF Acquire, Waiting
  <2>2. CASE p = q
    BY <1>0, <1>2, <2>1, <2>2, QueueShorter DEF Acquire
  <2>3. CASE p # q
    <3>1. Head(acquiring[p]) = acquiring[p][1] /\ 1 \in 1 .. Len(acquiring[p])
      BY <1>2 DEF Acquire
    <3>2. limiterOf[PoolOf[Head(acquiring[p])]] = p
      BY <3>1 DEF Queue, QueueOf, Waiting
    <3>3. ~Waiting(Head(acquiring[p]), q)
      BY <3>2, <2>3 DEF Waiting
    <3> QED
      BY <1>0, <1>2, <2>1, <2>3, <3>3, QueueKept DEF Acquire
  <2> QED
    BY <2>2, <2>3
<1>3. ASSUME NEW p \in Pools, DropStale(p) PROVE QueueOf(q)'
  <2>1. \A c \in Calls : Waiting(c, q) => Waiting(c, q)'
    BY <1>0, <1>3 DEF DropStale, Waiting
  <2> QED
    BY <1>0, <1>3, <2>1, QueueShorter, QueueKept DEF DropStale
<1>4. ASSUME NEW p \in Pools, PoolDies(p) PROVE QueueOf(q)'
  <2>1. CASE p = q
    <3>1. acquiring'[q] = <<>>
      BY <1>4, <2>1 DEF PoolDies
    <3> QED
      BY <3>1 DEF QueueOf
  <2>2. CASE p # q
    <3>1. \A c \in Calls : Waiting(c, q) => Waiting(c, q)'
      BY <1>0, <1>4, <2>2 DEF PoolDies, Hit, Waiting, Failed
    <3> QED
      BY <1>0, <1>4, <2>2, <3>1, QueueKept DEF PoolDies
  <2> QED
    BY <2>1, <2>2
<1>5. ASSUME NEW c \in Calls, Ask(c) PROVE QueueOf(q)'
  BY <1>0, <1>5, QueueKept DEF Ask, Waiting
<1>6. ASSUME NEW c \in Calls, RejectQuery(c) PROVE QueueOf(q)'
  BY <1>0, <1>6, QueueKept DEF RejectQuery, Waiting
<1>7. ASSUME NEW c \in Calls, TakeUp(c) PROVE QueueOf(q)'
  <2>1. \A d \in Calls : Waiting(d, q) => Waiting(d, q)'
    BY <1>0, <1>7 DEF TakeUp, Waiting
  <2>2. ~Waiting(c, q)
    BY <1>7 DEF TakeUp, Waiting
  <2>3. CASE acquiring'[q] = acquiring[q]
    BY <1>0, <2>1, <2>3, QueueKept
  <2>4. CASE acquiring'[q] # acquiring[q]
    <3>1. limiterOf[PoolOf[c]] = q /\ acquiring'[q] = Append(acquiring[q], c) /\ status'[c] = "acquiring"
      BY <1>7, <2>4 DEF TakeUp, Alive
    <3>2. Waiting(c, q)'
      BY <1>7, <3>1 DEF TakeUp, Waiting
    <3> QED
      BY <1>0, <2>1, <2>2, <3>1, <3>2, QueueLonger
  <2> QED
    BY <2>3, <2>4
<1>8. ASSUME NEW c \in Calls, TryAgain(c) PROVE QueueOf(q)'
  BY <1>0, <1>8, QueueKept DEF TryAgain, Waiting
<1>9. ASSUME NEW c \in Calls, Finish(c) PROVE QueueOf(q)'
  BY <1>0, <1>9, QueueKept DEF Finish, Waiting
<1>10. ASSUME NEW c \in Calls, Release(c) PROVE QueueOf(q)'
  BY <1>0, <1>10, QueueKept DEF Release, Waiting
<1> QED
  BY <1>1, <1>2, <1>3, <1>4, <1>5, <1>6, <1>7, <1>8, <1>9, <1>10 DEF ToolNext

LEMMA StepConserved == ToolInv /\ ToolTypeOK' /\ ToolNext => TokensConserved'
<1> SUFFICES ASSUME ToolInv, ToolTypeOK', ToolNext, NEW q \in Pools PROVE Conserved(q)'
  BY DEF TokensConserved, Conserved
<1>0. /\ ToolTypeOK /\ Links /\ CallsSound /\ Queue /\ Conserved(q)
      /\ PoolOf \in [Calls -> Pools] /\ RateLimit \in [Pools -> Nat] /\ NoLimiter \notin Pools
  BY ToolAssumption DEF ToolInv, TokensConserved, Conserved, ToolAssumption
<1>a. /\ IsFiniteSet(Out(q)) /\ Cardinality(Out(q)) \in Nat /\ sem[q] \in Nat /\ RateLimit[q] \in Nat
      /\ Out(q) \subseteq Calls
  BY <1>0, OutFinite DEF ToolTypeOK
<1>1. ASSUME NEW p \in Pools, StartPool(p) PROVE Conserved(q)'
  <2>1. CASE p = q
    <3>c. pool[q] = "starting" /\ q # NoLimiter
      BY <1>0, <1>1, <2>1 DEF StartPool
    <3>d. limiterOf[q] = NoLimiter
      BY <1>0, <3>c DEF Links
    <3>0. limiterOf[q] = NoLimiter /\ pool[q] = "starting" /\ \A r \in Pools : limiterOf[r] # q
      BY <1>0, <3>c, <3>d DEF Links
    <3>a. /\ \A r \in Pools : r # q => limiterOf'[r] = limiterOf[r]
          /\ status' = status /\ releasing' = releasing
      BY <1>0, <1>1, <2>1 DEF StartPool, ToolTypeOK
    <3>b. \A c \in Calls : PoolOf[c] = q => status[c] # "running" /\ c \notin releasing
      BY <1>0, <3>0 DEF CallsSound
    <3>1. Out(q)' = {}
      BY <1>0, <3>0, <3>a, <3>b DEF Out, Running, ToolTypeOK
    <3>2. limiterOf'[q] = q => sem'[q] = RateLimit[q]
      BY <1>0, <1>1, <2>1 DEF StartPool, Limiter, Links, ToolTypeOK, Alive
    <3> QED
      BY <1>0, <1>a, <3>1, <3>2, FS_EmptySet DEF Conserved
  <2>2. CASE p # q
    <3>1. Out(q)' = Out(q)
      BY <1>0, <1>1, <2>2 DEF StartPool, Out, Running, CallsSound, Links, ToolTypeOK
    <3>2. /\ sem'[q] = sem[q] /\ limiterOf'[q] = limiterOf[q] /\ pool'[q] = pool[q]
          /\ limiterOf[p] = NoLimiter
      BY <1>0, <1>1, <2>2 DEF StartPool, Links, ToolTypeOK
    <3>a. \A r \in Pools : r # p => limiterOf'[r] = limiterOf[r] /\ pool'[r] = pool[r]
      BY <1>0, <1>1 DEF StartPool, ToolTypeOK
    <3>3. Intact(q)' => Intact(q)
      BY <1>0, <3>2, <3>a DEF Intact
    <3> QED
      BY <1>0, <3>1, <3>2, <3>3 DEF Conserved, Alive
  <2> QED
    BY <2>1, <2>2
<1>2. ASSUME NEW p \in Pools, Acquire(p) PROVE Conserved(q)'
  <2> DEFINE c == Head(acquiring[p])
  <2>1. c \in Calls /\ c = acquiring[p][1] /\ 1 \in 1 .. Len(acquiring[p])
    BY <1>0, <1>2 DEF Acquire, ToolTypeOK
  <2>2. Waiting(c, p)
    BY <1>0, <2>1 DEF Queue, QueueOf
  <2> HIDE DEF c
  <2>3. /\ pool' = pool /\ limiterOf' = limiterOf /\ releasing' = releasing
        /\ sem' = [sem EXCEPT ![p] = sem[p] - 1] /\ sem[p] > 0
        /\ status' = IF status[c] = "acquiring" THEN [status EXCEPT ![c] = "running"] ELSE status
    BY <1>2 DEF Acquire, c
  <2>4. Intact(q)' = Intact(q) /\ Alive(q)' = Alive(q)
    BY <2>3 DEF Intact, Alive
  <2>5. CASE p # q
    <3>1. Out(q)' = Out(q)
      BY <1>0, <2>1, <2>2, <2>3, <2>5 DEF Out, Running, Waiting, ToolTypeOK
    <3>2. sem'[q] = sem[q]
      BY <1>0, <2>3, <2>5 DEF ToolTypeOK
    <3> QED
      BY <1>0, <2>3, <2>4, <3>1, <3>2 DEF Conserved
  <2>6. CASE p = q /\ status[c] = "acquiring"
    <3>c. status' = [status EXCEPT ![c] = "running"] /\ limiterOf[PoolOf[c]] = q /\ status \in [Calls -> {"idle", "asked", "acquiring", "running"} \cup Ended]
      BY <1>0, <2>2, <2>3, <2>6 DEF Waiting, ToolTypeOK
    <3>a. Running(q)' = Running(q) \cup {c}
      BY <2>1, <2>3, <3>c DEF Running
    <3>b. c \notin releasing /\ c \notin Running(q)
      BY <1>0, <2>1, <2>6 DEF CallsSound, Ended, Running
    <3>1. Out(q)' = Out(q) \cup {c} /\ c \notin Out(q)
      BY <2>3, <3>a, <3>b DEF Out
    <3>2. Cardinality(Out(q)') = Cardinality(Out(q)) + 1
      BY <1>a, <3>1, FS_AddElement
    <3>3. sem'[q] = sem[q] - 1
      BY <1>0, <2>3, <2>6 DEF ToolTypeOK
    <3>4. sem'[q] + Cardinality(Out(q)') = sem[q] + Cardinality(Out(q))
      BY <1>a, <3>2, <3>3
    <3> QED
      BY <1>0, <2>3, <2>4, <3>4 DEF Conserved
  <2>7. CASE p = q /\ status[c] # "acquiring"
    <3>1. Out(q)' = Out(q) /\ ~Intact(q)
      BY <1>0, <2>1, <2>2, <2>3, <2>7 DEF Out, Running, Waiting, Intact
    <3>2. sem'[q] = sem[q] - 1
      BY <1>0, <2>3, <2>7 DEF ToolTypeOK
    <3> QED
      BY <1>0, <1>a, <2>3, <2>4, <3>1, <3>2 DEF Conserved
  <2> QED
    BY <2>5, <2>6, <2>7
<1>3. ASSUME NEW p \in Pools, DropStale(p) PROVE Conserved(q)'
  BY <1>0, <1>3 DEF DropStale, Conserved, Alive, Out, Running, Intact
<1>4. ASSUME NEW p \in Pools, PoolDies(p) PROVE Conserved(q)'
  <2>1. /\ Out(q)' \subseteq Out(q) /\ sem' = sem /\ limiterOf' = limiterOf
        /\ pool' = [pool EXCEPT ![p] = "dead"]
    BY <1>0, <1>4 DEF PoolDies, Out, Running, Failed, ToolTypeOK
  <2>2. Cardinality(Out(q)') <= Cardinality(Out(q)) /\ Cardinality(Out(q)') \in Nat
    BY <1>a, <2>1, FS_Subset, FS_CardinalityType
  <2>3. Alive(q)' => Alive(q)
    BY <1>0, <2>1 DEF Alive, ToolTypeOK
  <2>4. ASSUME Intact(q)' PROVE Intact(q) /\ Out(q)' = Out(q)
    <3>1. limiterOf[p] # q
      BY <1>0, <2>1, <2>4 DEF Intact, ToolTypeOK
    <3>2. Intact(q)
      BY <1>0, <2>1, <2>4, <3>1 DEF Intact, ToolTypeOK
    <3>3. \A c \in Calls : limiterOf[PoolOf[c]] = q /\ status[c] = "running" => c \notin Hit(p)
      BY <1>0, <3>1 DEF Hit
    <3>4. Out(q)' = Out(q)
      BY <1>0, <1>4, <3>1, <3>3 DEF PoolDies, Out, Running, Failed, ToolTypeOK
    <3> QED
      BY <3>2, <3>4
  <2>5. sem[q] + Cardinality(Out(q)') <= sem[q] + Cardinality(Out(q))
    BY <1>a, <2>2
  <2> QED
    BY <1>0, <1>a, <2>1, <2>2, <2>3, <2>4, <2>5 DEF Conserved
<1>5. ASSUME NEW c \in Calls, Ask(c) PROVE Conserved(q)'
  <2>1. Out(q)' = Out(q)
    BY <1>0, <1>5 DEF Ask, Out, Running, Failed, ToolTypeOK
  <2> QED
    BY <1>0, <1>5, <2>1 DEF Ask, Conserved, Alive, Intact
<1>6. ASSUME NEW c \in Calls, RejectQuery(c) PROVE Conserved(q)'
  <2>1. Out(q)' = Out(q)
    BY <1>0, <1>6 DEF RejectQuery, Out, Running, ToolTypeOK
  <2> QED
    BY <1>0, <1>6, <2>1 DEF RejectQuery, Conserved, Alive, Intact
<1>7. ASSUME NEW c \in Calls, TakeUp(c) PROVE Conserved(q)'
  <2>1. Out(q)' = Out(q)
    BY <1>0, <1>7 DEF TakeUp, Out, Running, Failed, ToolTypeOK
  <2> QED
    BY <1>0, <1>7, <2>1 DEF TakeUp, Conserved, Alive, Intact
<1>8. ASSUME NEW c \in Calls, TryAgain(c) PROVE Conserved(q)'
  BY <1>0, <1>8 DEF TryAgain, Conserved, Alive, Out, Running, Intact
<1>9. ASSUME NEW c \in Calls, Finish(c) PROVE Conserved(q)'
  <2>1. Alive(q) => Out(q)' = Out(q)
    BY <1>0, <1>9 DEF Finish, Out, Running, Failed, ToolTypeOK
  <2> QED
    BY <1>0, <1>9, <2>1 DEF Finish, Conserved, Alive, Intact
<1>10. ASSUME NEW c \in Calls, Release(c) PROVE Conserved(q)'
  <2>1. /\ pool' = pool /\ limiterOf' = limiterOf /\ status' = status
        /\ sem' = [sem EXCEPT ![limiterOf[PoolOf[c]]] = @ + 1] /\ limiterOf[PoolOf[c]] \in Pools
    BY <1>10 DEF Release, Alive
  <2>2. CASE limiterOf[PoolOf[c]] # q
    <3>1. Out(q)' = Out(q) /\ sem'[q] = sem[q]
      BY <1>0, <1>10, <2>1, <2>2 DEF Release, Out, Running, ToolTypeOK
    <3> QED
      BY <1>0, <2>1, <3>1 DEF Conserved, Alive, Intact
  <2>3. CASE limiterOf[PoolOf[c]] = q
    <3>a. c \in releasing /\ releasing' = releasing \ {c}
      BY <1>10 DEF Release
    <3>b. c \notin Running(q) /\ Running(q)' = Running(q)
      BY <1>0, <2>1, <3>a DEF Running, CallsSound, Ended
    <3>1. Out(q)' = Out(q) \ {c} /\ c \in Out(q)
      BY <2>1, <2>3, <3>a, <3>b DEF Out
    <3>2. Cardinality(Out(q)') = Cardinality(Out(q)) - 1
      BY <1>a, <3>1, FS_RemoveElement
    <3>3. sem'[q] = sem[q] + 1
      BY <1>0, <2>1, <2>3 DEF ToolTypeOK
    <3>4. sem'[q] + Cardinality(Out(q)') = sem[q] + Cardinality(Out(q))
      BY <1>a, <3>2, <3>3
    <3> QED
      BY <1>0, <2>1, <3>4 DEF Conserved, Alive, Intact
  <2> QED
    BY <2>2, <2>3
<1> QED
  BY <1>1, <1>2, <1>3, <1>4, <1>5, <1>6, <1>7, <1>8, <1>9, <1>10 DEF ToolNext
-------------------------------------------------------------------------------
(* The invariant *)

LEMMA Stuttering == ToolInv /\ UNCHANGED toolVars => ToolInv'
<1> SUFFICES ASSUME ToolInv, UNCHANGED toolVars PROVE ToolInv'
  OBVIOUS
<1> USE DEF ToolInv, toolVars
<1>1. ToolTypeOK'
  BY DEF ToolTypeOK
<1>2. Links'
  BY DEF Links, Alive
<1>3. CallsSound'
  BY DEF CallsSound, Alive
<1>4. Queue'
  BY DEF Queue, QueueOf, Waiting
<1>5. \A q : Out(q)' = Out(q) /\ Alive(q)' = Alive(q) /\ Intact(q)' = Intact(q)
  BY DEF Out, Running, Alive, Intact
<1>6. TokensConserved'
  BY <1>5 DEF TokensConserved
<1> QED
  BY <1>1, <1>2, <1>3, <1>4, <1>6

LEMMA Inductive == ToolSpec => []ToolInv
<1>1. ToolInit => ToolInv
  <2> SUFFICES ASSUME ToolInit PROVE ToolInv
    OBVIOUS
  <2>1. ToolTypeOK
    BY ToolAssumption DEF ToolInit, ToolTypeOK, ToolAssumption
  <2>2. Links /\ TokensConserved
    BY ToolAssumption DEF ToolInit, Links, TokensConserved, Alive, ToolAssumption
  <2>3. CallsSound
    BY DEF ToolInit, CallsSound
  <2>4. Queue
    BY DEF ToolInit, Queue, QueueOf
  <2> QED
    BY <2>1, <2>2, <2>3, <2>4 DEF ToolInv
<1>2. ToolInv /\ [ToolNext]_toolVars => ToolInv'
  BY StepTypeOK, StepLinks, StepCalling, StepQueue, StepConserved, Stuttering DEF ToolInv
<1> QED
  BY <1>1, <1>2, PTL DEF ToolSpec

\* The state of the pools, the limiters and the calls has the types it
\* should have, whatever dies.
THEOREM ToolTypeCorrect == ToolSpec => []ToolTypeOK
BY Inductive, PTL DEF ToolInv

\* For any number of pools, calls and any limits: no token of a living
\* limiter is made up, and none is lost while the pools that use it live.
THEOREM Conservation == ToolSpec => []TokensConserved
BY Inductive, PTL DEF ToolInv

\* The limit of the pool that came first is the limit of all calls of all
\* tools that are limited.
THEOREM FirstLimit == ToolSpec => []FirstLimitRules
<1>1. ToolInv => FirstLimitRules
  <2> SUFFICES ASSUME ToolInv, NEW q \in Pools, Alive(q), limiterOf[q] = q
               PROVE  /\ \A p \in Limited : Alive(p) => limiterOf[p] = q \/ ~Alive(limiterOf[p])
                      /\ Cardinality({c \in Calls : Alive(limiterOf[PoolOf[c]]) /\ status[c] = "running"}) <= RateLimit[q]
    BY DEF FirstLimitRules
  <2> DEFINE S == {c \in Calls : Alive(limiterOf[PoolOf[c]]) /\ status[c] = "running"}
  <2>1. \A p \in Pools : Alive(limiterOf[p]) => limiterOf[p] = q
    BY DEF ToolInv, Links
  <2>2. S \subseteq Out(q)
    BY <2>1, ToolAssumption DEF Out, Running, ToolAssumption
  <2>3. IsFiniteSet(Out(q)) /\ Cardinality(Out(q)) \in Nat
    BY OutFinite DEF ToolInv
  <2>4. Cardinality(S) <= Cardinality(Out(q)) /\ Cardinality(S) \in Nat
    BY <2>2, <2>3, FS_Subset, FS_CardinalityType
  <2>5. sem[q] + Cardinality(Out(q)) <= RateLimit[q] /\ sem[q] \in Nat /\ RateLimit[q] \in Nat
    BY ToolAssumption DEF ToolInv, TokensConserved, ToolTypeOK, ToolAssumption
  <2>6. Cardinality(S) <= RateLimit[q]
    BY <2>3, <2>4, <2>5
  <2> QED
    BY <2>1, <2>6, ToolAssumption DEF ToolAssumption
<1> QED
  BY <1>1, Inductive, PTL

================================================================================
