-------------------------- MODULE ChatScheduler_proofs --------------------------
(***************************************************************************)
(* What holds of ChatScheduler for every number of conversations, batches, *)
(* servers, tool calls and cache entries, and its proof.                   *)
(*                                                                         *)
(* LifeInv ties a conversation's task to its depth, event and batch; the   *)
(* refinement needs nothing else.  The cache adds EntriesTrue (an entry    *)
(* names the server of its conversation), and OldFirst and CurrentKept:    *)
(* entries of this batch are behind all older ones, so that the one to be  *)
(* evicted from a full cache is an older one as long as a batch fits into  *)
(* it.  The heap adds RoundRobin.  Which conversation awaits a running     *)
(* tool is inductive given LifeInv.                                        *)
(***************************************************************************)
EXTENDS ChatScheduler, SequenceTheorems, FiniteSetTheorems, TLAPS

USE ConvAssumption, CountAssumption

--------------------------------------------------------------------------------
(* The cache's operators *)

\* How many entries an insertion evicts.
Dropped(seq) == IF Len(seq) >= MaxCache THEN 1 ELSE 0

LEMMA EntryFacts ==
    \A c \in Convs, s \in Servers :
        [conv |-> c, server |-> s] \in Entries
BY DEF Entries

\* Insert appends the new entry and keeps all others but the evicted one, in order.
LEMMA InsertFacts ==
    ASSUME NEW seq \in Seq(Entries), Len(seq) <= MaxCache, NEW c \in Convs, NEW s \in Servers
    PROVE  /\ Insert(seq, c, s) \in Seq(Entries)
           /\ Len(Insert(seq, c, s)) = Len(seq) - Dropped(seq) + 1
           /\ Len(Insert(seq, c, s)) <= MaxCache
           /\ Dropped(seq) \in {0, 1}
           /\ Dropped(seq) = 1 => Len(seq) = MaxCache
           /\ \A j \in 1 .. Len(seq) - Dropped(seq) : Insert(seq, c, s)[j] = seq[j + Dropped(seq)]
           /\ Insert(seq, c, s)[Len(seq) - Dropped(seq) + 1] = [conv |-> c, server |-> s]
<1> DEFINE e == [conv |-> c, server |-> s]
<1>e. e \in Entries
  BY EntryFacts
<1>l. Len(seq) \in Nat
  BY LenProperties
<1> HIDE DEF e
<1>1. CASE Len(seq) >= MaxCache
  <2>1. seq # <<>>
    BY <1>1, EmptySeq
  <2> DEFINE t == Tail(seq)
  <2>2. t \in Seq(Entries) /\ Len(t) = Len(seq) - 1 /\ \A i \in 1 .. Len(t) : t[i] = seq[i + 1]
    BY <2>1, HeadTailProperties
  <2> HIDE DEF t
  <2>3. /\ Append(t, e) \in Seq(Entries)
        /\ Len(Append(t, e)) = Len(t) + 1
        /\ \A i \in 1 .. Len(t) : Append(t, e)[i] = t[i]
        /\ Append(t, e)[Len(t) + 1] = e
    BY <2>2, <1>e, AppendProperties
  <2>4. Insert(seq, c, s) = Append(t, e)
    BY <1>1 DEF Insert, e, t
  <2> QED
    BY <1>1, <1>l, <2>2, <2>3, <2>4 DEF Dropped, e
<1>2. CASE Len(seq) < MaxCache
  <2>3. /\ Append(seq, e) \in Seq(Entries)
        /\ Len(Append(seq, e)) = Len(seq) + 1
        /\ \A i \in 1 .. Len(seq) : Append(seq, e)[i] = seq[i]
        /\ Append(seq, e)[Len(seq) + 1] = e
    BY <1>e, AppendProperties
  <2>4. Insert(seq, c, s) = Append(seq, e)
    BY <1>2, <1>l DEF Insert, e
  <2> QED
    BY <1>2, <1>l, <2>3, <2>4 DEF Dropped, e
<1> QED
  BY <1>1, <1>2, <1>l

\* Pop removes one entry and keeps all others, in order.
LEMMA PopFacts ==
    ASSUME NEW seq \in Seq(Entries), NEW i \in 1 .. Len(seq)
    PROVE  /\ Pop(seq, i) \in Seq(Entries)
           /\ Len(Pop(seq, i)) = Len(seq) - 1
           /\ \A j \in 1 .. Len(seq) - 1 :
                Pop(seq, i)[j] = IF j < i THEN seq[j] ELSE seq[j + 1]
<1>1. Len(seq) \in Nat /\ \A j \in 1 .. Len(seq) : seq[j] \in Entries
  BY LenProperties, ElementOfSeq
<1>2. Len(seq) - 1 \in Nat
  BY <1>1
<1>3. \A j \in 1 .. Len(seq) - 1 : (IF j < i THEN seq[j] ELSE seq[j + 1]) \in Entries
  BY <1>1
<1> QED
  BY <1>1, <1>2, <1>3 DEF Pop

--------------------------------------------------------------------------------
(* Conversations, one by one *)

\* A conversation nobody has submitted yet.
Fresh(c) ==
    /\ task[c] = "none"
    /\ depth[c] = 0
    /\ done[c] = FALSE
    /\ at[c] = NoServer
    /\ messages[c] = Prompt
    /\ calls[c] = <<>>

\* Tasks run for the current batch only, and none outlives its event; the depth
\* counts the one request there is.
Life(c) ==
    /\ batch < BatchOf[c] => Fresh(c)
    /\ task[c] # "none" => phase = "rolling" /\ Current(c) /\ done[c] = FALSE
    /\ task[c] \in {"created", "posted"} => depth[c] = 1
    /\ task[c] = "gathering" => depth[c] = 0 /\ Len(calls[c]) > 0
    /\ messages[c] = Prompt \/ Len(messages[c]) > 1
    /\ task[c] = "created" => (at[c] = NoServer <=> messages[c] = Prompt)
    /\ task[c] \in {"posted", "gathering"} => at[c] # NoServer
    /\ task[c] = "gathering" => messages[c] # Prompt

LifeInv == TypeOK /\ \A c \in Convs : Life(c)

LEMMA PromptFacts ==
    /\ Prompt \in Seq(RoleNames)
    /\ Len(Prompt) = 1
    /\ "assistant" \in RoleNames
BY DEF Prompt, RoleNames

\* Messages are appended only: one answer ...
LEMMA AnswerFacts ==
    ASSUME NEW m \in Seq(RoleNames), m = Prompt \/ Len(m) > 1
    PROVE  /\ Append(m, "assistant") \in Seq(RoleNames)
           /\ Len(Append(m, "assistant")) = Len(m) + 1
           /\ Len(Append(m, "assistant")) > 1
           /\ Len(m) \in Nat
           /\ Append(m, "assistant") # Prompt
<1>1. /\ Append(m, "assistant") \in Seq(RoleNames)
      /\ Len(Append(m, "assistant")) = Len(m) + 1
      /\ Len(m) \in Nat
  BY PromptFacts, AppendProperties, LenProperties
<1> QED
  BY <1>1, PromptFacts

Responses(n) == [i \in 1 .. n |-> "tool"]

\* ... or the responses of n tools.
LEMMA ResponseFacts ==
    ASSUME NEW m \in Seq(RoleNames), m = Prompt \/ Len(m) > 1, NEW n \in Nat, n > 0
    PROVE  /\ m \o Responses(n) \in Seq(RoleNames)
           /\ Len(m \o Responses(n)) = Len(m) + n
           /\ Len(m \o Responses(n)) > 1
           /\ Len(m) \in Nat
           /\ m \o Responses(n) # Prompt
<1>1. Responses(n) \in Seq(RoleNames) /\ Len(Responses(n)) = n
  BY DEF Responses, RoleNames
<1>2. /\ m \o Responses(n) \in Seq(RoleNames)
      /\ Len(m \o Responses(n)) = Len(m) + n
      /\ Len(m) \in Nat
  BY <1>1, ConcatProperties, LenProperties
<1>3. Len(m) >= 1
  <2>1. CASE m = Prompt
    BY <2>1, PromptFacts
  <2>2. CASE Len(m) > 1
    BY <2>2, <1>2
  <2> QED
    BY <2>1, <2>2
<1>4. Len(m \o Responses(n)) > 1
  BY <1>2, <1>3
<1>5. m \o Responses(n) # Prompt
  BY <1>4, PromptFacts
<1> QED
  BY <1>2, <1>4, <1>5

LEMMA LifeInit == Init => LifeInv
<1> SUFFICES ASSUME Init PROVE LifeInv
  OBVIOUS
<1>1. TypeOK
  BY PromptFacts, EmptySeq DEF Init, TypeOK, Servers, NoServer, TaskStates
<1>2. \A c \in Convs : Life(c)
  BY PromptFacts DEF Init, Life, Fresh
<1> QED
  BY <1>1, <1>2 DEF LifeInv

LEMMA LifeStep == LifeInv /\ [Next]_vars => LifeInv'
<1> SUFFICES ASSUME LifeInv, [Next]_vars PROVE LifeInv'
  OBVIOUS
<1> USE DEF LifeInv
<1>t. TypeOK
  OBVIOUS
<1>l. \A c \in Convs : Life(c)
  OBVIOUS
<1>1. CASE StartBatch
  <2>1. TypeOK'
    BY <1>1, <1>t DEF StartBatch, TypeOK, TaskStates
  <2>2. \A c \in Convs : Life(c)'
    BY <1>1, <1>t, <1>l DEF StartBatch, TypeOK, Life, Fresh, Current, NoServer
  <2> QED
    BY <2>1, <2>2
<1>2. CASE ReturnBatch
  <2>1. TypeOK'
    BY <1>2, <1>t DEF ReturnBatch, TypeOK, conv
  <2>2. \A c \in Convs : Life(c)'
    BY <1>2, <1>t, <1>l DEF ReturnBatch, TypeOK, Life, Fresh, Current, conv
  <2> QED
    BY <2>1, <2>2
<1>3. ASSUME NEW c \in Convs, FirstSubmit(c) PROVE LifeInv'
  <2> PICK s \in Servers :
        /\ load' = [load EXCEPT ![s] = @ + 1]
        /\ cache' = Insert(cache, c, s)
        /\ Posts(c, s)
    BY <1>3 DEF FirstSubmit
  <2>0. cache' \in Seq(Entries) /\ Len(cache') <= MaxCache
    BY <1>t, InsertFacts DEF TypeOK
  <2>1. TypeOK'
    BY <1>3, <1>t, <2>0 DEF FirstSubmit, TypeOK, Posts, TaskStates
  <2>2. \A d \in Convs : Life(d)'
    BY <1>3, <1>t, <1>l DEF FirstSubmit, TypeOK, Life, Fresh, Current, Posts, Servers, NoServer
  <2> QED
    BY <2>1, <2>2
<1>4. ASSUME NEW c \in Convs, Resubmit(c) PROVE LifeInv'
  <2> PICK i \in 1 .. Len(cache) :
        /\ cache[i].conv = c
        /\ cache' = Insert(Pop(cache, i), c, cache[i].server)
        /\ Posts(c, cache[i].server)
    BY <1>4 DEF Resubmit
  <2>c. cache \in Seq(Entries) /\ Len(cache) \in Nat /\ Len(cache) <= MaxCache
    BY <1>t, LenProperties DEF TypeOK
  <2>e. cache[i].server \in Servers
    <3>1. cache[i] \in Entries
      BY <2>c, ElementOfSeq
    <3> QED
      BY <3>1 DEF Entries
  <2>n. cache[i].server # NoServer
    BY <2>e DEF Servers, NoServer
  <2>p. Pop(cache, i) \in Seq(Entries) /\ Len(Pop(cache, i)) <= MaxCache
    BY <2>c, PopFacts
  <2>0. cache' \in Seq(Entries) /\ Len(cache') <= MaxCache
    BY <2>e, <2>p, InsertFacts
  <2>1. TypeOK'
    BY <1>4, <1>t, <2>0, <2>e DEF Resubmit, TypeOK, Posts, TaskStates
  <2>2. \A d \in Convs : Life(d)'
    BY <1>4, <1>t, <1>l, <2>n DEF Resubmit, TypeOK, Life, Fresh, Current, Posts, HasResponse
  <2> QED
    BY <2>1, <2>2
<1>5. ASSUME NEW c \in Convs, TaskDies(c) PROVE LifeInv'
  <2>1. TypeOK'
    BY <1>5, <1>t DEF TaskDies, TypeOK, TaskStates
  <2>2. \A d \in Convs : Life(d)'
    BY <1>5, <1>t, <1>l DEF TaskDies, TypeOK, Life, Fresh, Current
  <2> QED
    BY <2>1, <2>2
<1>6. ASSUME NEW c \in Convs, CompletionFails(c) PROVE LifeInv'
  <2>1. TypeOK'
    BY <1>6, <1>t, <1>l DEF CompletionFails, SetsDone, TypeOK, TaskStates, Life
  <2>2. \A d \in Convs : Life(d)'
    BY <1>6, <1>t, <1>l DEF CompletionFails, SetsDone, TypeOK, Life, Fresh, Current
  <2> QED
    BY <2>1, <2>2
<1>7. ASSUME NEW c \in Convs, CompletionEnds(c) PROVE LifeInv'
  <2>0. messages[c] \in Seq(RoleNames) /\ (messages[c] = Prompt \/ Len(messages[c]) > 1)
    BY <1>t, <1>l DEF TypeOK, Life
  <2>a. /\ messages'[c] \in Seq(RoleNames)
        /\ Len(messages'[c]) > 1
        /\ messages'[c] # Prompt
    BY <1>7, <1>t, <2>0, AnswerFacts DEF CompletionEnds, Answered, TypeOK
  <2>1. TypeOK'
    BY <1>7, <1>t, <1>l, <2>a DEF CompletionEnds, Answered, SetsDone, TypeOK, TaskStates, Life
  <2>2. \A d \in Convs : Life(d)'
    BY <1>7, <1>t, <1>l, <2>a DEF CompletionEnds, Answered, SetsDone, TypeOK, Life, Fresh, Current
  <2> QED
    BY <2>1, <2>2
<1>8. ASSUME NEW c \in Convs, CompletionCallsTools(c) PROVE LifeInv'
  <2>0. messages[c] \in Seq(RoleNames) /\ (messages[c] = Prompt \/ Len(messages[c]) > 1)
    BY <1>t, <1>l DEF TypeOK, Life
  <2>a. /\ messages'[c] \in Seq(RoleNames)
        /\ Len(messages'[c]) > 1
        /\ messages'[c] # Prompt
    BY <1>8, <1>t, <2>0, AnswerFacts DEF CompletionCallsTools, Answered, TypeOK
  <2> PICK n \in 1 .. MaxCalls : calls' = [calls EXCEPT ![c] = [i \in 1 .. n |-> "running"]]
    BY <1>8 DEF CompletionCallsTools
  <2>b. [i \in 1 .. n |-> "running"] \in Seq(CallStates) /\ Len([i \in 1 .. n |-> "running"]) = n
    BY DEF CallStates
  <2>1. TypeOK'
    BY <1>8, <1>t, <1>l, <2>a, <2>b DEF CompletionCallsTools, Answered, TypeOK, TaskStates, Life
  <2>2. \A d \in Convs : Life(d)'
    BY <1>8, <1>t, <1>l, <2>a, <2>b DEF CompletionCallsTools, Answered, TypeOK, Life, Fresh, Current
  <2> QED
    BY <2>1, <2>2
<1>9. ASSUME NEW c \in Convs, NEW i \in 1 .. MaxCalls, ToolReturns(c, i) PROVE LifeInv'
  <2> PICK r \in CallStates :
        calls' = [calls EXCEPT ![c] = [j \in 1 .. Len(@) |-> IF j = i THEN r ELSE @[j]]]
    BY <1>9 DEF ToolReturns
  <2> DEFINE new == [j \in 1 .. Len(calls[c]) |-> IF j = i THEN r ELSE calls[c][j]]
  <2>a. /\ calls[c] \in Seq(CallStates)
        /\ Len(calls[c]) \in Nat
        /\ \A j \in 1 .. Len(calls[c]) : calls[c][j] \in CallStates
    BY <1>t, LenProperties, ElementOfSeq DEF TypeOK
  <2>b. new \in Seq(CallStates) /\ Len(new) = Len(calls[c])
    BY <2>a
  <2>c. calls' = [calls EXCEPT ![c] = new]
    OBVIOUS
  <2>d. i \in 1 .. Len(calls[c])
    BY <1>9 DEF ToolReturns
  <2> HIDE DEF new
  <2>1. TypeOK'
    BY <1>9, <1>t, <2>b, <2>c DEF ToolReturns, TypeOK
  <2>2. \A d \in Convs : Life(d)'
    <3>1. batch < BatchOf[c] => calls[c] = <<>>
      BY <1>l DEF Life, Fresh
    <3>2. ~(batch < BatchOf[c])
      BY <3>1, <2>d, EmptySeq
    <3> QED
      BY <1>9, <1>t, <1>l, <2>b, <2>c, <3>2 DEF ToolReturns, TypeOK, Life, Fresh, Current
  <2> QED
    BY <2>1, <2>2
<1>10. ASSUME NEW c \in Convs, ToolsFailed(c) PROVE LifeInv'
  <2>1. TypeOK'
    BY <1>10, <1>t, EmptySeq DEF ToolsFailed, SetsDone, TypeOK, TaskStates
  <2>2. \A d \in Convs : Life(d)'
    BY <1>10, <1>t, <1>l DEF ToolsFailed, SetsDone, TypeOK, Life, Fresh, Current
  <2> QED
    BY <2>1, <2>2
<1>11. ASSUME NEW c \in Convs, ToolsAnswered(c) PROVE LifeInv'
  <2>0. /\ messages[c] \in Seq(RoleNames)
        /\ messages[c] = Prompt \/ Len(messages[c]) > 1
        /\ Len(calls[c]) \in Nat
        /\ Len(calls[c]) > 0
    BY <1>11, <1>t, <1>l, LenProperties DEF TypeOK, Life, ToolsAnswered
  <2>a. /\ messages'[c] \in Seq(RoleNames)
        /\ Len(messages'[c]) > 1
        /\ messages'[c] # Prompt
    BY <1>11, <1>t, <2>0, ResponseFacts DEF ToolsAnswered, TypeOK, Responses
  <2>1. TypeOK'
    BY <1>11, <1>t, <2>a, EmptySeq DEF ToolsAnswered, SetsDone, TypeOK, TaskStates
  <2>2. \A d \in Convs : Life(d)'
    BY <1>11, <1>t, <1>l, <2>a DEF ToolsAnswered, SetsDone, TypeOK, Life, Fresh, Current
  <2> QED
    BY <2>1, <2>2
<1>12. ASSUME NEW c \in Convs, ToolRaised(c) PROVE LifeInv'
  <2>1. TypeOK'
    BY <1>12, <1>t DEF ToolRaised, SetsDone, TypeOK, TaskStates
  <2>2. \A d \in Convs : Life(d)'
    BY <1>12, <1>t, <1>l DEF ToolRaised, SetsDone, TypeOK, Life, Fresh, Current
  <2> QED
    BY <2>1, <2>2
<1>13. CASE UNCHANGED vars
  <2>1. TypeOK'
    BY <1>13, <1>t DEF TypeOK, vars, conv
  <2>2. \A c \in Convs : Life(c)'
    BY <1>13, <1>l DEF Life, Fresh, Current, vars, conv
  <2> QED
    BY <2>1, <2>2
<1> QED
  BY <1>1, <1>2, <1>3, <1>4, <1>5, <1>6, <1>7, <1>8, <1>9, <1>10, <1>11, <1>12, <1>13
     DEF Next, ConvStep

LEMMA LifeCorrect == Spec => []LifeInv
BY LifeInit, LifeStep, PTL DEF Spec

\* The types of TypeOK hold in every reachable state: the depth of a conversation
\* never goes below zero and the cache never outgrows its limit.
THEOREM TypeCorrect == Spec => []TypeOK
<1>1. LifeInv => TypeOK
  BY DEF LifeInv
<1> QED
  BY <1>1, LifeCorrect, PTL

--------------------------------------------------------------------------------
(* The abstract specification *)

LEMMA RefInit == Init => Rollout!Init
BY DEF Init, Rollout!Init

\* A longer message list continues the shorter one.
LEMMA AppendContinues ==
    ASSUME NEW m \in Seq(RoleNames), NEW k \in Seq(RoleNames)
    PROVE  /\ Rollout!Continues(m, m)
           /\ Rollout!Continues(m, Append(m, "assistant"))
           /\ Rollout!Continues(m, m \o k)
<1>1. Len(m) \in Nat /\ Len(k) \in Nat
  BY LenProperties
<1>2. SubSeq(m, 1, Len(m)) = m
  BY SubSeqFull
<1>3. SubSeq(m \o k, 1, Len(m)) = m /\ Len(m \o k) = Len(m) + Len(k)
  <2>1. /\ m \o k \in Seq(RoleNames)
        /\ Len(m \o k) = Len(m) + Len(k)
        /\ \A i \in 1 .. Len(m) : (m \o k)[i] = m[i]
    BY <1>1, ConcatProperties
  <2> DEFINE w == m \o k
  <2>w. /\ w \in Seq(RoleNames)
        /\ Len(w) = Len(m) + Len(k)
        /\ \A i \in 1 .. Len(m) : w[i] = m[i]
    BY <2>1
  <2> HIDE DEF w
  <2>2. \A i \in 1 .. Len(m) : w[i] \in RoleNames
    BY <2>w, ElementOfSeq
  <2>3. /\ SubSeq(w, 1, Len(m)) \in Seq(RoleNames)
        /\ Len(SubSeq(w, 1, Len(m))) = Len(m)
        /\ \A i \in 1 .. Len(m) : SubSeq(w, 1, Len(m))[i] = w[i]
    BY <1>1, <2>2, SubSeqProperties
  <2>4. SubSeq(w, 1, Len(m)) = m
    BY <2>w, <2>3, SeqEqual
  <2> QED
    BY <2>1, <2>4 DEF w
<1>4. SubSeq(Append(m, "assistant"), 1, Len(m)) = m /\ Len(Append(m, "assistant")) = Len(m) + 1
  <2> DEFINE w == Append(m, "assistant")
  <2>w. /\ w \in Seq(RoleNames)
        /\ Len(w) = Len(m) + 1
        /\ \A i \in 1 .. Len(m) : w[i] = m[i]
    BY PromptFacts, AppendProperties
  <2> HIDE DEF w
  <2>2. \A i \in 1 .. Len(m) : w[i] \in RoleNames
    BY <1>1, <2>w, ElementOfSeq
  <2>3. /\ SubSeq(w, 1, Len(m)) \in Seq(RoleNames)
        /\ Len(SubSeq(w, 1, Len(m))) = Len(m)
        /\ \A i \in 1 .. Len(m) : SubSeq(w, 1, Len(m))[i] = w[i]
    BY <1>1, <2>2, SubSeqProperties
  <2>4. SubSeq(w, 1, Len(m)) = m
    BY <2>w, <2>3, SeqEqual
  <2> QED
    BY <2>w, <2>4 DEF w
<1> QED
  BY <1>1, <1>2, <1>3, <1>4 DEF Rollout!Continues

\* A step that lets one running conversation grow or end is one of BatchRollout.
LEMMA RefProceed ==
    ASSUME NEW c \in Convs, LifeInv, task[c] # "none",
           Rollout!Continues(messages[c], messages'[c]),
           messages' = [messages EXCEPT ![c] = messages'[c]],
           NEW e \in BOOLEAN, done' = [done EXCEPT ![c] = e],
           phase' = phase, batch' = batch
    PROVE  Rollout!Proceed(c)
BY DEF LifeInv, Life, Current, Rollout!Proceed

LEMMA RefStep == LifeInv /\ [Next]_vars => [Rollout!Next]_(Rollout!vars)
<1> SUFFICES ASSUME LifeInv, [Next]_vars PROVE [Rollout!Next]_(Rollout!vars)
  OBVIOUS
<1>t. TypeOK /\ \A c \in Convs : Life(c)
  BY DEF LifeInv
<1>m. \A c \in Convs : messages[c] \in Seq(RoleNames)
  BY <1>t DEF TypeOK
<1>s. ASSUME NEW c \in Convs, SetsDone(c), task[c] # "none", messages' = messages,
             phase' = phase, batch' = batch
      PROVE  Rollout!Next
  <2>1. Rollout!Continues(messages[c], messages'[c])
    BY <1>s, <1>m, AppendContinues
  <2>2. messages' = [messages EXCEPT ![c] = messages'[c]]
    BY <1>s, <1>t DEF TypeOK
  <2>3. (done[c] \/ depth'[c] = 0) \in BOOLEAN
    BY <1>t DEF TypeOK
  <2>4. Rollout!Proceed(c)
    BY <1>s, <2>1, <2>2, <2>3, RefProceed DEF SetsDone
  <2> QED
    BY <2>4 DEF Rollout!Next
<1>1. CASE StartBatch
  <2>1. Rollout!Call
    BY <1>1 DEF StartBatch, Rollout!Call
  <2> QED
    BY <2>1 DEF Rollout!Next
<1>2. CASE ReturnBatch
  <2>1. Rollout!Return
    BY <1>2 DEF ReturnBatch, Rollout!Return, Current, conv
  <2> QED
    BY <2>1 DEF Rollout!Next
<1>3. ASSUME NEW c \in Convs, FirstSubmit(c) PROVE UNCHANGED Rollout!vars
  BY <1>3 DEF FirstSubmit, Rollout!vars
<1>4. ASSUME NEW c \in Convs, Resubmit(c) PROVE UNCHANGED Rollout!vars
  BY <1>4 DEF Resubmit, Rollout!vars
<1>5. ASSUME NEW c \in Convs, TaskDies(c) PROVE UNCHANGED Rollout!vars
  BY <1>5 DEF TaskDies, Rollout!vars
<1>6. ASSUME NEW c \in Convs, CompletionFails(c) PROVE Rollout!Next
  BY <1>6, <1>s DEF CompletionFails
<1>7. ASSUME NEW c \in Convs, CompletionEnds(c) PROVE Rollout!Next
  <2>1. messages' = [messages EXCEPT ![c] = Append(messages[c], "assistant")]
    BY <1>7 DEF CompletionEnds, Answered
  <2>2. messages'[c] = Append(messages[c], "assistant")
    BY <2>1, <1>t DEF TypeOK
  <2>3. Rollout!Continues(messages[c], messages'[c])
    BY <2>2, <1>m, AppendContinues
  <2>4. messages' = [messages EXCEPT ![c] = messages'[c]]
    BY <2>1, <2>2
  <2>5. (done[c] \/ depth'[c] = 0) \in BOOLEAN
    BY <1>t DEF TypeOK
  <2>6. Rollout!Proceed(c)
    BY <1>7, <2>3, <2>4, <2>5, RefProceed DEF CompletionEnds, Answered, SetsDone
  <2> QED
    BY <2>6 DEF Rollout!Next
<1>8. ASSUME NEW c \in Convs, CompletionCallsTools(c) PROVE Rollout!Next
  <2>1. messages' = [messages EXCEPT ![c] = Append(messages[c], "assistant")]
    BY <1>8 DEF CompletionCallsTools, Answered
  <2>2. messages'[c] = Append(messages[c], "assistant")
    BY <2>1, <1>t DEF TypeOK
  <2>3. Rollout!Continues(messages[c], messages'[c])
    BY <2>2, <1>m, AppendContinues
  <2>4. messages' = [messages EXCEPT ![c] = messages'[c]]
    BY <2>1, <2>2
  <2>5. done[c] \in BOOLEAN /\ done' = [done EXCEPT ![c] = done[c]]
    BY <1>8, <1>t DEF TypeOK, CompletionCallsTools
  <2>6. Rollout!Proceed(c)
    BY <1>8, <2>3, <2>4, <2>5, RefProceed DEF CompletionCallsTools, Answered
  <2> QED
    BY <2>6 DEF Rollout!Next
<1>9. ASSUME NEW c \in Convs, NEW i \in 1 .. MaxCalls, ToolReturns(c, i)
      PROVE  UNCHANGED Rollout!vars
  BY <1>9 DEF ToolReturns, Rollout!vars
<1>10. ASSUME NEW c \in Convs, ToolsFailed(c) PROVE Rollout!Next
  BY <1>10, <1>s DEF ToolsFailed
<1>11. ASSUME NEW c \in Convs, ToolsAnswered(c) PROVE Rollout!Next
  <2>0. Len(calls[c]) \in Nat
    BY <1>t, LenProperties DEF TypeOK
  <2>k. Responses(Len(calls[c])) \in Seq(RoleNames)
    BY <2>0 DEF Responses, RoleNames
  <2>1. messages' = [messages EXCEPT ![c] = messages[c] \o Responses(Len(calls[c]))]
    BY <1>11 DEF ToolsAnswered, Responses
  <2>2. messages'[c] = messages[c] \o Responses(Len(calls[c]))
    BY <2>1, <1>t DEF TypeOK
  <2>3. Rollout!Continues(messages[c], messages'[c])
    BY <2>2, <2>k, <1>m, AppendContinues
  <2>4. messages' = [messages EXCEPT ![c] = messages'[c]]
    BY <2>1, <2>2
  <2>5. (done[c] \/ depth'[c] = 0) \in BOOLEAN
    BY <1>t DEF TypeOK
  <2>6. Rollout!Proceed(c)
    BY <1>11, <2>3, <2>4, <2>5, RefProceed DEF ToolsAnswered, SetsDone
  <2> QED
    BY <2>6 DEF Rollout!Next
<1>12. ASSUME NEW c \in Convs, ToolRaised(c) PROVE Rollout!Next
  BY <1>12, <1>s DEF ToolRaised
<1>13. CASE UNCHANGED vars
  BY <1>13 DEF vars, conv, Rollout!vars
<1> QED
  BY <1>1, <1>2, <1>3, <1>4, <1>5, <1>6, <1>7, <1>8, <1>9, <1>10, <1>11, <1>12, <1>13
     DEF Next, ConvStep

\* Whatever the servers and tools answer, and in whatever order: a call returns only
\* when every conversation of its batch has ended, and from its event on a
\* conversation never changes again.
THEOREM Refinement == Spec => ImplementsBatchRollout
BY LifeCorrect, RefInit, RefStep, PTL DEF Spec, ImplementsBatchRollout, Rollout!Spec

--------------------------------------------------------------------------------
(* The cache of requests *)

\* An entry names the server its conversation was sent to, and a conversation has
\* one entry at most.
EntriesTrue ==
    /\ \A i \in 1 .. Len(cache) : cache[i].server = at[cache[i].conv]
    /\ \A i, j \in 1 .. Len(cache) : cache[i].conv = cache[j].conv => i = j

\* The entries of the current batch are more recent than all others ...
OldFirst ==
    \A i, j \in 1 .. Len(cache) :
        (i < j /\ Current(cache[i].conv)) => Current(cache[j].conv)

\* ... and none of them has been evicted.
CurrentKept ==
    \A c \in Convs : (Current(c) /\ at[c] # NoServer) =>
        \E i \in 1 .. Len(cache) : cache[i].conv = c

\* No batch has more conversations than the cache has entries.
BatchFits ==
    \A b \in 1 .. NumBatches : Cardinality({c \in Convs : BatchOf[c] = b}) <= MaxCache

LEMMA CacheFacts ==
    ASSUME TypeOK
    PROVE  /\ cache \in Seq(Entries) /\ Len(cache) \in Nat /\ Len(cache) <= MaxCache
           /\ \A i \in 1 .. Len(cache) :
                /\ cache[i].conv \in Convs
                /\ cache[i].server \in Servers
                /\ cache[i] = [conv |-> cache[i].conv, server |-> cache[i].server]
<1>1. cache \in Seq(Entries) /\ Len(cache) \in Nat /\ Len(cache) <= MaxCache
  BY LenProperties DEF TypeOK
<1>2. \A i \in 1 .. Len(cache) : cache[i] \in Entries
  BY <1>1, ElementOfSeq
<1> QED
  BY <1>1, <1>2 DEF Entries

LEMMA EntriesInit == Init => EntriesTrue
BY EmptySeq DEF Init, EntriesTrue

\* The first request of a conversation finds no entry of it.
LEMMA NoEntryYet ==
    ASSUME LifeInv, EntriesTrue, NEW c \in Convs, FirstSubmit(c)
    PROVE  /\ at[c] = NoServer
           /\ \A i \in 1 .. Len(cache) : cache[i].conv # c
<1>1. at[c] = NoServer
  BY DEF LifeInv, Life, FirstSubmit, HasResponse
<1>2. \A i \in 1 .. Len(cache) : cache[i].server \in Servers
  BY CacheFacts DEF LifeInv
<1>3. NoServer \notin Servers
  BY DEF Servers, NoServer
<1> QED
  BY <1>1, <1>2, <1>3 DEF EntriesTrue

\* A later request goes where the first one went.
LEMMA ResubmitKeepsServer ==
    ASSUME LifeInv, EntriesTrue, NEW c \in Convs, Resubmit(c)
    PROVE  at' = at
<1> PICK i \in 1 .. Len(cache) : cache[i].conv = c /\ Posts(c, cache[i].server)
  BY DEF Resubmit
<1>1. cache[i].server = at[c]
  BY DEF EntriesTrue
<1>2. at' = [at EXCEPT ![c] = at[c]]
  BY <1>1 DEF Posts
<1> QED
  BY <1>2 DEF LifeInv, TypeOK

\* What the first request does to the cache.
LEMMA FirstSubmitCache ==
    ASSUME LifeInv, EntriesTrue, NEW c \in Convs, FirstSubmit(c), NEW d, d = Dropped(cache)
    PROVE  /\ d \in {0, 1}
           /\ d = 1 => Len(cache) = MaxCache
           /\ Len(cache') = Len(cache) - d + 1
           /\ \A j \in 1 .. Len(cache') : j = Len(cache) - d + 1 \/ j \in 1 .. Len(cache) - d
           /\ \A j \in 1 .. Len(cache) - d : j + d \in 1 .. Len(cache) /\ cache'[j] = cache[j + d]
           /\ cache'[Len(cache) - d + 1].conv = c
           /\ cache'[Len(cache) - d + 1].server = at'[c]
           /\ at' = [at EXCEPT ![c] = at'[c]]
<1> PICK s \in Servers : cache' = Insert(cache, c, s) /\ Posts(c, s)
  BY DEF FirstSubmit
<1>t. TypeOK
  BY DEF LifeInv
<1>1. cache \in Seq(Entries) /\ Len(cache) \in Nat /\ Len(cache) <= MaxCache
  BY <1>t, CacheFacts
<1>2. /\ Len(cache') = Len(cache) - d + 1
      /\ d \in {0, 1}
      /\ d = 1 => Len(cache) = MaxCache
      /\ \A j \in 1 .. Len(cache) - d : cache'[j] = cache[j + d]
      /\ cache'[Len(cache) - d + 1] = [conv |-> c, server |-> s]
  BY <1>1, InsertFacts
<1>3. at' = [at EXCEPT ![c] = s] /\ at'[c] = s
  BY <1>t DEF TypeOK, Posts
<1>4. cache'[Len(cache) - d + 1].conv = c /\ cache'[Len(cache) - d + 1].server = s
  BY <1>2
<1>5. \A j \in 1 .. Len(cache') : j = Len(cache) - d + 1 \/ j \in 1 .. Len(cache) - d
  BY <1>1, <1>2
<1>6. \A j \in 1 .. Len(cache) - d : j + d \in 1 .. Len(cache)
  BY <1>1, <1>2
<1>7. at' = [at EXCEPT ![c] = at'[c]]
  BY <1>3
<1> QED
  BY <1>2, <1>3, <1>4, <1>5, <1>6, <1>7

\* The place before a removal of what is at j after one at k.
Skip(k, j) == IF j < k THEN j ELSE j + 1

\* What a later request does to it: its entry moves to the end.
LEMMA ResubmitCache ==
    ASSUME LifeInv, EntriesTrue, NEW c \in Convs, Resubmit(c)
    PROVE  \E k \in 1 .. Len(cache) :
             /\ cache[k].conv = c
             /\ Len(cache') = Len(cache)
             /\ \A j \in 1 .. Len(cache) - 1 :
                  /\ Skip(k, j) \in 1 .. Len(cache)
                  /\ Skip(k, j) # k
                  /\ cache'[j] = cache[Skip(k, j)]
             /\ \A j \in 1 .. Len(cache') : j = Len(cache) \/ j \in 1 .. Len(cache) - 1
             /\ cache'[Len(cache)].conv = c
             /\ cache'[Len(cache)].server = at[c]
<1> PICK k \in 1 .. Len(cache) :
      /\ cache[k].conv = c
      /\ cache' = Insert(Pop(cache, k), c, cache[k].server)
  BY DEF Resubmit
<1>c. /\ cache \in Seq(Entries) /\ Len(cache) \in Nat /\ Len(cache) <= MaxCache
      /\ \A i \in 1 .. Len(cache) : cache[i].conv \in Convs /\ cache[i].server \in Servers
  BY CacheFacts DEF LifeInv
<1> DEFINE rest == Pop(cache, k)
           s == cache[k].server
<1>2. /\ rest \in Seq(Entries)
      /\ Len(rest) = Len(cache) - 1
      /\ \A j \in 1 .. Len(cache) - 1 : rest[j] = IF j < k THEN cache[j] ELSE cache[j + 1]
  BY <1>c, PopFacts
<1>3. s \in Servers /\ s = at[c]
  BY <1>c DEF EntriesTrue
<1> HIDE DEF rest, s
<1>4. cache' = Insert(rest, c, s)
  BY DEF rest, s
<1>5. Dropped(rest) = 0
  BY <1>c, <1>2 DEF Dropped
<1>6. /\ Len(cache') = Len(cache)
      /\ \A j \in 1 .. Len(cache) - 1 : cache'[j] = rest[j]
      /\ cache'[Len(cache)] = [conv |-> c, server |-> s]
  <2>1. Len(rest) <= MaxCache
    BY <1>c, <1>2
  <2> DEFINE new == Insert(rest, c, s)
  <2>2. /\ Len(new) = Len(rest) - Dropped(rest) + 1
        /\ \A j \in 1 .. Len(rest) - Dropped(rest) : new[j] = rest[j + Dropped(rest)]
        /\ new[Len(rest) - Dropped(rest) + 1] = [conv |-> c, server |-> s]
    BY <1>2, <1>3, <2>1, InsertFacts
  <2> HIDE DEF new
  <2>3. cache' = new
    BY <1>4 DEF new
  <2> QED
    BY <1>c, <1>2, <1>5, <2>2, <2>3
<1>7. \A j \in 1 .. Len(cache) - 1 :
         /\ Skip(k, j) \in 1 .. Len(cache)
         /\ Skip(k, j) # k
         /\ cache'[j] = cache[Skip(k, j)]
  BY <1>c, <1>2, <1>6 DEF Skip
<1>8. \A j \in 1 .. Len(cache') : j = Len(cache) \/ j \in 1 .. Len(cache) - 1
  BY <1>c, <1>6
<1>9. cache'[Len(cache)].conv = c /\ cache'[Len(cache)].server = at[c]
  BY <1>3, <1>6
<1> QED
  BY <1>6, <1>7, <1>8, <1>9

LEMMA EntriesStep == LifeInv /\ EntriesTrue /\ [Next]_vars => EntriesTrue'
<1> SUFFICES ASSUME LifeInv, EntriesTrue, [Next]_vars PROVE EntriesTrue'
  OBVIOUS
<1>c. /\ Len(cache) \in Nat
      /\ \A i \in 1 .. Len(cache) : cache[i].conv \in Convs
  BY CacheFacts DEF LifeInv
<1>1. ASSUME NEW c \in Convs, FirstSubmit(c) PROVE EntriesTrue'
  <2>1. \A i \in 1 .. Len(cache) : cache[i].conv # c
    BY <1>1, NoEntryYet
  <2> PICK d : d = Dropped(cache)
    OBVIOUS
  <2>2. /\ d \in {0, 1}
        /\ Len(cache') = Len(cache) - d + 1
        /\ \A j \in 1 .. Len(cache') : j = Len(cache) - d + 1 \/ j \in 1 .. Len(cache) - d
        /\ \A j \in 1 .. Len(cache) - d : j + d \in 1 .. Len(cache) /\ cache'[j] = cache[j + d]
        /\ cache'[Len(cache) - d + 1].conv = c
        /\ cache'[Len(cache) - d + 1].server = at'[c]
        /\ at' = [at EXCEPT ![c] = at'[c]]
    BY <1>1, FirstSubmitCache
  <2>3. \A e \in Convs : e # c => at'[e] = at[e]
    BY <2>2 DEF LifeInv, TypeOK
  <2>4. \A j \in 1 .. Len(cache') : cache'[j].server = at'[cache'[j].conv]
    BY <1>c, <2>1, <2>2, <2>3 DEF EntriesTrue
  <2>5. \A i, j \in 1 .. Len(cache') : cache'[i].conv = cache'[j].conv => i = j
    <3> SUFFICES ASSUME NEW i \in 1 .. Len(cache'), NEW j \in 1 .. Len(cache'),
                        cache'[i].conv = cache'[j].conv
                 PROVE  i = j
      OBVIOUS
    <3>1. CASE i \in 1 .. Len(cache) - d /\ j \in 1 .. Len(cache) - d
      <4>1. cache[i + d].conv = cache[j + d].conv
        BY <3>1, <2>2
      <4>2. i + d \in 1 .. Len(cache) /\ j + d \in 1 .. Len(cache)
        BY <3>1, <2>2
      <4>3. i + d = j + d
        BY <4>1, <4>2 DEF EntriesTrue
      <4>4. i \in Int /\ j \in Int /\ d \in Int
        BY <1>c, <2>2
      <4> QED
        BY <4>3, <4>4
    <3>n. \A l \in 1 .. Len(cache) - d : cache'[l].conv # c
      BY <2>1, <2>2
    <3>2. CASE i = Len(cache) - d + 1 /\ j \in 1 .. Len(cache) - d
      <4>1. cache'[i].conv = c
        BY <3>2, <2>2
      <4> QED
        BY <3>2, <3>n, <4>1
    <3>3. CASE j = Len(cache) - d + 1 /\ i \in 1 .. Len(cache) - d
      <4>1. cache'[j].conv = c
        BY <3>3, <2>2
      <4> QED
        BY <3>3, <3>n, <4>1
    <3> QED
      BY <2>2, <3>1, <3>2, <3>3
  <2> QED
    BY <2>4, <2>5 DEF EntriesTrue
<1>2. ASSUME NEW c \in Convs, Resubmit(c) PROVE EntriesTrue'
  <2>1. at' = at
    BY <1>2, ResubmitKeepsServer
  <2> PICK k \in 1 .. Len(cache) :
        /\ cache[k].conv = c
        /\ Len(cache') = Len(cache)
        /\ \A j \in 1 .. Len(cache) - 1 :
             /\ Skip(k, j) \in 1 .. Len(cache)
             /\ Skip(k, j) # k
             /\ cache'[j] = cache[Skip(k, j)]
        /\ \A j \in 1 .. Len(cache') : j = Len(cache) \/ j \in 1 .. Len(cache) - 1
        /\ cache'[Len(cache)].conv = c
        /\ cache'[Len(cache)].server = at[c]
    BY <1>2, ResubmitCache
  <2>2. \A j \in 1 .. Len(cache) - 1 : cache'[j].conv # c
    BY DEF EntriesTrue
  <2>3. \A j \in 1 .. Len(cache') : cache'[j].server = at'[cache'[j].conv]
    BY <2>1 DEF EntriesTrue
  <2>4. \A i, j \in 1 .. Len(cache) - 1 : Skip(k, i) = Skip(k, j) => i = j
    BY <1>c DEF Skip
  <2>5. \A i, j \in 1 .. Len(cache') : cache'[i].conv = cache'[j].conv => i = j
    <3> SUFFICES ASSUME NEW i \in 1 .. Len(cache'), NEW j \in 1 .. Len(cache'),
                        cache'[i].conv = cache'[j].conv
                 PROVE  i = j
      OBVIOUS
    <3>1. CASE i \in 1 .. Len(cache) - 1 /\ j \in 1 .. Len(cache) - 1
      <4>1. cache[Skip(k, i)].conv = cache[Skip(k, j)].conv
        BY <3>1
      <4>2. Skip(k, i) = Skip(k, j)
        BY <3>1, <4>1 DEF EntriesTrue
      <4> QED
        BY <3>1, <4>2, <2>4
    <3>2. CASE i = Len(cache) /\ j \in 1 .. Len(cache) - 1
      BY <3>2, <2>2
    <3>3. CASE j = Len(cache) /\ i \in 1 .. Len(cache) - 1
      BY <3>3, <2>2
    <3> QED
      BY <3>1, <3>2, <3>3
  <2> QED
    BY <2>3, <2>5 DEF EntriesTrue
<1>3. CASE cache' = cache /\ at' = at
  BY <1>3 DEF EntriesTrue
<1>4. ASSUME NEW c \in Convs, ConvStep(c), ~FirstSubmit(c), ~Resubmit(c)
      PROVE  cache' = cache /\ at' = at
  BY <1>4 DEF ConvStep, TaskDies, CompletionFails, CompletionEnds, CompletionCallsTools, Answered,
              ToolsFailed, ToolsAnswered, ToolRaised
<1>5. ASSUME NEW c \in Convs, NEW i \in 1 .. MaxCalls, ToolReturns(c, i)
      PROVE  cache' = cache /\ at' = at
  BY <1>5 DEF ToolReturns
<1>6. CASE StartBatch \/ ReturnBatch \/ UNCHANGED vars
  BY <1>3, <1>6 DEF StartBatch, ReturnBatch, vars, conv
<1> QED
  BY <1>1, <1>2, <1>3, <1>4, <1>5, <1>6 DEF Next

LEMMA EntriesCorrect == Spec => [](LifeInv /\ EntriesTrue)
BY LifeInit, LifeStep, EntriesInit, EntriesStep, PTL DEF Spec

\* All requests of a conversation go to one server.
THEOREM Sticky == Spec => StickyServer
<1>1. LifeInv /\ EntriesTrue /\ [Next]_vars
         => [\A c \in Convs : at[c] # NoServer => at'[c] = at[c]]_vars
  <2> SUFFICES ASSUME LifeInv, EntriesTrue, Next, NEW c \in Convs, at[c] # NoServer
               PROVE  at'[c] = at[c]
    OBVIOUS
  <2>1. ASSUME NEW d \in Convs, FirstSubmit(d) PROVE at'[c] = at[c]
    <3>1. c # d
      BY <2>1, NoEntryYet
    <3> QED
      BY <2>1, <3>1 DEF FirstSubmit, Posts, LifeInv, TypeOK
  <2>2. ASSUME NEW d \in Convs, Resubmit(d) PROVE at'[c] = at[c]
    BY <2>2, ResubmitKeepsServer
  <2>3. ASSUME NEW d \in Convs, ConvStep(d), ~FirstSubmit(d), ~Resubmit(d) PROVE at' = at
    BY <2>3 DEF ConvStep, TaskDies, CompletionFails, CompletionEnds, CompletionCallsTools, Answered,
                ToolsFailed, ToolsAnswered, ToolRaised
  <2>4. ASSUME NEW d \in Convs, NEW i \in 1 .. MaxCalls, ToolReturns(d, i) PROVE at' = at
    BY <2>4 DEF ToolReturns
  <2>5. CASE StartBatch \/ ReturnBatch
    BY <2>5 DEF StartBatch, ReturnBatch, conv
  <2> QED
    BY <2>1, <2>2, <2>3, <2>4, <2>5 DEF Next
<1> QED
  BY <1>1, EntriesCorrect, PTL DEF Spec, StickyServer

--------------------------------------------------------------------------------
(* No request in flight is forgotten *)

KeepInv == LifeInv /\ EntriesTrue /\ OldFirst /\ CurrentKept

\* An entry is that of a conversation of this batch or an earlier one.
LEMMA EntriesStarted ==
    ASSUME LifeInv, EntriesTrue
    PROVE  \A i \in 1 .. Len(cache) : cache[i].conv \in Convs /\ BatchOf[cache[i].conv] <= batch
<1>1. \A i \in 1 .. Len(cache) :
        cache[i].conv \in Convs /\ cache[i].server \in Servers /\ cache[i].server = at[cache[i].conv]
  BY CacheFacts DEF LifeInv, EntriesTrue
<1>2. NoServer \notin Servers
  BY DEF Servers, NoServer
<1>3. \A c \in Convs : at[c] # NoServer => BatchOf[c] <= batch
  BY DEF LifeInv, TypeOK, Life, Fresh
<1> QED
  BY <1>1, <1>2, <1>3

\* If the cache is full and a conversation of this batch is not in it, the oldest
\* entry is one of an earlier batch: the cache has room for all of this one.
LEMMA OldestIsOld ==
    ASSUME BatchFits, KeepInv, NEW c \in Convs, Current(c), Len(cache) = MaxCache,
           \A i \in 1 .. Len(cache) : cache[i].conv # c
    PROVE  ~Current(cache[1].conv)
<1> SUFFICES ASSUME Current(cache[1].conv) PROVE FALSE
  OBVIOUS
<1> DEFINE B == {d \in Convs : BatchOf[d] = batch}
           Others == B \ {c}
           f == [i \in 1 .. MaxCache |-> cache[i].conv]
<1>1. batch \in 1 .. NumBatches
  BY DEF Current
<1>2. IsFiniteSet(B) /\ Cardinality(B) <= MaxCache
  <2>1. IsFiniteSet(B)
    BY FS_Subset
  <2> QED
    BY <1>1, <2>1 DEF BatchFits
<1>3. c \in B
  BY DEF Current
<1>4. IsFiniteSet(Others) /\ Cardinality(Others) = Cardinality(B) - 1 /\ Cardinality(B) \in Nat
  BY <1>2, <1>3, FS_RemoveElement, FS_CardinalityType
<1>5. IsFiniteSet(1 .. MaxCache) /\ Cardinality(1 .. MaxCache) = MaxCache
  BY FS_Interval
<1>6. \A i \in 1 .. MaxCache : cache[i].conv \in Others
  <2>1. \A i \in 1 .. Len(cache) : cache[i].conv \in Convs
    BY CacheFacts DEF KeepInv, LifeInv
  <2>2. \A i \in 1 .. Len(cache) : 1 < i => Current(cache[i].conv)
    BY DEF KeepInv, OldFirst
  <2>3. \A i \in 1 .. Len(cache) : Current(cache[i].conv)
    BY <2>2
  <2> QED
    BY <2>1, <2>3 DEF Current
<1>7. f \in [1 .. MaxCache -> Others]
  BY <1>6
<1>8. Cardinality(Others) < Cardinality(1 .. MaxCache)
  BY <1>2, <1>4, <1>5
<1>9. \E i, j \in 1 .. MaxCache : i # j /\ f[i] = f[j]
  <2> HIDE DEF Others, f
  <2> QED
    BY <1>4, <1>5, <1>7, <1>8, FS_PigeonHole
<1> QED
  BY <1>9 DEF KeepInv, EntriesTrue

LEMMA KeepInit == Init => OldFirst /\ CurrentKept
BY EmptySeq DEF Init, OldFirst, CurrentKept

LEMMA KeepStep == BatchFits /\ KeepInv /\ [Next]_vars => (OldFirst /\ CurrentKept)'
<1> SUFFICES ASSUME BatchFits, KeepInv, [Next]_vars PROVE (OldFirst /\ CurrentKept)'
  OBVIOUS
<1>k. LifeInv /\ EntriesTrue /\ OldFirst /\ CurrentKept
  BY DEF KeepInv
<1>c. /\ Len(cache) \in Nat
      /\ \A i \in 1 .. Len(cache) : cache[i].conv \in Convs
  BY <1>k, CacheFacts DEF LifeInv
<1>1. CASE StartBatch
  <2>1. batch' = batch + 1 /\ cache' = cache /\ at' = at /\ batch \in Nat
    BY <1>1, <1>k DEF StartBatch, LifeInv, TypeOK
  <2>2. \A i \in 1 .. Len(cache) : BatchOf[cache[i].conv] <= batch /\ BatchOf[cache[i].conv] \in Nat
    BY <1>k, <1>c, EntriesStarted
  <2>3. OldFirst'
    BY <2>1, <2>2 DEF OldFirst, Current
  <2>4. \A c \in Convs : BatchOf[c] = batch + 1 => at[c] = NoServer
    BY <1>k, <2>1 DEF LifeInv, Life, Fresh
  <2>5. CurrentKept'
    BY <2>1, <2>4 DEF CurrentKept, Current
  <2> QED
    BY <2>3, <2>5
<1>2. ASSUME NEW c \in Convs, FirstSubmit(c) PROVE (OldFirst /\ CurrentKept)'
  <2>1. \A i \in 1 .. Len(cache) : cache[i].conv # c
    BY <1>2, <1>k, NoEntryYet
  <2>b. batch' = batch /\ Current(c)
    BY <1>2, <1>k DEF FirstSubmit, LifeInv, Life
  <2> PICK d : d = Dropped(cache)
    OBVIOUS
  <2>2. /\ d \in {0, 1}
        /\ d = 1 => Len(cache) = MaxCache
        /\ Len(cache') = Len(cache) - d + 1
        /\ \A j \in 1 .. Len(cache') : j = Len(cache) - d + 1 \/ j \in 1 .. Len(cache) - d
        /\ \A j \in 1 .. Len(cache) - d : j + d \in 1 .. Len(cache) /\ cache'[j] = cache[j + d]
        /\ cache'[Len(cache) - d + 1].conv = c
        /\ at' = [at EXCEPT ![c] = at'[c]]
    BY <1>2, <1>k, FirstSubmitCache
  <2>3. \A e \in Convs : e # c => at'[e] = at[e]
    BY <2>2, <1>k DEF LifeInv, TypeOK
  <2>4. d = 1 => ~Current(cache[1].conv)
    BY <2>1, <2>2, <2>b, OldestIsOld
  <2>5. OldFirst'
    <3> SUFFICES ASSUME NEW i \in 1 .. Len(cache'), NEW j \in 1 .. Len(cache'),
                        i < j, Current(cache'[i].conv)
                 PROVE  Current(cache'[j].conv)
      BY <2>b DEF OldFirst, Current
    <3>1. CASE j = Len(cache) - d + 1
      BY <3>1, <2>2, <2>b
    <3>2. CASE j \in 1 .. Len(cache) - d
      <4>1. i \in 1 .. Len(cache) - d
        BY <3>2, <1>c, <2>2
      <4>2. i + d \in 1 .. Len(cache) /\ j + d \in 1 .. Len(cache) /\ i + d < j + d
        BY <3>2, <4>1, <1>c, <2>2
      <4>3. Current(cache[i + d].conv)
        BY <4>1, <2>2
      <4>4. Current(cache[j + d].conv)
        BY <4>2, <4>3, <1>k DEF OldFirst
      <4> QED
        BY <3>2, <4>4, <2>2
    <3> QED
      BY <2>2, <3>1, <3>2
  <2>6. CurrentKept'
    <3> SUFFICES ASSUME NEW e \in Convs, Current(e), at'[e] # NoServer
                 PROVE  \E i \in 1 .. Len(cache') : cache'[i].conv = e
      BY <2>b DEF CurrentKept, Current
    <3>1. CASE e = c
      <4>1. Len(cache) - d + 1 \in 1 .. Len(cache')
        BY <1>c, <2>2
      <4> QED
        BY <3>1, <4>1, <2>2
    <3>2. CASE e # c
      <4> PICK i \in 1 .. Len(cache) : cache[i].conv = e
        BY <3>2, <2>3, <1>k DEF CurrentKept
      <4>1. ~(d = 1 /\ i = 1)
        BY <2>4
      <4>2. i - d \in 1 .. Len(cache) - d /\ (i - d) + d = i /\ i - d \in 1 .. Len(cache')
        BY <4>1, <1>c, <2>2
      <4>3. cache'[i - d].conv = e
        BY <4>2, <2>2
      <4> QED
        BY <4>2, <4>3
    <3> QED
      BY <3>1, <3>2
  <2> QED
    BY <2>5, <2>6
<1>3. ASSUME NEW c \in Convs, Resubmit(c) PROVE (OldFirst /\ CurrentKept)'
  <2>1. at' = at
    BY <1>3, <1>k, ResubmitKeepsServer
  <2>b. batch' = batch /\ Current(c)
    BY <1>3, <1>k DEF Resubmit, LifeInv, Life
  <2> PICK k \in 1 .. Len(cache) :
        /\ cache[k].conv = c
        /\ Len(cache') = Len(cache)
        /\ \A j \in 1 .. Len(cache) - 1 :
             /\ Skip(k, j) \in 1 .. Len(cache)
             /\ Skip(k, j) # k
             /\ cache'[j] = cache[Skip(k, j)]
        /\ \A j \in 1 .. Len(cache') : j = Len(cache) \/ j \in 1 .. Len(cache) - 1
        /\ cache'[Len(cache)].conv = c
    BY <1>3, <1>k, ResubmitCache
  <2>2. OldFirst'
    <3> SUFFICES ASSUME NEW i \in 1 .. Len(cache'), NEW j \in 1 .. Len(cache'),
                        i < j, Current(cache'[i].conv)
                 PROVE  Current(cache'[j].conv)
      BY <2>b DEF OldFirst, Current
    <3>1. CASE j = Len(cache)
      BY <3>1, <2>b
    <3>2. CASE j \in 1 .. Len(cache) - 1
      <4>1. i \in 1 .. Len(cache) - 1
        BY <3>2, <1>c
      <4>2. Skip(k, i) < Skip(k, j)
        BY <3>2, <4>1, <1>c DEF Skip
      <4>3. Current(cache[Skip(k, i)].conv)
        BY <4>1
      <4>4. Current(cache[Skip(k, j)].conv)
        BY <3>2, <4>1, <4>2, <4>3, <1>k DEF OldFirst
      <4> QED
        BY <3>2, <4>4
    <3> QED
      BY <3>1, <3>2
  <2>3. CurrentKept'
    <3> SUFFICES ASSUME NEW e \in Convs, Current(e), at[e] # NoServer
                 PROVE  \E i \in 1 .. Len(cache') : cache'[i].conv = e
      BY <2>1, <2>b DEF CurrentKept, Current
    <3>1. CASE e = c
      <4>1. Len(cache) \in 1 .. Len(cache')
        BY <1>c
      <4> QED
        BY <3>1, <4>1
    <3>2. CASE e # c
      <4> PICK i \in 1 .. Len(cache) : cache[i].conv = e
        BY <1>k DEF CurrentKept
      <4>1. i # k
        BY <3>2
      <4>2. \E j \in 1 .. Len(cache) - 1 : Skip(k, j) = i
        <5>1. CASE i < k
          <6>1. i \in 1 .. Len(cache) - 1 /\ Skip(k, i) = i
            BY <5>1, <1>c DEF Skip
          <6> QED
            BY <6>1
        <5>2. CASE i > k
          <6>1. i - 1 \in 1 .. Len(cache) - 1 /\ Skip(k, i - 1) = i
            BY <5>2, <1>c DEF Skip
          <6> QED
            BY <6>1
        <5> QED
          BY <4>1, <5>1, <5>2, <1>c
      <4> PICK j \in 1 .. Len(cache) - 1 : Skip(k, j) = i
        BY <4>2
      <4>3. cache'[j].conv = e /\ j \in 1 .. Len(cache')
        BY <1>c
      <4> QED
        BY <4>3
    <3> QED
      BY <3>1, <3>2
  <2> QED
    BY <2>2, <2>3
<1>4. CASE cache' = cache /\ at' = at /\ batch' = batch
  BY <1>4, <1>k DEF OldFirst, CurrentKept, Current
<1>5. ASSUME NEW c \in Convs, ConvStep(c), ~FirstSubmit(c), ~Resubmit(c)
      PROVE  cache' = cache /\ at' = at /\ batch' = batch
  BY <1>5 DEF ConvStep, TaskDies, CompletionFails, CompletionEnds, CompletionCallsTools, Answered,
              ToolsFailed, ToolsAnswered, ToolRaised
<1>6. ASSUME NEW c \in Convs, NEW i \in 1 .. MaxCalls, ToolReturns(c, i)
      PROVE  cache' = cache /\ at' = at /\ batch' = batch
  BY <1>6 DEF ToolReturns
<1>7. CASE ReturnBatch \/ UNCHANGED vars
  BY <1>4, <1>7 DEF ReturnBatch, vars, conv
<1> QED
  BY <1>1, <1>2, <1>3, <1>4, <1>5, <1>6, <1>7 DEF Next

\* The assertion on the request id cannot fail while no batch has more conversations
\* than the cache has entries, however many batches have filled the cache before.
THEOREM NeverForgotten == ASSUME BatchFits PROVE Spec => []RequestKnown
<1>1. Init => KeepInv
  BY LifeInit, EntriesInit, KeepInit DEF KeepInv
<1>2. KeepInv /\ [Next]_vars => KeepInv'
  BY BatchFits, LifeStep, EntriesStep, KeepStep DEF KeepInv
<1>3. KeepInv => RequestKnown
  BY DEF KeepInv, LifeInv, Life, CurrentKept, RequestKnown, HasResponse
<1> QED
  BY <1>1, <1>2, <1>3, PTL DEF Spec

--------------------------------------------------------------------------------
(* Balance *)

\* Assigned, with the addresses as a parameter.
Count(f, b, s) == Cardinality({c \in Convs : BatchOf[c] = b /\ f[c] = s})

\* The heap goes round robin: no server is ahead of one that comes before it, nor
\* more than one behind.  So do its weights without the current batch.
RoundRobin ==
    \A s, t \in Servers : s < t =>
        /\ load[t] <= load[s]
        /\ load[s] <= load[t] + 1
        /\ load[t] + Count(at, batch, s) <= load[s] + Count(at, batch, t)
        /\ load[s] + Count(at, batch, t) <= load[t] + Count(at, batch, s) + 1

\* Nothing of a batch is assigned before it starts.
NotYet == \A b \in Nat, s \in Servers : batch < b => Count(at, b, s) = 0

\* BatchBalanced in terms of Count.
Even ==
    \A b \in 1 .. NumBatches, s, t \in Servers : Count(at, b, s) <= Count(at, b, t) + 1

BalanceInv == LifeInv /\ EntriesTrue /\ RoundRobin /\ NotYet /\ Even

LEMMA CountType ==
    \A b \in Nat, s \in Servers : Count(at, b, s) \in Nat
<1> SUFFICES ASSUME NEW b \in Nat, NEW s \in Servers PROVE Count(at, b, s) \in Nat
  OBVIOUS
<1>1. IsFiniteSet({c \in Convs : BatchOf[c] = b /\ at[c] = s})
  BY FS_Subset
<1> QED
  BY <1>1, FS_CardinalityType DEF Count

LEMMA BalanceInit == Init => RoundRobin /\ NotYet /\ Even
<1> SUFFICES ASSUME Init PROVE RoundRobin /\ NotYet /\ Even
  OBVIOUS
<1>1. \A b, s : s \in Servers => Count(at, b, s) = 0
  <2> SUFFICES ASSUME NEW b, NEW s \in Servers PROVE Count(at, b, s) = 0
    OBVIOUS
  <2>1. {c \in Convs : BatchOf[c] = b /\ at[c] = s} = {}
    BY DEF Init, Servers, NoServer
  <2> QED
    BY <2>1, FS_EmptySet DEF Count
<1>2. \A s \in Servers : load[s] = 0
  BY DEF Init
<1> QED
  BY <1>1, <1>2 DEF RoundRobin, NotYet, Even

\* One more conversation of the current batch on server s, and nothing else.
LEMMA AssignOne ==
    ASSUME LifeInv, NEW c \in Convs, Current(c), at[c] = NoServer,
           NEW s \in Servers, at' = [at EXCEPT ![c] = s]
    PROVE  \A b \in Nat, t \in Servers :
             Count(at', b, t) = IF b = batch /\ t = s THEN Count(at, b, t) + 1 ELSE Count(at, b, t)
<1> SUFFICES ASSUME NEW b \in Nat, NEW t \in Servers
             PROVE  Count(at', b, t) = IF b = batch /\ t = s THEN Count(at, b, t) + 1
                                                            ELSE Count(at, b, t)
  OBVIOUS
<1> DEFINE A == {d \in Convs : BatchOf[d] = b /\ at[d] = t}
           B == {d \in Convs : BatchOf[d] = b /\ at'[d] = t}
<1>1. \A d \in Convs : at'[d] = IF d = c THEN s ELSE at[d]
  BY DEF LifeInv, TypeOK
<1>n. t # NoServer
  BY DEF Servers, NoServer
<1>2. IsFiniteSet(A)
  BY FS_Subset
<1>3. CASE b = batch /\ t = s
  <2>1. B = A \cup {c} /\ c \notin A
    BY <1>1, <1>3, <1>n DEF Current
  <2>2. Cardinality(B) = Cardinality(A) + 1
    <3> HIDE DEF A, B
    <3> QED
      BY <2>1, <1>2, FS_AddElement
  <2> QED
    BY <2>2, <1>3 DEF Count
<1>4. CASE ~(b = batch /\ t = s)
  <2>1. B = A
    BY <1>1, <1>4, <1>n DEF Current
  <2> QED
    BY <2>1, <1>4 DEF Count
<1> QED
  BY <1>3, <1>4

LEMMA BalanceStep == BalanceInv /\ [Next]_vars => (RoundRobin /\ NotYet /\ Even)'
<1> SUFFICES ASSUME BalanceInv, [Next]_vars PROVE (RoundRobin /\ NotYet /\ Even)'
  OBVIOUS
<1>k. LifeInv /\ EntriesTrue /\ RoundRobin /\ NotYet /\ Even
  BY DEF BalanceInv
<1>t. /\ batch \in Nat /\ batch <= NumBatches
      /\ \A s \in Servers : load[s] \in Nat
      /\ \A s \in Servers : s \in Int
      /\ \A b \in Nat, s \in Servers : Count(at, b, s) \in Nat
  <2>1. batch \in Nat /\ batch <= NumBatches /\ \A s \in Servers : load[s] \in Nat
    BY <1>k DEF LifeInv, TypeOK
  <2>2. \A s \in Servers : s \in Int
    BY DEF Servers
  <2> QED
    BY <2>1, <2>2, CountType
<1>1. CASE StartBatch
  <2>1. batch' = batch + 1 /\ load' = load /\ at' = at
    BY <1>1 DEF StartBatch
  <2>2. \A b \in Nat, s \in Servers : Count(at', b, s) = Count(at, b, s)
    BY <2>1 DEF Count
  <2>3. \A s \in Servers : Count(at', batch', s) = 0
    BY <2>1, <2>2, <1>t, <1>k DEF NotYet
  <2>4. RoundRobin'
    BY <2>1, <2>3, <1>t, <1>k DEF RoundRobin
  <2>5. NotYet'
    BY <2>1, <2>2, <1>t, <1>k DEF NotYet
  <2>6. Even'
    BY <2>2, <1>k DEF Even
  <2> QED
    BY <2>4, <2>5, <2>6
<1>2. ASSUME NEW c \in Convs, FirstSubmit(c) PROVE (RoundRobin /\ NotYet /\ Even)'
  <2> PICK s \in Servers : Least(s) /\ load' = [load EXCEPT ![s] = @ + 1] /\ Posts(c, s)
    BY <1>2 DEF FirstSubmit
  <2>1. batch' = batch /\ Current(c) /\ at[c] = NoServer /\ batch \in 1 .. NumBatches
    <3>1. at[c] = NoServer
      BY <1>2, <1>k, NoEntryYet
    <3>2. batch' = batch /\ Current(c)
      BY <1>2, <1>k DEF FirstSubmit, LifeInv, Life
    <3> QED
      BY <3>1, <3>2 DEF Current
  <2>2. \A b \in Nat, t \in Servers :
           Count(at', b, t) = IF b = batch /\ t = s THEN Count(at, b, t) + 1 ELSE Count(at, b, t)
    BY <2>1, <1>k, AssignOne DEF Posts
  <2>3. \A t \in Servers : load'[t] = IF t = s THEN load[t] + 1 ELSE load[t]
    BY <1>k DEF LifeInv, TypeOK
  <2>4. \A t \in Servers : load[s] < load[t] \/ (load[s] = load[t] /\ s <= t)
    BY DEF Least
  <2>b. \A t \in Servers : Count(at', batch', t) = IF t = s THEN Count(at, batch, t) + 1
                                                         ELSE Count(at, batch, t)
    BY <2>1, <2>2, <1>t
  <2>5. RoundRobin'
    <3> SUFFICES ASSUME NEW t \in Servers, NEW u \in Servers, t < u
                 PROVE  /\ load'[u] <= load'[t]
                        /\ load'[t] <= load'[u] + 1
                        /\ load'[u] + Count(at', batch', t) <= load'[t] + Count(at', batch', u)
                        /\ load'[t] + Count(at', batch', u) <= load'[u] + Count(at', batch', t) + 1
      BY DEF RoundRobin
    <3>1. /\ load[u] <= load[t]
          /\ load[t] <= load[u] + 1
          /\ load[u] + Count(at, batch, t) <= load[t] + Count(at, batch, u)
          /\ load[t] + Count(at, batch, u) <= load[u] + Count(at, batch, t) + 1
      BY <1>k DEF RoundRobin
    <3>2. load'[u] <= load'[t] /\ load'[t] <= load'[u] + 1
      BY <3>1, <2>3, <2>4, <1>t
    <3> DEFINE at1 == Count(at, batch, t)
               au1 == Count(at, batch, u)
    <3>3. at1 \in Nat /\ au1 \in Nat
      BY <1>t
    <3>4. /\ Count(at', batch', t) = IF t = s THEN at1 + 1 ELSE at1
          /\ Count(at', batch', u) = IF u = s THEN au1 + 1 ELSE au1
      BY <2>b
    <3>5. /\ load[u] + at1 <= load[t] + au1
          /\ load[t] + au1 <= load[u] + at1 + 1
      BY <3>1
    <3> HIDE DEF at1, au1
    <3>6. /\ load'[u] + Count(at', batch', t) <= load'[t] + Count(at', batch', u)
          /\ load'[t] + Count(at', batch', u) <= load'[u] + Count(at', batch', t) + 1
      BY <3>3, <3>4, <3>5, <2>3, <1>t
    <3> QED
      BY <3>2, <3>6
  <2>6. NotYet'
    BY <2>1, <2>2, <1>t, <1>k DEF NotYet
  <2>7. Even'
    <3> SUFFICES ASSUME NEW b \in 1 .. NumBatches, NEW t \in Servers, NEW u \in Servers
                 PROVE  Count(at', b, t) <= Count(at', b, u) + 1
      BY DEF Even
    <3>1. CASE b # batch
      BY <3>1, <2>2, <1>k DEF Even
    <3>2. CASE b = batch
      <4>1. /\ (t < u => /\ load'[u] <= load'[t]
                         /\ load'[t] <= load'[u] + 1
                         /\ load'[u] + Count(at', b, t) <= load'[t] + Count(at', b, u)
                         /\ load'[t] + Count(at', b, u) <= load'[u] + Count(at', b, t) + 1)
            /\ (u < t => /\ load'[t] <= load'[u]
                         /\ load'[u] <= load'[t] + 1
                         /\ load'[t] + Count(at', b, u) <= load'[u] + Count(at', b, t)
                         /\ load'[u] + Count(at', b, t) <= load'[t] + Count(at', b, u) + 1)
        BY <3>2, <2>1, <2>5 DEF RoundRobin
      <4> DEFINE x == Count(at', b, t)
                 y == Count(at', b, u)
      <4>2. x \in Nat /\ y \in Nat /\ load'[t] \in Nat /\ load'[u] \in Nat /\ t \in Int /\ u \in Int
        BY <2>2, <2>3, <1>t
      <4>3. t = u => x = y
        OBVIOUS
      <4> HIDE DEF x, y
      <4>4. /\ (t < u => /\ load'[u] <= load'[t]
                         /\ load'[t] <= load'[u] + 1
                         /\ load'[u] + x <= load'[t] + y
                         /\ load'[t] + y <= load'[u] + x + 1)
            /\ (u < t => /\ load'[t] <= load'[u]
                         /\ load'[u] <= load'[t] + 1
                         /\ load'[t] + y <= load'[u] + x
                         /\ load'[u] + x <= load'[t] + y + 1)
        BY <4>1 DEF x, y
      <4>5. x <= y + 1
        BY <4>2, <4>3, <4>4
      <4> QED
        BY <4>5 DEF x, y
    <3> QED
      BY <3>1, <3>2
  <2> QED
    BY <2>5, <2>6, <2>7
<1>3. CASE load' = load /\ at' = at /\ batch' = batch
  <2>1. \A b, s : Count(at', b, s) = Count(at, b, s)
    BY <1>3 DEF Count
  <2> QED
    BY <1>3, <2>1, <1>k DEF RoundRobin, NotYet, Even
<1>4. ASSUME NEW c \in Convs, Resubmit(c) PROVE load' = load /\ at' = at /\ batch' = batch
  BY <1>4, <1>k, ResubmitKeepsServer DEF Resubmit
<1>5. ASSUME NEW c \in Convs, ConvStep(c), ~FirstSubmit(c), ~Resubmit(c)
      PROVE  load' = load /\ at' = at /\ batch' = batch
  BY <1>5 DEF ConvStep, TaskDies, CompletionFails, CompletionEnds, CompletionCallsTools, Answered,
              ToolsFailed, ToolsAnswered, ToolRaised
<1>6. ASSUME NEW c \in Convs, NEW i \in 1 .. MaxCalls, ToolReturns(c, i)
      PROVE  load' = load /\ at' = at /\ batch' = batch
  BY <1>6 DEF ToolReturns
<1>7. CASE ReturnBatch \/ UNCHANGED vars
  BY <1>3, <1>7 DEF ReturnBatch, vars, conv
<1> QED
  BY <1>1, <1>2, <1>3, <1>4, <1>5, <1>6, <1>7 DEF Next

\* Every batch is spread evenly, for any number of servers and conversations.
THEOREM Balanced == Spec => []BatchBalanced
<1>1. Init => BalanceInv
  BY LifeInit, EntriesInit, BalanceInit DEF BalanceInv
<1>2. BalanceInv /\ [Next]_vars => BalanceInv'
  BY LifeStep, EntriesStep, BalanceStep DEF BalanceInv
<1>3. BalanceInv => BatchBalanced
  BY DEF BalanceInv, Even, Count, BatchBalanced, Assigned
<1> QED
  BY <1>1, <1>2, <1>3, PTL DEF Spec

--------------------------------------------------------------------------------
(* The turn limit *)

\* A conversation calls tools below the limit only, at most MaxCalls at once, so
\* that it is submitted again with room for one answer.
Turns(c) ==
    /\ task[c] = "gathering" => Len(messages[c]) < MaxTurns /\ Len(calls[c]) <= MaxCalls
    /\ task[c] \in {"created", "posted"} => Len(messages[c]) < MaxTurns + MaxCalls
    /\ Len(messages[c]) <= MaxTurns + MaxCalls

TurnInv == LifeInv /\ \A c \in Convs : Turns(c)

LEMMA TurnInit == MaxTurns > 1 /\ Init => \A c \in Convs : Turns(c)
<1> SUFFICES ASSUME MaxTurns > 1, Init, NEW c \in Convs PROVE Turns(c)
  OBVIOUS
<1>1. messages[c] = Prompt /\ task[c] = "none"
  BY DEF Init
<1>2. Len(messages[c]) = 1
  BY <1>1, PromptFacts
<1>3. 1 <= MaxTurns + MaxCalls
  OBVIOUS
<1> QED
  BY <1>1, <1>2, <1>3 DEF Turns

LEMMA TurnStep == MaxTurns > 1 /\ TurnInv /\ [Next]_vars => \A c \in Convs : Turns(c)'
<1> SUFFICES ASSUME MaxTurns > 1, TurnInv, [Next]_vars, NEW c \in Convs PROVE Turns(c)'
  OBVIOUS
<1>t. TypeOK /\ Life(c) /\ Turns(c)
  BY DEF TurnInv, LifeInv
<1>n. Len(messages[c]) \in Nat /\ Len(calls[c]) \in Nat /\ messages[c] \in Seq(RoleNames)
  BY <1>t, LenProperties DEF TypeOK
<1>1. CASE StartBatch
  <2>1. CASE BatchOf[c] = batch + 1
    <3>1. messages[c] = Prompt
      BY <2>1, <1>t DEF Life, Fresh, TypeOK
    <3>2. messages'[c] = Prompt /\ task'[c] = "created"
      BY <2>1, <3>1, <1>1 DEF StartBatch
    <3>3. Len(messages'[c]) = 1
      BY <3>2, PromptFacts
    <3>4. 1 < MaxTurns + MaxCalls
      OBVIOUS
    <3> QED
      BY <3>2, <3>3, <3>4 DEF Turns
  <2>2. CASE BatchOf[c] # batch + 1
    BY <2>2, <1>1, <1>t DEF StartBatch, Turns
  <2> QED
    BY <2>1, <2>2
<1>2. ASSUME NEW d \in Convs, d # c, ConvStep(d) \/ \E i \in 1 .. MaxCalls : ToolReturns(d, i)
      PROVE  Turns(c)'
  <2>1. messages'[c] = messages[c] /\ calls'[c] = calls[c] /\ task'[c] = task[c]
    BY <1>2, <1>t DEF TypeOK, ConvStep, FirstSubmit, Resubmit, Posts, TaskDies, CompletionFails,
       CompletionEnds, CompletionCallsTools, Answered, ToolsFailed, ToolsAnswered, ToolRaised, ToolReturns
  <2> QED
    BY <2>1, <1>t DEF Turns
<1>3. CASE FirstSubmit(c) \/ Resubmit(c) \/ TaskDies(c) \/ CompletionFails(c) \/ ToolsFailed(c) \/ ToolRaised(c)
  <2>1. messages'[c] = messages[c] /\ \/ task'[c] = "posted" /\ task[c] = "created"
                                      \/ task'[c] = "none"
    BY <1>3, <1>t DEF TypeOK, FirstSubmit, Resubmit, Posts, TaskDies, CompletionFails, ToolsFailed, ToolRaised
  <2> QED
    BY <2>1, <1>t DEF Turns
<1>4. CASE CompletionEnds(c) \/ CompletionCallsTools(c)
  <2>1. messages'[c] = Append(messages[c], "assistant") /\ task[c] = "posted"
    BY <1>4, <1>t DEF TypeOK, CompletionEnds, CompletionCallsTools, Answered
  <2>2. Len(messages'[c]) = Len(messages[c]) + 1
    BY <2>1, <1>n, <1>t, AnswerFacts DEF Life
  <2>3. Len(messages'[c]) <= MaxTurns + MaxCalls
    BY <2>1, <2>2, <1>n, <1>t DEF Turns
  <2>4. CASE CompletionEnds(c)
    BY <2>3, <2>4, <1>t DEF CompletionEnds, TypeOK, Turns
  <2>5. CASE CompletionCallsTools(c)
    <3> PICK n \in 1 .. MaxCalls : calls' = [calls EXCEPT ![c] = [i \in 1 .. n |-> "running"]]
      BY <2>5 DEF CompletionCallsTools
    <3>1. calls'[c] = [i \in 1 .. n |-> "running"]
      BY <1>t DEF TypeOK
    <3>2. Len(calls'[c]) <= MaxCalls
      BY <3>1
    <3>3. Len(messages'[c]) < MaxTurns
      BY <2>2, <2>5, <1>n DEF CompletionCallsTools, ReachesMaxTurns
    <3>4. task'[c] = "gathering"
      BY <2>5, <1>t DEF CompletionCallsTools, TypeOK
    <3> QED
      BY <2>3, <3>2, <3>3, <3>4 DEF Turns
  <2> QED
    BY <1>4, <2>4, <2>5
<1>5. CASE ToolsAnswered(c)
  <2>1. /\ messages'[c] = messages[c] \o Responses(Len(calls[c]))
        /\ task[c] = "gathering"
        /\ task'[c] = "created"
    BY <1>5, <1>t DEF TypeOK, ToolsAnswered, Responses
  <2>2. Len(messages'[c]) = Len(messages[c]) + Len(calls[c])
    BY <2>1, <1>n, <1>t, ResponseFacts DEF Life
  <2> DEFINE m == Len(messages[c])
             k == Len(calls[c])
  <2>a. m \in Nat /\ k \in Nat /\ m < MaxTurns /\ k <= MaxCalls
    BY <2>1, <1>n, <1>t DEF Turns
  <2>b. Len(messages'[c]) = m + k
    BY <2>2
  <2> HIDE DEF m, k
  <2>3. Len(messages'[c]) < MaxTurns + MaxCalls
    BY <2>a, <2>b
  <2>4. Len(messages'[c]) <= MaxTurns + MaxCalls
    BY <2>3, <2>a, <2>b
  <2>5. task'[c] = "created"
    BY <2>1
  <2> QED
    BY <2>3, <2>4, <2>5 DEF Turns
<1>6. ASSUME NEW i \in 1 .. MaxCalls, ToolReturns(c, i) PROVE Turns(c)'
  <2>1. PICK r \in CallStates :
          calls' = [calls EXCEPT ![c] = [j \in 1 .. Len(@) |-> IF j = i THEN r ELSE @[j]]]
    BY <1>6 DEF ToolReturns
  <2> DEFINE new == [j \in 1 .. Len(calls[c]) |-> IF j = i THEN r ELSE calls[c][j]]
  <2>2. calls'[c] = new
    BY <2>1, <1>t DEF TypeOK
  <2>3. Len(new) = Len(calls[c])
    BY <1>n
  <2>4. messages' = messages /\ task' = task
    BY <1>6 DEF ToolReturns
  <2> QED
    BY <2>2, <2>3, <2>4, <1>t DEF Turns
<1>7. CASE ReturnBatch \/ UNCHANGED vars
  BY <1>7, <1>t DEF ReturnBatch, vars, conv, Turns
<1> QED
  BY <1>1, <1>2, <1>3, <1>4, <1>5, <1>6, <1>7 DEF Next, ConvStep

\* A limit on the turns is exceeded by the responses to one message's calls at most.
THEOREM Limited == Spec => []TurnLimit
<1>1. CASE MaxTurns > 1
  <2>1. Init => TurnInv
    BY <1>1, LifeInit, TurnInit DEF TurnInv
  <2>2. TurnInv /\ [Next]_vars => TurnInv'
    BY <1>1, LifeStep, TurnStep DEF TurnInv
  <2>3. TurnInv => TurnLimit
    BY DEF TurnInv, Turns, TurnLimit
  <2> QED
    BY <2>1, <2>2, <2>3, PTL DEF Spec
<1>2. CASE ~(MaxTurns > 1)
  <2>1. TurnLimit
    BY <1>2 DEF TurnLimit
  <2> QED
    BY <2>1, PTL
<1> QED
  BY <1>1, <1>2

--------------------------------------------------------------------------------
(* Running tools *)

LEMMA AwaitedStep == LifeInv /\ ToolsAwaited /\ [Next]_vars => ToolsAwaited'
<1> SUFFICES ASSUME LifeInv, ToolsAwaited, [Next]_vars,
                    NEW c \in Convs, SomeCall(c, "running")'
             PROVE  (task[c] = "gathering" \/ SomeCall(c, "raised"))'
  BY DEF ToolsAwaited
<1>t. TypeOK /\ \A d \in Convs : Life(d)
  BY DEF LifeInv
\* Unless a step of c's own touches the calls or leaves gather, nothing changes.
<1>1. ASSUME calls'[c] = calls[c], task[c] = "gathering" => task'[c] = "gathering"
      PROVE  (task[c] = "gathering" \/ SomeCall(c, "raised"))'
  BY <1>1 DEF ToolsAwaited, SomeCall
<1>2. CASE StartBatch
  <2>1. calls'[c] = calls[c] /\ (task'[c] = task[c] \/ BatchOf[c] = batch + 1)
    BY <1>2, <1>t DEF StartBatch, TypeOK
  <2>2. BatchOf[c] = batch + 1 => task[c] = "none"
    BY <1>t DEF Life, Fresh, TypeOK
  <2> QED
    BY <1>1, <2>1, <2>2
<1>3. CASE ReturnBatch
  BY <1>1, <1>3 DEF ReturnBatch, conv
<1>4. ASSUME NEW d \in Convs, NEW i \in 1 .. MaxCalls, ToolReturns(d, i)
      PROVE  (task[c] = "gathering" \/ SomeCall(c, "raised"))'
  <2>1. UNCHANGED task
    BY <1>4 DEF ToolReturns
  <2>2. CASE d # c
    <3>1. calls'[c] = calls[c]
      BY <1>4, <1>t, <2>2 DEF ToolReturns, TypeOK
    <3> QED
      BY <1>1, <2>1, <3>1
  <2>3. CASE d = c
    <3>1. PICK r \in CallStates \ {"running"} :
             calls'[c] = [j \in 1 .. Len(calls[c]) |-> IF j = i THEN r ELSE calls[c][j]]
      BY <1>4, <1>t, <2>3 DEF ToolReturns, TypeOK
    <3>2. Len(calls[c]) \in Nat /\ i \in 1 .. Len(calls[c]) /\ calls[c][i] = "running"
      BY <1>4, <1>t, <2>3, LenProperties DEF ToolReturns, TypeOK
    <3>3. task[c] = "gathering" \/ SomeCall(c, "raised")
      BY <3>2 DEF ToolsAwaited, SomeCall
    <3>4. SomeCall(c, "raised") => SomeCall(c, "raised")'
      <4> SUFFICES ASSUME NEW k \in 1 .. Len(calls[c]), calls[c][k] = "raised"
                   PROVE  SomeCall(c, "raised")'
        BY DEF SomeCall
      <4>1. Len(calls'[c]) = Len(calls[c]) /\ calls'[c][k] = "raised"
        BY <3>1, <3>2
      <4> QED
        BY <4>1 DEF SomeCall
    <3> QED
      BY <2>1, <3>3, <3>4
  <2> QED
    BY <2>2, <2>3
<1>5. ASSUME NEW d \in Convs, FirstSubmit(d) \/ Resubmit(d)
      PROVE  (task[c] = "gathering" \/ SomeCall(c, "raised"))'
  <2>1. UNCHANGED calls /\ task[d] = "created" /\ task' = [task EXCEPT ![d] = "posted"]
    BY <1>5 DEF FirstSubmit, Resubmit, Posts
  <2> QED
    BY <1>1, <1>t, <2>1 DEF TypeOK
<1>6. ASSUME NEW d \in Convs, TaskDies(d) \/ CompletionFails(d) \/ CompletionEnds(d)
      PROVE  (task[c] = "gathering" \/ SomeCall(c, "raised"))'
  <2>1. UNCHANGED calls /\ task[d] # "gathering" /\ task' = [task EXCEPT ![d] = "none"]
    BY <1>6 DEF TaskDies, CompletionFails, CompletionEnds, Answered
  <2> QED
    BY <1>1, <1>t, <2>1 DEF TypeOK
<1>7. ASSUME NEW d \in Convs, CompletionCallsTools(d)
      PROVE  (task[c] = "gathering" \/ SomeCall(c, "raised"))'
  <2>1. d = c => task'[c] = "gathering"
    BY <1>7, <1>t DEF CompletionCallsTools, TypeOK
  <2>2. d # c => calls'[c] = calls[c] /\ task'[c] = task[c]
    BY <1>7, <1>t DEF CompletionCallsTools, TypeOK
  <2> QED
    BY <1>1, <2>1, <2>2
\* A conversation that goes on, or ends after all have returned, has no calls left.
<1>8. ASSUME NEW d \in Convs, ToolsFailed(d) \/ ToolsAnswered(d)
      PROVE  (task[c] = "gathering" \/ SomeCall(c, "raised"))'
  <2>1. d # c => calls'[c] = calls[c] /\ task'[c] = task[c]
    BY <1>8, <1>t DEF ToolsFailed, ToolsAnswered, TypeOK
  <2>2. d = c => calls'[c] = <<>>
    BY <1>8, <1>t DEF ToolsFailed, ToolsAnswered, TypeOK
  <2>3. d # c
    <3>1. calls'[c] = <<>> => Len(calls'[c]) = 0
      BY EmptySeq
    <3> QED
      BY <2>2, <3>1 DEF SomeCall
  <2> QED
    BY <1>1, <2>1, <2>3
\* One that gives up has raised.
<1>9. ASSUME NEW d \in Convs, ToolRaised(d)
      PROVE  (task[c] = "gathering" \/ SomeCall(c, "raised"))'
  <2>1. UNCHANGED calls /\ (d # c => task'[c] = task[c])
    BY <1>9, <1>t DEF ToolRaised, TypeOK
  <2>2. d = c => SomeCall(c, "raised")
    BY <1>9 DEF ToolRaised
  <2> QED
    BY <1>1, <2>1, <2>2 DEF SomeCall
<1>10. CASE UNCHANGED vars
  BY <1>1, <1>10 DEF vars, conv
<1> QED
  BY <1>2, <1>3, <1>4, <1>5, <1>6, <1>7, <1>8, <1>9, <1>10 DEF Next, ConvStep

\* For every number of conversations, servers and calls: a tool still running has a
\* conversation that awaits it, or another call of the same message has raised.
THEOREM Awaited == Spec => []ToolsAwaited
<1>1. Init => ToolsAwaited
  BY EmptySeq DEF Init, ToolsAwaited, SomeCall
<1> QED
  BY <1>1, AwaitedStep, LifeCorrect, PTL DEF Spec

================================================================================
