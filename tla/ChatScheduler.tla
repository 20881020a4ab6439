----------------------------- MODULE ChatScheduler -----------------------------
(***************************************************************************)
(* ChatCompletionScheduler and ToolCompletionCallback                      *)
(* (verl/workers/rollout/chat_scheduler.py): one asyncio loop rolls out    *)
(* every conversation of a batch through several OpenAI-compatible         *)
(* servers, calling tools between two completions.                         *)
(*                                                                         *)
(* An action is what a task runs between two awaits.  The servers and the  *)
(* tools are external: they answer in any order, with any outcome.         *)
(*                                                                         *)
(* Abstractions.  A conversation is its sequence of roles.  Its request    *)
(* ids (a fresh one per request, each used to look up the one before) are  *)
(* the conversation itself: it has one request at a time.  Addresses are   *)
(* numbers in the order the heap compares them.  create, execute and       *)
(* release of one tool call share nothing with the scheduler and are one   *)
(* step.  Tokenising the result is left out, except for the assertion that *)
(* every conversation has a response.                                      *)
(***************************************************************************)
EXTENDS Naturals, Sequences, FiniteSets

CONSTANTS
    Convs,      \* the conversations of all batches, a prompt repeated n times being n
    NumBatches, \* bound: how often generate_sequences is called
    BatchOf,    \* BatchOf[c]: the call conversation c is part of
    NumServers, \* len(server_addresses)
    MaxCache,   \* max_cache_size
    MaxTurns,   \* multi_turn.max_turns, 0 for null
    MaxCalls,   \* bound: tool calls of one message
    MaxContext  \* the messages beyond which a server rejects the request

Servers    == 1 .. NumServers
NoServer   == 0
RoleNames  == {"user", "assistant", "tool"}
Prompt     == <<"user">>
TaskStates == {"none", "created", "posted", "gathering"}
CallStates == {"running", "response", "error", "raised"}
Entries    == [conv : Convs, server : Servers]

ASSUME ConvAssumption ==
    /\ IsFiniteSet(Convs)
    /\ NumBatches \in Nat
    /\ BatchOf \in [Convs -> 1 .. NumBatches]
ASSUME CountAssumption ==
    /\ NumServers \in Nat \ {0}
    /\ MaxCache \in Nat \ {0}
    /\ MaxTurns \in Nat
    /\ MaxCalls \in Nat \ {0}
    /\ MaxContext \in Nat

VARIABLES
    phase,      \* "idle": between two calls; "rolling"; "failed": generate_sequences raised
    batch,      \* how many calls have been made
    load,       \* load[s]: the weight of s in weighted_addresses
    cache,      \* request_id_to_address, the least recently used entry first
    messages,   \* messages[c]
    task,       \* task[c]: where the background task of c's request is
    depth,      \* depth[c]: info["__depth__"]
    done,       \* done[c]: info["__done__"] is set
    at,         \* at[c]: the address c's requests went to, NoServer before the first
    calls       \* calls[c]: the tool calls of c's last message, in any state

conv == <<messages, task, depth, done, at, calls>>
vars == <<phase, batch, load, cache, conv>>

Current(c) == BatchOf[c] = batch

Init ==
    /\ phase = "idle"
    /\ batch = 0
    /\ load = [s \in Servers |-> 0]
    /\ cache = <<>>
    /\ messages = [c \in Convs |-> Prompt]
    /\ task = [c \in Convs |-> "none"]
    /\ depth = [c \in Convs |-> 0]
    /\ done = [c \in Convs |-> FALSE]
    /\ at = [c \in Convs |-> NoServer]
    /\ calls = [c \in Convs |-> <<>>]

--------------------------------------------------------------------------------
(* generate_sequences *)

\* One submit_chat_completions per conversation of the batch.
StartBatch ==
    /\ phase = "idle"
    /\ batch < NumBatches
    /\ phase' = "rolling"
    /\ batch' = batch + 1
    /\ task' = [c \in Convs |-> IF BatchOf[c] = batch + 1 THEN "created" ELSE task[c]]
    /\ depth' = [c \in Convs |-> IF BatchOf[c] = batch + 1 THEN depth[c] + 1 ELSE depth[c]]
    /\ UNCHANGED <<load, cache, messages, done, at, calls>>

HasResponse(c) == messages[c] # Prompt

\* gather has every conversation's event; postprocess asserts a response of each.
ReturnBatch ==
    /\ phase = "rolling"
    /\ \A c \in Convs : Current(c) => done[c]
    /\ phase' = IF \A c \in Convs : Current(c) => HasResponse(c) THEN "idle" ELSE "failed"
    /\ UNCHANGED <<batch, load, cache, conv>>

--------------------------------------------------------------------------------
(* _submit_chat_completions_and_callback, up to the request *)

\* Mutant: the heap is never put in order again.
Least_NeverReplaced(s) == s = 1

\* The head of the heap of [weight, address] pairs.
Least(s) == \A t \in Servers : load[s] < load[t] \/ (load[s] = load[t] /\ s <= t)

\* Mutant: the most recently used entry makes room.
Insert_EvictsNewest(seq, c, s) ==
    Append(IF Len(seq) >= MaxCache THEN SubSeq(seq, 1, Len(seq) - 1) ELSE seq,
           [conv |-> c, server |-> s])

\* LRUCache.__setitem__ of a new key: the least recently used entry makes room.
Insert(seq, c, s) ==
    Append(IF Len(seq) >= MaxCache THEN Tail(seq) ELSE seq, [conv |-> c, server |-> s])

\* LRUCache.pop of the i-th entry.
Pop(seq, i) == [j \in 1 .. Len(seq) - 1 |-> IF j < i THEN seq[j] ELSE seq[j + 1]]

Posts(c, s) ==
    /\ task' = [task EXCEPT ![c] = "posted"]
    /\ at' = [at EXCEPT ![c] = s]

\* request_id is None.
FirstSubmit(c) ==
    /\ task[c] = "created"
    /\ ~HasResponse(c)
    /\ \E s \in Servers :
        /\ Least(s)
        /\ load' = [load EXCEPT ![s] = @ + 1]
        /\ cache' = Insert(cache, c, s)
        /\ Posts(c, s)
    /\ UNCHANGED <<phase, batch, messages, depth, done, calls>>

\* request_id is that of the request before: the same server gets this one.
Resubmit(c) ==
    /\ task[c] = "created"
    /\ HasResponse(c)
    /\ \E i \in 1 .. Len(cache) :
        /\ cache[i].conv = c
        /\ cache' = Insert(Pop(cache, i), c, cache[i].server)
        /\ Posts(c, cache[i].server)
    /\ UNCHANGED <<phase, batch, load, messages, depth, done, calls>>

\* The assertion on the request id fails outside of any try: the task is gone.
TaskDies(c) ==
    /\ task[c] = "created"
    /\ HasResponse(c)
    /\ \A i \in 1 .. Len(cache) : cache[i].conv # c
    /\ task' = [task EXCEPT ![c] = "none"]
    /\ UNCHANGED <<phase, batch, load, cache, messages, depth, done, at, calls>>

--------------------------------------------------------------------------------
(* the rest of it, and ToolCompletionCallback.__call__ *)

\* Mutant: the event is set without a look at the depth.
SetsDone_AnyDepth(c) == done' = [done EXCEPT ![c] = TRUE]

\* Once the callback is over: no more ongoing completion requests.
SetsDone(c) == done' = [done EXCEPT ![c] = @ \/ depth'[c] = 0]

\* Mutant: the depth is only counted down after a success.
CompletionFails_StillCounted(c) ==
    /\ task[c] = "posted"
    /\ depth' = depth
    /\ task' = [task EXCEPT ![c] = "none"]
    /\ SetsDone(c)
    /\ UNCHANGED <<phase, batch, load, cache, messages, at, calls>>

\* The request fails, or its answer is not a ChatCompletion.
CompletionFails(c) ==
    /\ task[c] = "posted"
    /\ depth' = [depth EXCEPT ![c] = @ - 1]
    /\ task' = [task EXCEPT ![c] = "none"]
    /\ SetsDone(c)
    /\ UNCHANGED <<phase, batch, load, cache, messages, at, calls>>

Answered(c) ==
    /\ task[c] = "posted"
    /\ Len(messages[c]) < MaxContext
    /\ depth' = [depth EXCEPT ![c] = @ - 1]
    /\ messages' = [messages EXCEPT ![c] = Append(@, "assistant")]
    /\ UNCHANGED <<phase, batch, load, cache, at>>

\* Mutant: the answer itself is not counted.
ReachesMaxTurns_BeforeAnswer(c) == MaxTurns > 0 /\ Len(messages[c]) > MaxTurns

\* With the answer, the conversation reaches max_turns messages.
ReachesMaxTurns(c) == MaxTurns > 0 /\ Len(messages[c]) + 1 >= MaxTurns

\* The answer is the last one: it calls no tool, or max_turns is reached.
CompletionEnds(c) ==
    /\ Answered(c)
    /\ task' = [task EXCEPT ![c] = "none"]
    /\ SetsDone(c)
    /\ UNCHANGED calls

\* The answer calls n tools, and the callback awaits them.
CompletionCallsTools(c) ==
    /\ Answered(c)
    /\ ~ReachesMaxTurns(c)
    /\ \E n \in 1 .. MaxCalls : calls' = [calls EXCEPT ![c] = [i \in 1 .. n |-> "running"]]
    /\ task' = [task EXCEPT ![c] = "gathering"]
    /\ UNCHANGED done

\* _call_tool: a response; the exception execute raised, as a value; or it raises
\* (arguments that are no JSON, an unknown tool, create or release).
ToolReturns(c, i) ==
    /\ i \in 1 .. Len(calls[c])
    /\ calls[c][i] = "running"
    /\ \E r \in CallStates \ {"running"} :
        calls' = [calls EXCEPT ![c] = [j \in 1 .. Len(@) |-> IF j = i THEN r ELSE @[j]]]
    /\ UNCHANGED <<phase, batch, load, cache, messages, task, depth, done, at>>

SomeCall(c, state) == \E i \in 1 .. Len(calls[c]) : calls[c][i] = state

AllReturned(c) == ~SomeCall(c, "running") /\ ~SomeCall(c, "raised")

\* Mutant: the first exception among the values ends the conversation.
ToolsFailed_AtOnce(c) ==
    /\ task[c] = "gathering"
    /\ SomeCall(c, "error")
    /\ task' = [task EXCEPT ![c] = "none"]
    /\ UNCHANGED depth
    /\ SetsDone(c)
    /\ UNCHANGED <<phase, batch, load, cache, messages, at, calls>>

\* One of the values is an exception: the conversation ends.
ToolsFailed(c) ==
    /\ task[c] = "gathering"
    /\ AllReturned(c)
    /\ SomeCall(c, "error")
    /\ calls' = [calls EXCEPT ![c] = <<>>]
    /\ task' = [task EXCEPT ![c] = "none"]
    /\ UNCHANGED depth
    /\ SetsDone(c)
    /\ UNCHANGED <<phase, batch, load, cache, messages, at>>

\* The responses are appended and the conversation is submitted again, before
\* this task looks at the depth.
ToolsAnswered(c) ==
    /\ task[c] = "gathering"
    /\ AllReturned(c)
    /\ ~SomeCall(c, "error")
    /\ messages' = [messages EXCEPT ![c] = @ \o [i \in 1 .. Len(calls[c]) |-> "tool"]]
    /\ calls' = [calls EXCEPT ![c] = <<>>]
    /\ depth' = [depth EXCEPT ![c] = @ + 1]
    /\ task' = [task EXCEPT ![c] = "created"]
    /\ SetsDone(c)
    /\ UNCHANGED <<phase, batch, load, cache, at>>

\* gather raises the first exception without waiting for the other calls, which go
\* on; the exception is logged and the conversation ends.
ToolRaised(c) ==
    /\ task[c] = "gathering"
    /\ SomeCall(c, "raised")
    /\ task' = [task EXCEPT ![c] = "none"]
    /\ UNCHANGED depth
    /\ SetsDone(c)
    /\ UNCHANGED <<phase, batch, load, cache, messages, at, calls>>

--------------------------------------------------------------------------------

ConvStep(c) ==
    \/ FirstSubmit(c) \/ Resubmit(c) \/ TaskDies(c)
    \/ CompletionFails(c) \/ CompletionEnds(c) \/ CompletionCallsTools(c)
    \/ ToolsFailed(c) \/ ToolsAnswered(c) \/ ToolRaised(c)

Next ==
    \/ StartBatch
    \/ ReturnBatch
    \/ \E c \in Convs : ConvStep(c) \/ \E i \in 1 .. MaxCalls : ToolReturns(c, i)

Spec == Init /\ [][Next]_vars

\* The loop runs every ready task, a server answers every request one way or the
\* other, and every tool call comes back.
FairSpec ==
    /\ Spec
    /\ WF_vars(ReturnBatch)
    /\ \A c \in Convs : WF_vars(ConvStep(c))
    /\ \A c \in Convs, i \in 1 .. MaxCalls : WF_vars(ToolReturns(c, i))

--------------------------------------------------------------------------------
(* Properties *)

\* The type invariant of the scheduler, its heap and cache, and the conversations.
TypeOK ==
    /\ phase \in {"idle", "rolling", "failed"}
    /\ batch \in 0 .. NumBatches
    /\ load \in [Servers -> Nat]
    /\ cache \in Seq(Entries)
    /\ Len(cache) <= MaxCache
    /\ messages \in [Convs -> Seq(RoleNames)]
    /\ task \in [Convs -> TaskStates]
    /\ depth \in [Convs -> Nat]
    /\ done \in [Convs -> BOOLEAN]
    /\ at \in [Convs -> Servers \union {NoServer}]
    /\ calls \in [Convs -> Seq(CallStates)]

\* The assertion of _submit_chat_completions_and_callback: a conversation that is
\* submitted again finds its last request in the cache, however many requests of
\* this and of earlier batches have been put there since.
RequestKnown ==
    \A c \in Convs : (task[c] = "created" /\ HasResponse(c)) =>
        \E i \in 1 .. Len(cache) : cache[i].conv = c

\* The conversations of one batch assigned to server s.
Assigned(b, s) == Cardinality({c \in Convs : BatchOf[c] = b /\ at[c] = s})

\* Every batch is spread evenly over the servers, whatever the batches before left
\* in the heap: no server gets two conversations more than another.
BatchBalanced ==
    \A b \in 1 .. NumBatches, s, t \in Servers : Assigned(b, s) <= Assigned(b, t) + 1

\* Every request of a conversation goes to the server of its first one, the one
\* that holds its prefix, across evictions, failures and other batches.
StickyServer == [][\A c \in Convs : at[c] # NoServer => at'[c] = at[c]]_vars

\* A tool is running only while its conversation waits for it, or after another
\* call of the same message has raised.
ToolsAwaited ==
    \A c \in Convs : SomeCall(c, "running") => task[c] = "gathering" \/ SomeCall(c, "raised")

\* max_turns is looked at after an answer only: the responses to the calls of one
\* message, and one more answer, are all that can go past it.
TurnLimit ==
    MaxTurns > 1 => \A c \in Convs : Len(messages[c]) <= MaxTurns + MaxCalls

\* generate_sequences implements BatchRollout: it returns when every conversation
\* of the batch has ended, and none of them changes after that.
Rollout == INSTANCE BatchRollout WITH
    rolling <- phase = "rolling", transcript <- messages, ended <- done
ImplementsBatchRollout == Rollout!Spec

\* The task of c died: the cache had evicted the entry of the request it came back with.
Forgotten(c) ==
    /\ Current(c) /\ HasResponse(c)
    /\ task[c] = "none" /\ ~done[c]
    /\ \A i \in 1 .. Len(cache) : cache[i].conv # c

\* Every generate_sequences ends, with a result or an exception, whatever requests and
\* tools fail, unless a conversation has been forgotten; and then it waits for ever for
\* the event that nobody sets.
EndsUnlessForgotten ==
    /\ phase = "rolling" ~> (phase # "rolling" \/ \E c \in Convs : Forgotten(c))
    /\ \A c \in Convs : [](Forgotten(c) => [](phase = "rolling"))

================================================================================
