----------------------------- MODULE SGLangRollout -----------------------------
(***************************************************************************)
(* The multi-turn rollout of SGLangRollout                                 *)
(* (verl/workers/rollout/sglang_rollout/sglang_rollout.py) on the master   *)
(* tensor-parallel rank: generate_sequences runs one coroutine per request *)
(* on one event loop.  All of them write the one dictionary of sampling    *)
(* parameters, each around its own call of the engine.                     *)
(*                                                                         *)
(* An action is what a coroutine runs between two awaits.  The engine and  *)
(* the tools are external: the engine reads the parameters when it is      *)
(* called, and answers in any order.                                       *)
(*                                                                         *)
(* Abstractions.  A token is the part of the conversation it belongs to;   *)
(* tokens of assistant messages are those with loss mask 1.  temperature,  *)
(* top_p, top_k and the other keys that the modes of a call set together   *)
(* are one key, "decoding", its value the name of who set it.  The         *)
(* generation prompt is one token.  What the request does between its last *)
(* await in the loop and its tools' release is one step.  Left out: the    *)
(* variant that applies the inference chat template anew for every prompt, *)
(* and chat_completion.                                                    *)
(***************************************************************************)
EXTENDS Integers, Sequences, FiniteSets

CONSTANTS
    Requests,       \* the requests of a call
    NumCalls,       \* bound: how often generate_sequences is called
    Modes,          \* the calls there are: "train", "validate" (sampled), "greedy" (not do_sample)
    PromptLens,     \* how long a prompt may be, without the generation prompt
    AnswerLens,     \* how many tokens the engine may generate, if it has room for them
    ToolLens,       \* how many tokens the responses of one message's tools may have
    CloseLen,       \* the tokens the chat template puts at the end of a message
    ConfiguredN,    \* rollout.n
    MaxTurns,       \* multi_turn.max_turns
    MaxModelLen,    \* max_model_len
    PromptLength,   \* prompt_length
    ResponseLength  \* response_length

ModeNames == {"train", "validate", "greedy"}
Kinds     == {"prompt", "gen", "assistant", "tool"}
States    == {"pending", "running", "tool_calling", "completed"}
Reasons   == {"none", "stop", "length", "tool_calls"}
Keys      == {"n", "max_new_tokens", "decoding"}
Nobody    == [k \in {} |-> 0]

ASSUME SizeAssumption ==
    /\ PromptLens \subseteq Nat \ {0}
    /\ AnswerLens \subseteq Nat \ {0}
    /\ ToolLens \subseteq Nat
    /\ NumCalls \in Nat
    /\ CloseLen \in Nat
    /\ ConfiguredN \in Nat \ {0}
    /\ MaxTurns \in Nat \ {0}
    /\ MaxModelLen \in Nat
    /\ PromptLength \in Nat \ {0}
    /\ ResponseLength \in Nat \ {0}
ASSUME ModeAssumption == Modes \subseteq ModeNames
ASSUME VerifiedConfig == MaxModelLen >= PromptLength + ResponseLength

VARIABLES
    phase,    \* "idle": between two calls; "rolling"; "failed": generate_sequences raised
    called,   \* the modes of the calls so far
    params,   \* self.sampling_params
    overlap,  \* history: two with blocks have been open at the same time
    saved,    \* saved[r]: old_sampling_params_args of r's with block
    asked,    \* asked[r]: the parameters with which the engine works for r, or Nobody
    state,    \* state[r]: _req.state
    ids,      \* ids[r]: the kinds of _req.input_ids
    prompt,   \* prompt[r]: len(_req.prompt_ids)
    turns,    \* turns[r]: current_turns
    reason,   \* reason[r]: finish_reason_type
    left,     \* left[r]: r has left the loop by a break
    response  \* response[r]: the kinds of _req.response_ids

sampling == <<params, overlap, saved, asked>>
request  == <<state, ids, prompt, turns, reason, left, response>>
vars     == <<phase, called, sampling, request>>

Mode == called[Len(called)]

\* The most tokens a finished request keeps: its own max_model_len.
KeptLen == IF MaxModelLen <= PromptLength + ResponseLength
           THEN MaxModelLen
           ELSE PromptLength + ResponseLength

Configured ==
    [k \in Keys |-> CASE k = "n" -> ConfiguredN
                      [] k = "max_new_tokens" -> ResponseLength
                      [] k = "decoding" -> "config"]

Init ==
    /\ phase = "idle"
    /\ called = <<>>
    /\ params = Configured
    /\ overlap = FALSE
    /\ saved = [r \in Requests |-> Nobody]
    /\ asked = [r \in Requests |-> Nobody]
    /\ state = [r \in Requests |-> "completed"]
    /\ ids = [r \in Requests |-> <<>>]
    /\ prompt = [r \in Requests |-> 0]
    /\ turns = [r \in Requests |-> 0]
    /\ reason = [r \in Requests |-> "none"]
    /\ left = [r \in Requests |-> FALSE]
    /\ response = [r \in Requests |-> <<>>]

--------------------------------------------------------------------------------
(* _req_level_generate_sequences *)

Repeat(kind, n) == [i \in 1 .. n |-> kind]

\* A prompt ends with a generation prompt from the start.
StartCall ==
    /\ phase = "idle"
    /\ Len(called) < NumCalls
    /\ phase' = "rolling"
    /\ \E m \in Modes : called' = Append(called, m)
    /\ \E lens \in [Requests -> PromptLens] :
        /\ ids' = [r \in Requests |-> Append(Repeat("prompt", lens[r]), "gen")]
        /\ prompt' = [r \in Requests |-> lens[r] + 1]
    /\ state' = [r \in Requests |-> "pending"]
    /\ turns' = [r \in Requests |-> 0]
    /\ reason' = [r \in Requests |-> "none"]
    /\ left' = [r \in Requests |-> FALSE]
    /\ response' = [r \in Requests |-> <<>>]
    /\ UNCHANGED sampling

\* gather has every request; each must be completed and fit the model.
CallReturns ==
    /\ phase = "rolling"
    /\ \A r \in Requests : state[r] = "completed"
    /\ phase' = IF \A r \in Requests : Len(ids[r]) <= MaxModelLen THEN "idle" ELSE "failed"
    /\ UNCHANGED <<called, sampling, request>>

--------------------------------------------------------------------------------
(* update_sampling_params, around the call of the engine *)

\* The dictionary d with the values of new for those of its keys that new has.
Update(d, new) == [k \in DOMAIN d |-> IF k \in DOMAIN new THEN new[k] ELSE d[k]]

\* Mutant: training sets the decoding it finds in the configuration too.
Overrides_TrainSetsDecoding(m, budget) ==
    [k \in Keys
     |-> CASE k = "n" -> 1 [] k = "max_new_tokens" -> budget [] k = "decoding" -> m]

\* The keyword arguments of _handle_engine_call, by the mode of the call.
Overrides(m, budget) ==
    [k \in IF m = "train" THEN {"n", "max_new_tokens"} ELSE Keys
     |-> CASE k = "n" -> 1 [] k = "max_new_tokens" -> budget [] k = "decoding" -> m]

InBlock(r) == asked[r] # Nobody

Enter(r, new) ==
    /\ saved' = [saved EXCEPT ![r] = [k \in DOMAIN new |-> params[k]]]
    /\ params' = Update(params, new)
    /\ asked' = [asked EXCEPT ![r] = Update(params, new)]
    /\ overlap' = (overlap \/ \E q \in Requests : InBlock(q))

Exit(r) ==
    /\ params' = Update(params, saved[r])
    /\ saved' = [saved EXCEPT ![r] = Nobody]
    /\ asked' = [asked EXCEPT ![r] = Nobody]
    /\ UNCHANGED overlap

--------------------------------------------------------------------------------
(* _async_rollout_a_request *)

Looping(r) == phase = "rolling" /\ ~left[r] /\ turns[r] < MaxTurns

\* _handle_pending_state is over: every tool of the request has been created.
ToolsCreated(r) ==
    /\ Looping(r)
    /\ state[r] = "pending"
    /\ state' = [state EXCEPT ![r] = "running"]
    /\ UNCHANGED <<phase, called, sampling, ids, prompt, turns, reason, left, response>>

\* Mutant: the generation prompt is added whether or not it is there.
WithGen_Again(s) == Append(s, "gen")

\* get_generation_prompt_ids: input_ids, with a generation prompt at its end.
WithGen(s) == IF s[Len(s)] = "gen" THEN s ELSE Append(s, "gen")

\* No room for a token and the end of the sequence.
TooLong(s) == Len(s) + 1 >= MaxModelLen

\* Mutant: the room left in the model is not looked at.
Budget_ResponseLength(s) == ResponseLength

Budget(s) ==
    IF ResponseLength <= MaxModelLen - Len(s) - 1
    THEN ResponseLength
    ELSE MaxModelLen - Len(s) - 1

PromptTooLong(r) ==
    /\ Looping(r)
    /\ state[r] = "running" /\ ~InBlock(r)
    /\ TooLong(WithGen(ids[r]))
    /\ ids' = [ids EXCEPT ![r] = WithGen(@)]
    /\ reason' = [reason EXCEPT ![r] = "length"]
    /\ left' = [left EXCEPT ![r] = TRUE]
    /\ UNCHANGED <<phase, called, sampling, state, prompt, turns, response>>

CallEngine(r) ==
    /\ Looping(r)
    /\ state[r] = "running" /\ ~InBlock(r)
    /\ ~TooLong(WithGen(ids[r]))
    /\ ids' = [ids EXCEPT ![r] = WithGen(@)]
    /\ Enter(r, Overrides(Mode, Budget(WithGen(ids[r]))))
    /\ UNCHANGED <<phase, called, state, prompt, turns, reason, left, response>>

\* The engine answers with n tokens, which become an assistant message.
Answered(r, n) ==
    /\ phase = "rolling"
    /\ InBlock(r)
    /\ n <= asked[r]["max_new_tokens"]
    /\ Exit(r)
    /\ turns' = [turns EXCEPT ![r] = @ + 1]
    /\ ids' = [ids EXCEPT ![r] = @ \o Repeat("assistant", n + CloseLen)]
    /\ UNCHANGED <<phase, called, prompt, response>>

\* The answer was cut off: its tool calls, if any, are not looked at.
AnswerCutOff(r) ==
    /\ \E n \in AnswerLens : Answered(r, n) /\ n = asked[r]["max_new_tokens"]
    /\ reason' = [reason EXCEPT ![r] = "length"]
    /\ left' = [left EXCEPT ![r] = TRUE]
    /\ UNCHANGED state

\* The answer has no tool call, or none that can be parsed (the code then calls the
\* request completed a step early, which nothing looks at).
AnswerEnds(r) ==
    /\ \E n \in AnswerLens : Answered(r, n)
    /\ reason' = [reason EXCEPT ![r] = "stop"]
    /\ left' = [left EXCEPT ![r] = TRUE]
    /\ UNCHANGED state

AnswerCallsTools(r) ==
    /\ \E n \in AnswerLens : Answered(r, n)
    /\ reason' = [reason EXCEPT ![r] = "tool_calls"]
    /\ state' = [state EXCEPT ![r] = "tool_calling"]
    /\ UNCHANGED left

\* Every tool the message calls has answered; the responses are tool messages.
ToolsAnswered(r) ==
    /\ Looping(r)
    /\ state[r] = "tool_calling"
    /\ \E n \in ToolLens :
        LET longer == ids[r] \o Repeat("tool", n) IN
        /\ ids' = [ids EXCEPT ![r] = longer]
        /\ IF Len(longer) >= MaxModelLen
           THEN /\ reason' = [reason EXCEPT ![r] = "stop"]
                /\ left' = [left EXCEPT ![r] = TRUE]
                /\ UNCHANGED state
           ELSE /\ state' = [state EXCEPT ![r] = "running"]
                /\ UNCHANGED <<reason, left>>
    /\ UNCHANGED <<phase, called, sampling, prompt, turns, response>>

\* The engine, or a tool asked to create, execute, reward or release, raises, and
\* gather with it: generate_sequences is over.
Raises(r) ==
    /\ phase = "rolling"
    /\ phase' = "failed"
    /\ \/ /\ InBlock(r)
          /\ Exit(r)
       \/ /\ ~InBlock(r)
          /\ state[r] \in {"pending", "tool_calling"} \/ (state[r] = "running" /\ ~Looping(r))
          /\ UNCHANGED sampling
    /\ UNCHANGED <<called, request>>

--------------------------------------------------------------------------------
(* after the loop *)

\* Using up the turns is a reason to stop.
FinalReason(r) == IF turns[r] >= MaxTurns THEN "stop" ELSE reason[r]

\* A generation prompt that was never answered goes.
WithoutGen(s) == IF s[Len(s)] = "gen" THEN SubSeq(s, 1, Len(s) - 1) ELSE s

FirstOf(s, n) == SubSeq(s, 1, IF n <= Len(s) THEN n ELSE Len(s))
After(s, n)   == SubSeq(s, n + 1, Len(s))

\* The tools give their rewards and are released; finalize and truncate_output_ids,
\* or the error finalize raises at a reason it does not know.
Finalize(r) ==
    /\ phase = "rolling"
    /\ state[r] # "completed" /\ ~InBlock(r)
    /\ ~Looping(r)
    /\ state' = [state EXCEPT ![r] = "completed"]
    /\ reason' = [reason EXCEPT ![r] = FinalReason(r)]
    /\ IF FinalReason(r) \in {"stop", "length"}
       THEN LET kept == FirstOf(WithoutGen(ids[r]), KeptLen) IN
            /\ ids' = [ids EXCEPT ![r] = kept]
            /\ response' = [response EXCEPT ![r] = FirstOf(After(kept, prompt[r]), ResponseLength)]
            /\ UNCHANGED phase
       ELSE /\ phase' = "failed"
            /\ UNCHANGED <<ids, response>>
    /\ UNCHANGED <<called, sampling, prompt, turns, left>>

RequestStep(r) ==
    \/ ToolsCreated(r) \/ PromptTooLong(r) \/ CallEngine(r)
    \/ AnswerCutOff(r) \/ AnswerEnds(r) \/ AnswerCallsTools(r)
    \/ ToolsAnswered(r) \/ Raises(r) \/ Finalize(r)

Next == StartCall \/ CallReturns \/ \E r \in Requests : RequestStep(r)

Spec == Init /\ [][Next]_vars

--------------------------------------------------------------------------------
(* Properties *)

Dictionaries ==
    [n : Nat, max_new_tokens : Nat, decoding : ModeNames \union {"config"}]

\* The type invariant of the shared parameters and of the requests.
TypeOK ==
    /\ phase \in {"idle", "rolling", "failed"}
    /\ called \in Seq(Modes)
    /\ params \in Dictionaries
    /\ overlap \in BOOLEAN
    /\ DOMAIN saved = Requests
    /\ asked \in [Requests -> Dictionaries \union {Nobody}]
    /\ state \in [Requests -> States]
    /\ ids \in [Requests -> Seq(Kinds)]
    /\ prompt \in [Requests -> Nat]
    /\ turns \in [Requests -> 0 .. MaxTurns]
    /\ reason \in [Requests -> Reasons]
    /\ left \in [Requests -> BOOLEAN]
    /\ response \in [Requests -> Seq(Kinds)]

\* "SGLang raises an error when max_new_tokens + 1 is greater to max_model_len": the
\* prompt of a call, what it asks for and the end of the sequence fit the model, and
\* it asks for something, whatever the other requests wrote to the parameters.
EngineFits ==
    \A r \in Requests : InBlock(r) =>
        /\ asked[r]["max_new_tokens"] >= 1
        /\ Len(ids[r]) + asked[r]["max_new_tokens"] + 1 <= MaxModelLen

\* Every completion of a validation or a greedy call is sampled that way, and there
\* is one per request, whatever earlier calls left in the parameters.
SampledAsAsked ==
    \A r \in Requests : InBlock(r) =>
        /\ asked[r]["n"] = 1
        /\ Mode # "train" => asked[r]["decoding"] = Mode

\* As long as all calls were training calls, they sample as configured: what their
\* overlapping with blocks leave behind is never the decoding.
TrainsAsConfigured ==
    (\A i \in 1 .. Len(called) : called[i] = "train") =>
        \A r \in Requests : InBlock(r) => asked[r]["decoding"] = "config"

\* If no two with blocks were ever open at the same time, the parameters are the
\* configured ones whenever none is.
RestoredIfAlone ==
    ~overlap /\ (\A r \in Requests : ~InBlock(r)) => params = Configured

\* finalize knows the reason of every request: a request that leaves the loop after
\* a tool call has used up its turns.
ReasonKnown ==
    \A r \in Requests : state[r] = "completed" => reason[r] # "tool_calls"

\* Turn by turn: the tokens to train on follow a generation prompt, every generation
\* prompt is followed by them unless its turn is still to come or was cut off by the
\* final truncation, and what is kept as the response starts with them.
TurnByTurn ==
    \A r \in Requests :
        /\ \A i \in 1 .. Len(ids[r]) - 1 :
            /\ ids[r][i] = "gen" => ids[r][i + 1] = "assistant"
            /\ ids[r][i + 1] = "assistant" => ids[r][i] \in {"gen", "assistant"}
        /\ (state[r] = "completed" /\ ids[r] # <<>> /\ ids[r][Len(ids[r])] = "gen")
            => Len(ids[r]) = KeptLen
        /\ response[r] # <<>> => response[r][1] = "assistant"

\* "Parameters are automatically fall back to their original values upon exiting the
\* block": when no with block is open, the decoding is the configured one.
DecodingRestored ==
    (\A r \in Requests : ~InBlock(r)) => params["decoding"] = "config"

================================================================================
