---------------------------- MODULE ToolExecution ----------------------------
(***************************************************************************)
(* The execution of tool calls (tools/search_tool.py,                      *)
(* tools/sandbox_fusion_tools.py).  A tool object owns an execution pool,  *)
(* a Ray actor with num_workers threads; a thread that runs a call asks    *)
(* one named actor, the "rate-limiter", for a token, calls the service,    *)
(* and sends the token back without waiting for the answer.                *)
(*                                                                         *)
(* The first pool to start creates the limiter with ITS rate limit; every  *)
(* later one, of whatever tool, finds it by its name.  The limiter is not  *)
(* detached: it dies with the pool that created it, so a limiter is named  *)
(* here by its creator.                                                    *)
(*                                                                         *)
(* Ray itself is external: a call to a dead actor raises, a call waiting   *)
(* at an actor that dies raises, a message of a dead actor may be lost.    *)
(***************************************************************************)
EXTENDS Naturals, Sequences, FiniteSets

CONSTANTS
    Pools,        \* execution pools, one per tool object
    Calls,        \* tool calls
    PoolOf,       \* the pool a call is sent to
    Sandbox,      \* the pools of SandboxFusionTool; the others are SearchTool's
    Limited,      \* the pools with enable_global_rate_limit
    RateLimit,    \* rate_limit of each tool's configuration
    NumWorkers,   \* num_workers of each tool's configuration
    MaxRetries,   \* MAX_RETRIES of the service clients
    MaxDeaths,    \* bound: how many pools die
    NoLimiter

ASSUME ToolAssumption ==
    /\ IsFiniteSet(Calls)
    /\ PoolOf \in [Calls -> Pools]
    /\ Sandbox \subseteq Pools /\ Limited \subseteq Pools
    /\ RateLimit \in [Pools -> Nat] /\ NumWorkers \in [Pools -> Nat \ {0}]
    /\ MaxRetries \in Nat \ {0} /\ MaxDeaths \in Nat
    /\ NoLimiter \notin Pools

VARIABLES
    pool,        \* "starting", "up" or "dead"
    name,        \* the limiter the name rate-limiter was last given to
    limiterOf,   \* rate_limit_worker of each pool
    sem,         \* _semaphore of each limiter
    acquiring,   \* the acquire calls at each limiter, handled one at a time
    releasing,   \* the calls whose release was sent and not handled yet
    status,      \* where each call is
    attempt      \* the attempts of each call at the service

toolVars == <<pool, name, limiterOf, sem, acquiring, releasing, status, attempt>>

Alive(q) == q \in Pools /\ pool[q] = "up"
Ended == {"text", "raised"}
Threads(p) == {c \in Calls : PoolOf[c] = p /\ status[c] \in {"acquiring", "running"}}

(* What a failing actor does to a call: SearchTool.execute turns every     *)
(* exception into a text for the model, SandboxFusionTool.execute raises.  *)
Failed(c) == IF PoolOf[c] \in Sandbox THEN "raised" ELSE "text"

ToolTypeOK ==
    /\ pool \in [Pools -> {"starting", "up", "dead"}]
    /\ name \in Pools \cup {NoLimiter}
    /\ limiterOf \in [Pools -> Pools \cup {NoLimiter}]
    /\ sem \in [Pools -> Nat]
    /\ acquiring \in [Pools -> Seq(Calls)]
    /\ releasing \subseteq Calls
    /\ status \in [Calls -> {"idle", "asked", "acquiring", "running"} \cup Ended]
    /\ attempt \in [Calls -> 0 .. MaxRetries]

(* Mutant: the limiter is not looked up by its name.                       *)
Limiter_Own(p) == p

ToolInit ==
    /\ pool = [p \in Pools |-> "starting"]
    /\ name = NoLimiter
    /\ limiterOf = [p \in Pools |-> NoLimiter]
    /\ sem = [p \in Pools |-> 0]
    /\ acquiring = [p \in Pools |-> <<>>]
    /\ releasing = {}
    /\ status = [c \in Calls |-> "idle"]
    /\ attempt = [c \in Calls |-> 0]
-----------------------------------------------------------------------------
(* The limiter a pool gets: the one that has the name, or a new one.       *)
Limiter(p) == IF Alive(name) THEN name ELSE p

StartPool(p) ==
    /\ pool[p] = "starting"
    /\ pool' = [pool EXCEPT ![p] = "up"]
    /\ IF p \in Limited
         THEN /\ limiterOf' = [limiterOf EXCEPT ![p] = Limiter(p)]
              /\ name' = Limiter(p)
              /\ sem' = IF Limiter(p) = p THEN [sem EXCEPT ![p] = RateLimit[p]] ELSE sem
         ELSE UNCHANGED <<limiterOf, name, sem>>
    /\ UNCHANGED <<acquiring, releasing, status, attempt>>

(* The caller sends a call to the pool, which queues it.                   *)
Ask(c) ==
    /\ status[c] = "idle"
    /\ status' = [status EXCEPT ![c] = IF pool[PoolOf[c]] = "dead" THEN Failed(c) ELSE "asked"]
    /\ UNCHANGED <<pool, name, limiterOf, sem, acquiring, releasing, attempt>>

(* Arguments the search tool does not understand never reach the pool.     *)
RejectQuery(c) ==
    /\ status[c] = "idle" /\ PoolOf[c] \notin Sandbox
    /\ status' = [status EXCEPT ![c] = "text"]
    /\ UNCHANGED <<pool, name, limiterOf, sem, acquiring, releasing, attempt>>

(* A free thread takes the call.  Without a limiter the search worker runs *)
(* it; the sandbox worker takes an attribute of None.                      *)
TakeUp(c) ==
    LET p == PoolOf[c]  q == limiterOf[p] IN
    /\ status[c] = "asked" /\ pool[p] = "up"
    /\ Cardinality(Threads(p)) < NumWorkers[p]
    /\ \/ /\ Alive(q)
          /\ acquiring' = [acquiring EXCEPT ![q] = Append(@, c)]
          /\ status' = [status EXCEPT ![c] = "acquiring"]
       \/ /\ q = NoLimiter /\ p \notin Sandbox
          /\ status' = [status EXCEPT ![c] = "running"]
          /\ UNCHANGED acquiring
       \/ /\ ~Alive(q) /\ (q = NoLimiter => p \in Sandbox)
          /\ status' = [status EXCEPT ![c] = Failed(c)]
          /\ UNCHANGED acquiring
    /\ UNCHANGED <<pool, name, limiterOf, sem, releasing, attempt>>

(* The one thread of the group "acquire" blocks in the semaphore for the   *)
(* first call in its queue.  A call whose pool died may still get a token, *)
(* which nobody will give back.                                            *)
Acquire(q) ==
    LET c == Head(acquiring[q]) IN
    /\ Alive(q) /\ acquiring[q] # <<>> /\ sem[q] > 0
    /\ sem' = [sem EXCEPT ![q] = @ - 1]
    /\ acquiring' = [acquiring EXCEPT ![q] = Tail(@)]
    /\ status' = IF status[c] = "acquiring" THEN [status EXCEPT ![c] = "running"] ELSE status
    /\ UNCHANGED <<pool, name, limiterOf, releasing, attempt>>

(* Or Ray drops the call of a dead pool before it is handled.              *)
DropStale(q) ==
    /\ Alive(q) /\ acquiring[q] # <<>> /\ status[Head(acquiring[q])] \in Ended
    /\ acquiring' = [acquiring EXCEPT ![q] = Tail(@)]
    /\ UNCHANGED <<pool, name, limiterOf, sem, releasing, status, attempt>>

(* The service is asked again after a gateway timeout (for the search      *)
(* client: any server error, lost connection or timeout), with the token.  *)
TryAgain(c) ==
    /\ status[c] = "running" /\ attempt[c] + 1 < MaxRetries
    /\ attempt' = [attempt EXCEPT ![c] = @ + 1]
    /\ UNCHANGED <<pool, name, limiterOf, sem, acquiring, releasing, status>>

(* Mutant: without the ExitStack, a call that raises keeps its token.      *)
Finish_KeepsToken(c) ==
    /\ status[c] = "running"
    /\ \E end \in {"text", Failed(c)} :
          /\ status' = [status EXCEPT ![c] = end]
          /\ releasing' = IF end = "text" /\ Alive(limiterOf[PoolOf[c]]) THEN releasing \cup {c} ELSE releasing
    /\ UNCHANGED <<pool, name, limiterOf, sem, acquiring, attempt>>

(* The call ends, with an answer or with the text of the last error; the   *)
(* function given to the sandbox may raise, which the pool answers with    *)
(* None and the tool cannot strip.  The release is sent, not awaited.      *)
Finish(c) ==
    /\ status[c] = "running"
    /\ \E end \in {"text", Failed(c)} : status' = [status EXCEPT ![c] = end]
    /\ releasing' = IF Alive(limiterOf[PoolOf[c]]) THEN releasing \cup {c} ELSE releasing
    /\ UNCHANGED <<pool, name, limiterOf, sem, acquiring, attempt>>

(* Mutant: releases wait in the group of the acquires.                     *)
Release_InOneGroup(c) ==
    LET q == limiterOf[PoolOf[c]] IN
    /\ c \in releasing /\ Alive(q) /\ acquiring[q] = <<>>
    /\ releasing' = releasing \ {c}
    /\ sem' = [sem EXCEPT ![q] = @ + 1]
    /\ UNCHANGED <<pool, name, limiterOf, acquiring, status, attempt>>

(* The group "release" has threads of its own.                             *)
Release(c) ==
    LET q == limiterOf[PoolOf[c]] IN
    /\ c \in releasing /\ Alive(q)
    /\ releasing' = releasing \ {c}
    /\ sem' = [sem EXCEPT ![q] = @ + 1]
    /\ UNCHANGED <<pool, name, limiterOf, acquiring, status, attempt>>

(* The process of a pool dies, and with it the limiter it created.  Its    *)
(* calls fail at the caller, tokens and all; so does every call waiting at *)
(* its limiter.  Some of its releases may never be delivered.              *)
Hit(p) == {c \in Calls : \/ PoolOf[c] = p /\ status[c] \in {"asked", "acquiring", "running"}
                         \/ limiterOf[PoolOf[c]] = p /\ status[c] = "acquiring"}

PoolDies(p) ==
    /\ pool[p] # "dead"
    /\ Cardinality({r \in Pools : pool[r] = "dead"}) < MaxDeaths
    /\ pool' = [pool EXCEPT ![p] = "dead"]
    /\ status' = [c \in Calls |-> IF c \in Hit(p) THEN Failed(c) ELSE status[c]]
    /\ acquiring' = [acquiring EXCEPT ![p] = <<>>]
    /\ \E lost \in SUBSET {c \in releasing : PoolOf[c] = p} : releasing' = releasing \ lost
    /\ UNCHANGED <<name, limiterOf, sem, attempt>>

ToolNext ==
    \/ \E p \in Pools : StartPool(p) \/ Acquire(p) \/ DropStale(p) \/ PoolDies(p)
    \/ \E c \in Calls : Ask(c) \/ RejectQuery(c) \/ TakeUp(c) \/ TryAgain(c) \/ Finish(c) \/ Release(c)

(* Threads and actors run on; every request to a service has a timeout and *)
(* the retries are counted, so a call that holds a token comes to an end.  *)
Fairness ==
    /\ \A p \in Pools : WF_toolVars(StartPool(p)) /\ WF_toolVars(Acquire(p) \/ DropStale(p))
    /\ \A c \in Calls : WF_toolVars(TakeUp(c)) /\ WF_toolVars(Finish(c)) /\ WF_toolVars(Release(c))

ToolSpec == ToolInit /\ [][ToolNext]_toolVars /\ Fairness
-----------------------------------------------------------------------------
(* The calls a token of limiter q is out for: those running in a live pool *)
(* and those whose release is on its way.                                  *)
Running(q) == {c \in Calls : limiterOf[PoolOf[c]] = q /\ status[c] = "running"}
Out(q) == Running(q) \cup {c \in releasing : limiterOf[PoolOf[c]] = q}

(* No pool that q serves has died.                                         *)
Intact(q) == \A p \in Pools : limiterOf[p] = q => pool[p] = "up"

(* No token of a living limiter is ever made up, whatever dies, and none   *)
(* is lost as long as no pool that uses it dies: what the semaphore        *)
(* counts and the calls that still have a token add up to the limit        *)
(* (the callback registered before the token is acquired,                  *)
(* search_tool.py:85-94, sandbox_fusion_tools.py:73-81).                   *)
TokensConserved ==
    \A q \in Pools : Alive(q) /\ limiterOf[q] = q =>
        /\ sem[q] + Cardinality(Out(q)) <= RateLimit[q]
        /\ Intact(q) => sem[q] + Cardinality(Out(q)) = RateLimit[q]

(* At most one limiter lives at a time, and while it does, the calls of    *)
(* all live pools that are limited, of both kinds of tool, that run at     *)
(* once are no more than the limit of the tool whose pool came first: the  *)
(* other tools' rate_limit means nothing.                                  *)
FirstLimitRules ==
    \A q \in Pools : Alive(q) /\ limiterOf[q] = q =>
        /\ \A p \in Limited : Alive(p) => limiterOf[p] = q \/ ~Alive(limiterOf[p])
        /\ Cardinality({c \in Calls : Alive(limiterOf[PoolOf[c]]) /\ status[c] = "running"}) <= RateLimit[q]

(* Every call a tool makes comes back to the conversation that waits for   *)
(* it, whatever dies, unless its limiter's tokens were all lost with the   *)
(* pools that held them: then every call that needs one waits for good,    *)
(* for neither the acquire nor its caller has a timeout.                   *)
NoTokenLeft(q) == Alive(q) /\ sem[q] = 0 /\ Out(q) = {}
EveryCallReturns ==
    \A c \in Calls : (status[c] = "asked") ~> (status[c] \in Ended \/ NoTokenLeft(limiterOf[PoolOf[c]]))
=============================================================================
