--------------------------- MODULE MCToolExecution ---------------------------
(***************************************************************************)
(* Calls of three pools: a search tool and a sandbox tool that are limited *)
(* and have different limits, and a search tool whose limit is off.        *)
(***************************************************************************)
EXTENDS ToolExecution, TLC

CONSTANTS search, sandbox, free

MCPools      == {search, sandbox, free}
MCCalls      == 1 .. 4
MCPoolOf     == 1 :> search @@ 2 :> sandbox @@ 3 :> sandbox @@ 4 :> free
MCSandbox    == {sandbox}
MCLimited    == {search, sandbox}
MCRateLimit  == search :> 1 @@ sandbox :> 2 @@ free :> 1
MCNumWorkers == search :> 2 @@ sandbox :> 2 @@ free :> 1
=============================================================================
