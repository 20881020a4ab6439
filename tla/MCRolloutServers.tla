--------------------------- MODULE MCRolloutServers ---------------------------
(***************************************************************************)
(* All configurations of up to two nodes with up to two ranks.             *)
(***************************************************************************)
EXTENDS RolloutServers

MCJobs ==
    {j \in [engine : {"vllm", "vllm_async", "sglang_async"}, nodes : {1, 2}, perNode : {1, 2},
            tp : {1, 2}, offload : BOOLEAN, resumed : BOOLEAN, validate : BOOLEAN] :
        (j.nodes * j.perNode) % j.tp = 0}
===============================================================================
