SPECIFICATION Spec
CONSTANTS
    b0 = b0
    b1 = b1
    b2 = b2
    Block <- MCBlock
    Genesis = b0
    ControllerTask = {"c1"}
    ClientTask = {}
    ControllerRequests <- TwoHeads
    ClientRequests <- TwoHeads
    EngineStatus = {"VALID", "SYNCING"}
    fcu_cache_size = 2
    justified_block_cache_size = 1
    finalized_block_cache_size = 1
    fcu_matching = "loose"
    MaxPolls = 0
    Unreliable = FALSE
INVARIANTS
    EngineFollowsController
