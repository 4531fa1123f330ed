SPECIFICATION FairSpec
CONSTANTS
    b0 = b0
    b1 = b1
    b2 = b2
    Block <- MCBlock
    Genesis = b0
    ControllerTask = {"c1"}
    ClientTask = {"n1"}
    ControllerRequests <- JustifyingRequests
    ClientRequests <- CombinedRequest
    EngineStatus = {"VALID", "INVALID"}
    fcu_cache_size = 1
    justified_block_cache_size = 1
    finalized_block_cache_size = 1
    fcu_matching = "loose"
    MaxPolls = 1
    Unreliable = TRUE
INVARIANTS
    TypeOK
    VerdictsComeFromEngine
    LockedReadIsCurrent
PROPERTIES
    ImplementsOracle
    RequestsAreAnswered
