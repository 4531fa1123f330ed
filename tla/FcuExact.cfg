SPECIFICATION Spec
CONSTANTS
    b0 = b0
    b1 = b1
    b2 = b2
    Block <- MCBlock
    Genesis = b0
    ControllerTask = {c1, c2}
    ClientTask = {n1}
    ControllerRequests <- ShapedRequests
    ClientRequests <- ShapedRequests
    EngineStatus = {"VALID", "SYNCING"}
    fcu_cache_size = 1
    justified_block_cache_size = 1
    finalized_block_cache_size = 1
    fcu_matching = "exact"
    MaxPolls = 1
    Unreliable = TRUE
SYMMETRY ControllerSymmetry
INVARIANTS
    ControllerVerdictIsServed
PROPERTIES
    DefiniteEntriesAreFinal
    ImplementsOracle
