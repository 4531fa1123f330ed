SPECIFICATION Spec
CONSTANTS
    b1 = b1
    b2 = b2
    b3 = b3
    Block <- MCBlock
    genesis_time = 24
    seconds_per_slot = 12
    fork_slot <- MCForkSlot
    ControllerTask = {"c1", "c2"}
    ClientTask = {}
    ControllerRequests <- OneRequest
    ClientRequests <- OneRequest
    EngineStatus = {"VALID", "SYNCING"}
    new_payload_cache_size = 2
    new_payload_wait_cutoff = 1
    MaxPolls = 1
    ConsistentEngine = TRUE
    Unreliable = FALSE
INVARIANTS
    ControllerVerdictIsServed
