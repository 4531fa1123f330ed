SPECIFICATION MuxSpec
CONSTANTS
    b0 = b0
    b1 = b1
    b2 = b2
    Block <- MCBlock
    Genesis = b0
    BlockInfo <- MCBlockInfo
    Attributes <- MCAttributes
    genesis_time = 24
    seconds_per_slot = 12
    fork_slot <- MCForkSlot
    FcuControllerTask = {"c1"}
    FcuClientTask = {}
    FcuControllerRequests <- OneAttributeRequest
    FcuClientRequests = {}
    FcuEngineStatus = {"VALID"}
    NpControllerTask = {"c2"}
    NpClientTask = {}
    NpControllerRequests <- OneNewPayload
    NpClientRequests = {}
    EngineStatus = {"VALID"}
    fcu_cache_size = 1
    justified_block_cache_size = 1
    finalized_block_cache_size = 1
    fcu_matching = "exact"
    new_payload_cache_size = 2
    new_payload_wait_cutoff = 1
    payload_builder_cache_size = 4
    MaxPayloadId = 3
    MaxPolls = 0
    ConsistentEngine = TRUE
    Unreliable = TRUE
INVARIANTS
    AnsweredPayloadsAreTracked
