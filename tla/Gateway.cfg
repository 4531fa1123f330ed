SPECIFICATION FairSpec
CONSTANTS
    k1 = k1
    k2 = k2
    kc = kc
    node1 = node1
    node2 = node2
    node3 = node3
    Conn = {"c1"}
    Secret <- MCSecret
    Undecodable = Undecodable
    NodeId <- MCNodeId
    NoId = NoId
    Configs <- MCConfigs
    Tokens <- MCTokens
    Bodies <- MCBodies
INVARIANTS
    TypeOK
    AnswersMatchRequests
    OnlyKnownNodesAreServed
    ConfiguredNodesAreAdmitted
PROPERTIES
    BodiesAreAnswered
