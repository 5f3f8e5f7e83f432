\* Classic variant: the node is the leader v1, the member v2 or the outsider o.
CONSTANTS
    v1 = v1  v2 = v2  v3 = v3  v4 = v4  o = o
    p1 = p1  p2 = p2  p3 = p3  p4 = p4  po = po
    Nil = Nil
    Validators <- MCValidators
    ConsensusGroup <- MCConsensusGroup
    PeerOf <- MCPeerOf
    Byzantine <- MCByzantine
    SelfKeys = {v1, v2, o}
    ManagedKeySets = {{}}
    EquivalentProofs = FALSE
    MissingSignedMessages = {}
    FinalInfoMessages <- ClassicFinalInfo
    InvalidSignersMessages <- ClassicInvalidSigners
    HeaderMessages <- ClassicHeaders
    MaxDeliveries = 1
SPECIFICATION Spec
INVARIANTS
    TypeOK
    LeaderAggregateValid
    HonestPeersNeverPunished
    SignersMatchReference
PROPERTIES
    HandlersReturn
    EndRoundRefinement
