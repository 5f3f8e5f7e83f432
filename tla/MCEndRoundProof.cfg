\* Equivalent-proof variant: the node is the member v2 or the outsider o, a backup machine
\* that may manage the leader v1 and the member v4; the proposer may be byzantine.
CONSTANTS
    v1 = v1  v2 = v2  v3 = v3  v4 = v4  o = o
    p1 = p1  p2 = p2  p3 = p3  p4 = p4  po = po
    Nil = Nil
    Validators <- MCValidators
    ConsensusGroup <- MCConsensusGroup
    PeerOf <- MCPeerOf
    Byzantine <- MCByzantineProof
    SelfKeys = {v2, o}
    ManagedKeySets = {{}, {v1, v4}}
    EquivalentProofs = TRUE
    MissingSignedMessages = {}
    FinalInfoMessages <- ProofFinalInfo
    InvalidSignersMessages <- ProofInvalidSigners
    HeaderMessages <- ProofHeaders
    MaxDeliveries = 2
SPECIFICATION Spec
INVARIANTS
    LeaderAggregateValid
