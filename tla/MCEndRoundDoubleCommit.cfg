\* Equivalent-proof variant, member v2: the unlocked leader path races the participant path.
CONSTANTS
    v1 = v1  v2 = v2  v3 = v3  v4 = v4  o = o
    p1 = p1  p2 = p2  p3 = p3  p4 = p4  po = po
    Nil = Nil
    Validators <- MCValidators
    ConsensusGroup <- MCConsensusGroup
    PeerOf <- MCPeerOf
    Byzantine <- MCByzantine
    SelfKeys = {v2}
    ManagedKeySets = {{}}
    EquivalentProofs = TRUE
    MissingSignedMessages = {}
    FinalInfoMessages <- ProofFinalInfo
    InvalidSignersMessages <- ProofInvalidSigners
    HeaderMessages <- ProofHeaders
    MaxDeliveries = 2
SPECIFICATION Spec
INVARIANT
    AtMostOneCommit
