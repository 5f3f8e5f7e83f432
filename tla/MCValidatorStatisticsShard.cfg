\* The shard processor on every chain over five rounds, one shard.
CONSTANTS
    va = va
    vb = vb
    vc = vc
    Validators <- MCValidators
    Group <- MCGroup
    Shards = {0}
    MaxRound = 5
    SelfIsMeta = FALSE
    MetachainShardId = Meta
    RecreateTrieMayFail = FALSE

SPECIFICATION Spec

INVARIANT
    NoPenaltyWithoutMissedRound
