\* The metachain processor: every chain of meta and shard blocks over five
\* rounds, including shard blocks notarized together and missed rounds.
CONSTANTS
    va = va
    vb = vb
    vc = vc
    Validators <- MCValidators
    Group <- MCGroup
    Shards = {0, 1}
    MaxRound = 4
    SelfIsMeta = TRUE
    MetachainShardId = Meta
    RecreateTrieMayFail = FALSE

SPECIFICATION Spec

INVARIANTS
    SuccessNeverOvercounted
    NoPenaltyWithoutMissedRound
    ProcessedBlocksAccounted
