\* The metachain processor when RecreateTrie may fail: a rollback whose
\* trie recreation fails is reported as done and the blocks are processed again.
CONSTANTS
    va = va
    vb = vb
    vc = vc
    Validators <- MCValidators
    Group <- MCGroup
    Shards = {0}
    MaxRound = 3
    SelfIsMeta = TRUE
    MetachainShardId = Meta
    RecreateTrieMayFail = TRUE

SPECIFICATION Spec

INVARIANT
    SuccessNeverOvercounted
