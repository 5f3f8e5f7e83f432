\* Two requests, two tries; maxSize holds one or two iterators, so saves
\* evict, and the largest iterator is never cached.
CONSTANTS
    q1 = q1
    q2 = q2
    r1 = r1
    r2 = r2
    Nil = Nil
    Requests <- MCRequests
    Roots <- MCRoots
    IteratorSize <- MCIteratorSize
    NumLeaves = 4
    MaxLeavesPerCall = 2
    IdLen = 1
    MaxSize = 7
    MaxCalls = 7

SPECIFICATION Spec

INVARIANTS
    CacheAccounting
    SizeWithinMax
