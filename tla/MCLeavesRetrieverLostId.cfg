\* An iterator of 3 bytes is below maxSize, but with its 5-byte id it
\* exceeds it: saveIterator keeps it and the eviction removes it again.
CONSTANTS
    q1 = q1
    q2 = q2
    r1 = r1
    r2 = r2
    Nil = Nil
    Requests <- MCRequests
    Roots <- MCRoots
    IteratorSize <- MCIteratorSize
    NumLeaves = 4
    MaxLeavesPerCall = 2
    IdLen = 5
    MaxSize = 7
    MaxCalls = 3

SPECIFICATION Spec

PROPERTY
    ReturnedIdCached
