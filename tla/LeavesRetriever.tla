--------------------------- MODULE LeavesRetriever ---------------------------
(***************************************************************************)
(* The trie leaves retriever (trie/leavesRetriever/leavesRetriever.go):    *)
(* API requests page through the leaves of a trie; an unfinished          *)
(* iteration is kept in a cache under its iterator id so that a later      *)
(* request can resume it.  The cache is bounded by maxSize bytes and       *)
(* evicts in least-recently-used order.  Each request runs in its own      *)
(* goroutine; the cache is guarded by lr.mutex, taken separately for the   *)
(* lookup, the LRU update and the save, so requests interleave between     *)
(* these steps.                                                            *)
(*                                                                         *)
(* A DFS iterator is abstracted to the trie it walks and how many leaves   *)
(* it has yielded; its id (a hash of its pending nodes) is that pair, and  *)
(* Size() is given by IteratorSize.  Cached iterators are never advanced   *)
(* (requests iterate on a clone), so a cached id determines its iterator.  *)
(***************************************************************************)
EXTENDS Naturals, Sequences, FiniteSets, SequencesExt

CONSTANTS
    Requests,          \* goroutines serving GetLeaves calls
    Roots,             \* root hashes of the tries
    NumLeaves,         \* leaves in every trie
    MaxLeavesPerCall,  \* the numLeaves argument of a call
    IteratorSize,      \* Size() of the iterator with a given id
    IdLen,             \* len(iteratorId)
    MaxSize,           \* maxSize of the retriever
    MaxCalls,          \* bound on the number of GetLeaves calls
    Nil

\* An iterator: the trie and the number of leaves it has yielded.
Iterators   == Roots \X (0 .. NumLeaves)
\* Ids of iterators that have yielded leaves and are not finished.
IteratorIds == Roots \X (1 .. NumLeaves - 1)

ASSUME /\ NumLeaves >= 2 /\ MaxLeavesPerCall >= 1
       /\ IteratorSize \in [IteratorIds -> Nat]
       /\ IdLen \in Nat \ {0} /\ MaxSize \in Nat /\ MaxCalls \in Nat

VARIABLES
    iterators,       \* ids of the cached iterators (lr.iterators)
    lruIteratorIDs,  \* lr.lruIteratorIDs, least recently used first
    size,            \* lr.size
    pc,              \* per request: where its goroutine is
    it,              \* per request: the iterator it walks (a clone)
    reqId,           \* per request: the iterator id it was called with
    result,          \* per request: the iterator id its last call returned
    returned,        \* ids handed back to callers, which may resume them
    calls            \* GetLeaves calls made so far

vars == << iterators, lruIteratorIDs, size, pc, it, reqId, result, returned, calls >>

FinishedIteration(iter) == iter[2] = NumLeaves

\* What one cached iterator adds to lr.size.
EntrySize(id) == IteratorSize[id] + IdLen

LowestOf(S) == CHOOSE x \in S : \A y \in S : x <= y

\* Bytes freed by removing the first k ids of the LRU list.
SizeOfRemoved(lru, k) == MapThenSumSet(LAMBDA i : EntrySize(lru[i]), 1 .. k)

-----------------------------------------------------------------------------

\* NewLeavesRetriever
Init ==
    /\ iterators = {}
    /\ lruIteratorIDs = << >>
    /\ size = 0
    /\ pc = [q \in Requests |-> "idle"]
    /\ it = [q \in Requests |-> Nil]
    /\ reqId = [q \in Requests |-> Nil]
    /\ result = [q \in Requests |-> Nil]
    /\ returned = {}
    /\ calls = 0

\* GetLeaves: with no iterator id, a new DFS iterator on the root
\* (getLeavesFromNewInstance); otherwise the cached iterator is looked up
\* under the read lock, which is released before it is used.
GetLeaves(q) ==
    /\ pc[q] = "idle"
    /\ calls < MaxCalls
    /\ calls' = calls + 1
    /\ result' = [result EXCEPT ![q] = Nil]
    /\ \/ \E r \in Roots :
             /\ it' = [it EXCEPT ![q] = << r, 0 >>]
             /\ pc' = [pc EXCEPT ![q] = "iterate"]
             /\ UNCHANGED reqId
       \/ \E id \in returned :
             /\ id \notin iterators
             /\ UNCHANGED << pc, it, reqId >>   \* ErrIteratorNotFound
       \/ \E id \in returned \cap iterators :
             /\ it' = [it EXCEPT ![q] = id]
             /\ reqId' = [reqId EXCEPT ![q] = id]
             /\ pc' = [pc EXCEPT ![q] = "checkpoint"]
    /\ UNCHANGED << iterators, lruIteratorIDs, size, returned >>

\* A variant that moves the id to the end whether or not it is still listed.
markIteratorAsRecentlyUsedAlways(lru, id) == Append(Remove(lru, id), id)

\* markIteratorAsRecentlyUsed: moves the id to the most recently used end,
\* if it is still in the list.
markIteratorAsRecentlyUsed(lru, id) ==
    IF Contains(lru, id) THEN Append(Remove(lru, id), id) ELSE lru

\* getLeavesFromCheckpoint: mark the id as used, then walk a clone.
getLeavesFromCheckpoint(q) ==
    /\ pc[q] = "checkpoint"
    /\ lruIteratorIDs' = markIteratorAsRecentlyUsed(lruIteratorIDs, reqId[q])
    /\ pc' = [pc EXCEPT ![q] = "iterate"]
    /\ UNCHANGED << iterators, size, it, reqId, result, returned, calls >>

\* getLeavesFromIterator: GetLeaves of the iterator fails, or yields up to
\* numLeaves leaves (fewer when the leaves reach maxSize bytes); an
\* unfinished iterator goes on to manageIterators.
getLeavesFromIterator(q) ==
    /\ pc[q] = "iterate"
    /\ \/ /\ pc' = [pc EXCEPT ![q] = "idle"]        \* iterator.GetLeaves error
          /\ it' = [it EXCEPT ![q] = Nil]
       \/ \E k \in 1 .. MaxLeavesPerCall :
             LET next == << it[q][1], it[q][2] + k >>
             IN /\ next[2] <= NumLeaves
                /\ it' = [it EXCEPT ![q] = next]
                /\ pc' = [pc EXCEPT ![q] = IF FinishedIteration(next) THEN "idle" ELSE "manage"]
    /\ reqId' = [reqId EXCEPT ![q] = Nil]
    /\ UNCHANGED << iterators, lruIteratorIDs, size, result, returned, calls >>

-----------------------------------------------------------------------------
(* manageIterators, under the write lock.                                  *)

\* A variant whose loop stops one id early.
NumOfRemovedOneShort(lru, sz) ==
    IF sz <= MaxSize THEN 0
    ELSE LowestOf({ k \in 1 .. Len(lru) : sz - SizeOfRemoved(lru, k) <= MaxSize } \cup {Len(lru)}) - 1

\* How many ids removeIteratorsIfMaxSizeIsExceeded takes off the front of
\* the LRU list: none within maxSize, else the fewest that bring the size
\* within maxSize, or the whole list.
NumOfRemoved(lru, sz) ==
    IF sz <= MaxSize THEN 0
    ELSE LowestOf({ k \in 1 .. Len(lru) : sz - SizeOfRemoved(lru, k) <= MaxSize } \cup {Len(lru)})

manageIterators(q) ==
    LET id == it[q] IN
    /\ pc[q] = "manage"
    /\ \/ /\ id \in iterators                       \* saveIterator: present
          /\ result' = [result EXCEPT ![q] = id]
          /\ UNCHANGED << iterators, lruIteratorIDs, size >>
       \/ /\ id \notin iterators                    \* saveIterator: too big
          /\ IteratorSize[id] >= MaxSize
          /\ UNCHANGED << iterators, lruIteratorIDs, size, result >>
       \/ /\ id \notin iterators                    \* saved, then evict
          /\ IteratorSize[id] < MaxSize
          /\ LET lru == Append(lruIteratorIDs, id)
                 sz  == size + EntrySize(id)
                 n   == NumOfRemoved(lru, sz)
             IN /\ iterators' = (iterators \cup {id}) \ ToSet(SubSeq(lru, 1, n))
                /\ lruIteratorIDs' = SubSeq(lru, n + 1, Len(lru))
                /\ size' = sz - SizeOfRemoved(lru, n)
          /\ result' = [result EXCEPT ![q] = id]
    /\ returned' = (returned \cup {result'[q]}) \ {Nil}
    /\ pc' = [pc EXCEPT ![q] = "idle"]
    /\ it' = [it EXCEPT ![q] = Nil]
    /\ UNCHANGED << reqId, calls >>

-----------------------------------------------------------------------------

\* Once the calls are used up the retriever waits for requests.
Idle == calls = MaxCalls /\ (\A q \in Requests : pc[q] = "idle") /\ UNCHANGED vars

Next ==
    \/ \E q \in Requests :
          \/ GetLeaves(q)
          \/ getLeavesFromCheckpoint(q)
          \/ getLeavesFromIterator(q)
          \/ manageIterators(q)
    \/ Idle

Spec == Init /\ [][Next]_vars

-----------------------------------------------------------------------------

\* The LRU list names each cached iterator exactly once and lr.size is the
\* sum of their sizes, however the lookups, LRU updates and saves of
\* concurrent requests interleave (in particular when an iterator is
\* evicted between a request's lookup and its markIteratorAsRecentlyUsed).
CacheAccounting ==
    /\ ToSet(lruIteratorIDs) = iterators
    /\ Len(lruIteratorIDs) = Cardinality(iterators)
    /\ size = MapThenSumSet(EntrySize, iterators)

\* After every save, removeIteratorsIfMaxSizeIsExceeded has brought the
\* cached iterators within maxSize bytes.
SizeWithinMax == size <= MaxSize

\* An iterator id that GetLeaves returns can be resumed: when
\* manageIterators answers that the id should be returned, the iterator is
\* in the cache.  The test "max size reached on the first iteration"
\* expects no id when the iterator cannot be kept.
ReturnedIdCached ==
    [][\A q \in Requests : pc[q] = "manage" /\ result'[q] # Nil => result'[q] \in iterators']_vars

=============================================================================
