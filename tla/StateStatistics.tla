--------------------------- MODULE StateStatistics ---------------------------
(***************************************************************************)
(* The state statistics collector (common/statistics/stateStatistics.go). *)
(* Trie and storage code on many goroutines increments its counters; the   *)
(* block processor calls Reset between blocks, the snapshotter calls       *)
(* ResetSnapshot between snapshots, and both read reports.  The cache and  *)
(* trie counters are atomics, the per-epoch persister maps are guarded by  *)
(* mutPersisters; Reset takes the three in turn, so increments interleave  *)
(* with its steps.                                                         *)
(*                                                                         *)
(* Each operation on one atomic or under one lock is one step; which      *)
(* goroutine increments does not matter, only the order.  Besides          *)
(* the collector's state the module keeps, per counter, the increments     *)
(* made since the Reset that cleared it started (sinceStart) and since it  *)
(* ended (sinceEnd), to state what a report may show.                      *)
(***************************************************************************)
EXTENDS Integers, Sequences

CONSTANTS
    Epochs,       \* epochs the persister counters are kept for
    MaxIncrements \* bound on increments in a run

\* A counter: a field and, for the persister maps, an epoch.
NoEpoch == -1
Atomic(name) == << name, NoEpoch >>

\* The processing counters Reset clears and the snapshot ones ResetSnapshot
\* clears.
ProcessingCounters ==
    {Atomic("numCache"), Atomic("numTrie")} \cup ({"numPersister", "numWritePersister"} \X Epochs)
SnapshotCounters ==
    {Atomic("numSnapshotCache")} \cup ({"numSnapshotPersister"} \X Epochs)
Counters == ProcessingCounters \cup SnapshotCounters

\* A Reset that forgets to replace the write persister map.
ResetStepsKeepingWrites == << {Atomic("numCache")}, {"numPersister"} \X Epochs, {Atomic("numTrie")} >>

\* The steps of Reset and of ResetSnapshot, in the order the code takes them.
ResetSteps         == << {Atomic("numCache")}, {"numPersister", "numWritePersister"} \X Epochs,
                         {Atomic("numTrie")} >>
ResetSnapshotSteps == << {Atomic("numSnapshotCache")}, {"numSnapshotPersister"} \X Epochs >>

VARIABLES
    count,       \* the value of each counter (a missing map entry reads 0)
    resetPc,     \* steps of Reset taken, 0 when no Reset runs
    snapPc,      \* steps of ResetSnapshot taken, 0 when none runs
    sinceStart,  \* per counter: increments since the start of the reset that last cleared it
    sinceEnd,    \* per counter: increments since the end of that reset
    increments   \* increments made so far

vars == << count, resetPc, snapPc, sinceStart, sinceEnd, increments >>

Zero == [c \in Counters |-> 0]

\* NewStateStatistics
Init ==
    /\ count = Zero
    /\ resetPc = 0
    /\ snapPc = 0
    /\ sinceStart = Zero
    /\ sinceEnd = Zero
    /\ increments = 0

\* IncrCache, IncrSnapshotCache, IncrTrie (atomic.AddUint64) and
\* IncrPersister, IncrWritePersister, IncrSnapshotPersister (under
\* mutPersisters): one counter goes up by one.
Incr(c) ==
    /\ increments < MaxIncrements
    /\ increments' = increments + 1
    /\ count' = [count EXCEPT ![c] = @ + 1]
    /\ sinceStart' = [sinceStart EXCEPT ![c] = @ + 1]
    /\ sinceEnd' = [sinceEnd EXCEPT ![c] = @ + 1]
    /\ UNCHANGED << resetPc, snapPc >>

\* One step of a reset: clear the counters of step k of steps.  The first
\* step starts the reset for all its counters, the last ends it.
ResetStep(pcVal, steps, counters) ==
    LET k == pcVal + 1
        cleared == steps[k]
    IN /\ count' = [c \in Counters |-> IF c \in cleared THEN 0 ELSE count[c]]
       /\ sinceStart' = IF k = 1
                        THEN [c \in Counters |-> IF c \in counters THEN 0 ELSE sinceStart[c]]
                        ELSE sinceStart
       /\ sinceEnd' = IF k = Len(steps)
                      THEN [c \in Counters |-> IF c \in counters THEN 0 ELSE sinceEnd[c]]
                      ELSE sinceEnd

\* Reset: numCache, then the persister and write persister maps, then numTrie.
Reset ==
    /\ resetPc < Len(ResetSteps)
    /\ ResetStep(resetPc, ResetSteps, ProcessingCounters)
    /\ resetPc' = IF resetPc + 1 = Len(ResetSteps) THEN 0 ELSE resetPc + 1
    /\ UNCHANGED << snapPc, increments >>

\* ResetSnapshot: numSnapshotCache, then the snapshot persister map.
ResetSnapshot ==
    /\ snapPc < Len(ResetSnapshotSteps)
    /\ ResetStep(snapPc, ResetSnapshotSteps, SnapshotCounters)
    /\ snapPc' = IF snapPc + 1 = Len(ResetSnapshotSteps) THEN 0 ELSE snapPc + 1
    /\ UNCHANGED << resetPc, increments >>

\* Once the increments are used up, the collector only serves reads.
Done == increments = MaxIncrements /\ resetPc = 0 /\ snapPc = 0 /\ UNCHANGED vars

Next ==
    \/ \E c \in Counters : Incr(c)
    \/ Reset
    \/ ResetSnapshot
    \/ Done

Spec == Init /\ [][Next]_vars

\* What a report shows for a counter: Cache, SnapshotCache and Trie, and
\* the lines of ProcessingStats and SnapshotStats, load an atomic or read a
\* map under the read lock of mutPersisters, each counter on its own; an
\* epoch missing from a map is not listed, and counts as 0.
Reported(c) == count[c]

-----------------------------------------------------------------------------

\* A report read after Reset (ResetSnapshot) returned shows, for every
\* counter it cleared, every increment made after that reset returned and
\* none made before it was called: the separate atomic stores and the map
\* replacement under mutPersisters never lose a later increment nor keep an
\* earlier one, however workers interleave with the steps of the resets.
CountersWithinResetWindow ==
    \A c \in Counters :
       (IF c \in ProcessingCounters THEN resetPc = 0 ELSE snapPc = 0)
          => sinceEnd[c] <= Reported(c) /\ Reported(c) <= sinceStart[c]

=============================================================================
