# TLA+ models of mx-chain-go

This directory holds TLA+ models of parts of the node in `src/`, together with the
TLC configurations that check them. `PROJECT.json` lists the following:

- every component, with what is modelled and what is not;
- the runs;
- the mutants that show each property can fail;
- the source lines each definition translates;
- the findings;
- the hazards.

## The system and its parts

Most of the code under `src/` is scaffolding: constructors, getters, generated
protobuf code, stubs and mocks. The part with real concurrent protocol logic is the
**End-Round subround of BLS consensus**
(`src/consensus/spos/bls/subroundEndRound.go`, wired by `blsSubroundsFactory.go`).
After the Signature subround, the node does one of two things:

- **Leader path.** The round's leader aggregates the collected signature shares.
  If aggregation fails, it finds and excludes the members whose shares do not
  verify (`verifyNodesOnAggSigFail`) and recomputes the aggregate on the rest. It
  broadcasts the final info and the list of invalid signers, then commits the block.
- **Participant path.** Any other node waits for the leader's final info, or, with
  the `ConsensusPropagationChangesFlag` ("equivalent proofs"), for a header with a
  proof. It then commits in `doEndRoundJobByParticipant`, under
  `mutProcessingEndRound`.

The two paths run concurrently. The round driver calls `doEndRoundJob` (the *job*),
while the worker starts one goroutine per received message:

- `receivedBlockHeaderFinalInfo`
- `receivedInvalidSignersInfo`
- `receivedHeader`

Each of these goroutines may itself enter the participant path.

Four further components have their own models, besides the subround factory
(`blsSubroundsFactory.go`), which builds the Start, Block, Signature and
End-Round subrounds and registers their message handlers with the worker:

- **Trie leaves retriever** (`src/trie/leavesRetriever/leavesRetriever.go`). API
  requests page through a trie's leaves. Unfinished iterators are kept in a
  byte-bounded LRU cache under their id, so that a later request can resume one.
  Requests run concurrently and take the cache mutex separately for the lookup,
  the LRU update and the save.
- **State statistics** (`src/common/statistics/stateStatistics.go`). Counters
  incremented by trie and storage goroutines. `Reset` and `ResetSnapshot` clear
  them in several separate steps while increments go on.
- **Validator statistics processor** (`src/process/peer/process.go`). For each
  committed meta block, `UpdatePeerState` credits the consensus group of the
  meta block and of every shard block it notarizes. It penalises the leader of
  every round a chain missed, using `prevShardInfo` to find each shard block's
  predecessor. The block processor commits the peer trie with the block, or
  reverts it to the last commit (`RevertPeerStateToSnapshot`) when
  `UpdatePeerState` or a later step fails. When it rolls committed blocks back, it
  recreates the trie from an earlier header's root (`RevertPeerState`).
- **Keys holder** (`src/keysManagement/keysHolder.go`). A multi-key node's
  validator keys, each with a p2p identity. A backup machine counts, per key,
  the rounds without a message from it, and manages the key after
  `MaxRoundsWithoutReceivedMessages` silent rounds. End-Round asks the holder
  (through the consensus state) which keys the node manages.

The other components are listed in `PROJECT.json` as `not_modelled`, each with
its reason.

## Modules

| Module | Models |
|---|---|
| `Bitmap.tla` | The signer bitmap: `computeSignersPublicKeys` and `hasProposerSignature`, plus the bitmap generation of the consensus state (LSB-first bytes). |
| `EndRound.tla` | The End-Round subround: one action per handler step and per step of the job. |
| `EndRoundPhase.tla` | The abstract promise of the subround for one round: `Pending` → `Committed` → `Finished`, or `Pending` → `Canceled`. It commits at most once. |
| `MCEndRound.tla` | A group `<<v1,v2,v3,v4>>` (leader and proposer `v1`), an outsider `o`, distinct peer ids `p1..p4, po`, and the messages the network may deliver in each variant. It also holds the bitmap reference: a bit-by-bit decoding built on `Bitwise`, over every group of up to ten members and bitmaps of up to two bytes. These checks are constant expressions, which TLC evaluates once, and they are conjoined with the same check on the round's header bitmap. |
| `SubroundsFactory.tla` | The factory: `NewSubroundsFactory` and `GenerateSubrounds` as actions. The generate steps, with their V1/V2 variants, are operators. Which external constructor calls fail is chosen in `Init`. |
| `MCSubroundsFactory.tla` | The two implemented consensus models, one the factory does not know, and every constructor call of the factory as one that may fail. |
| `LeavesRetriever.tla` | The retriever: `GetLeaves`, `getLeavesFromCheckpoint` (LRU update), `getLeavesFromIterator`, `manageIterators` (save and eviction), one step per critical section, per request. An iterator is a trie and a count of leaves yielded; its id is that pair. |
| `MCLeavesRetriever.tla` | Two requests, two tries of four leaves, iterator sizes 2, 3 and 7. |
| `StateStatistics.tla` | The counters, one `Incr` action per increment, and `Reset`/`ResetSnapshot` as one step per atomic store or per locked map replacement. Ghost counters `sinceStart`/`sinceEnd` count increments since a reset began and ended. |
| `ValidatorStatistics.tla` | `UpdatePeerState` over a chain of meta and shard blocks chosen in `Init`, with `checkForMissedBlocks`, `updateValidatorInfo`, `updateShardDataPeerState`, `getMatchingShardData` and both `loadPreviousShardHeaders` paths as operators. `UpdatePeerState` either completes or fails at one of its fetches of a previous header, keeping the account changes made before the error. `Commit`, `RevertPeerStateToSnapshot` and `RevertPeerState` are the block processor's calls. `RevertPeerState` rolls committed blocks back to an earlier header's root (`roots`); whether `RecreateTrie` may fail is a constant. Accounts are reduced to three counters per validator; `committed` is the trie at the last commit. |
| `MCValidatorStatistics.tla` | Three validators; the consensus group rotates with the round and the chain. |
| `KeysHolder.tla` | One holder per machine. `AddVirtualPeer` is two steps (identity creation, then the locked insert), so adds interleave. `IncrementRoundsWithoutReceivedMessages` and `ResetRoundsWithoutReceivedMessages` are actions; the reads are operators. `peerInfo.go` is not in the repository, and its three methods are modelled from their use. |
| `MCKeysHolder.tla` | A main machine and a backup, two keys, two adding goroutines and five identities, with symmetry over keys, goroutines and identities. |

### How `EndRound.tla` corresponds to the code

**Threads.** Thread 0 is the job. Threads `1..MaxDeliveries` are message
goroutines. `pc[t]` is the point a thread has reached, and `msg[t]` is the message
it handles (`Nil` for `receivedHeader`'s `doEndRoundJobByParticipant(nil)`).

**The lock.** `lockHolder` is `mutProcessingEndRound`. An early return after
`Lock()` is a single step that leaves the lock free, which is what the deferred
`Unlock` gives.

**Handler actions.** Each handler is one action with one disjunct per early return:

- `receivedBlockHeaderFinalInfo`
- `receivedInvalidSignersInfo`
- `receivedHeader`

**Participant path.** It is split at the points where another thread can
interleave: `doEndRoundJobByParticipant` (checks and lock), `participantCommit`
(scheduled processing and `CommitBlock`), and `participantFinish` (proof,
status, broadcasts, unlock).

**Leader path.** It is split the same way:

- `doEndRoundJob`
- `sendFinalInfo` (aggregation, exclusion, recomputation)
- `sendFinalInfoBroadcast` (scheduled processing and final-info broadcast)
- `leaderCommit`
- `leaderFinish`

**Environment.** `Deliver` starts a goroutine. `Tick` moves the clock past the
processing threshold (`isOutOfTime`) and then to the end of the round. `Extend`
is the round driver's extension. `ProofReceived` is a proof arriving in the
pool. `ResetRoundsWithoutReceivedMessages` is the keys holder's reset on a
backup machine: a message from a managed key's main machine arrives, and from
then on the key is no longer managed. The node's managed keys (`managedKeys`)
start as one of `ManagedKeySets`, and every `IsMultiKey*` query reads the
current set, so the job and a later handler may disagree on whether the node
leads the round.

**Data abstraction.** Data is reduced to what the properties tell apart. Each of
the following is a boolean or a model value:

- a signature verifies or not;
- a p2p message is authentic or forged;
- a header matches the candidate or not;
- a validator key is distinct from its peer id (`PeerOf`), since blacklisting
  acts on peer ids and honesty scores on keys. A report inside an
  invalid-signers message carries both the key its payload names and the peer
  that signed it. `verifyInvalidSigner` blacklists that peer (`msg.Peer()`,
  `subroundEndRound.go:305`), and nothing in the code ties it to the key.

`sent` holds what is broadcast or staged for delayed broadcast, with the
signers of its bitmap, the proof it carries and its group index
(`getIndexPkAndDataToBroadcast`).

**Thresholds.** `Threshold` and `FallbackThreshold` follow `initConsensusThreshold`:

- `SrBlock` is 1.
- `SrSignature` is 2n/3+1, with a fallback of n/2+1.
- Every other subround gets 0.

## Runs

| Run | Kind | What it shows |
|---|---|---|
| `endround_classic` | pass | Without the flag, with the job and one message goroutine: committed and broadcast aggregates exclude every invalid share (`LeaderAggregateValid`); only byzantine keys and peers are penalised or blacklisted (`HonestPeersNeverPunished`); every started goroutine returns (`HandlersReturn`); the subround refines `EndRoundPhase` (`EndRoundRefinement`). The same run checks the bitmap decoding against a bit-by-bit reference (`SignersMatchReference`) for groups up to ten (crossing a byte boundary). |
| `endround_eqproof` | pass | With the flag and a byzantine proposer, on a node that may be the backup machine of the leader `v1` and the member `v4` and may lose either key in the middle of the round: committed and broadcast aggregates still exclude every invalid share (`LeaderAggregateValid`). `HonestPeersNeverPunished` is not checked here, because it does not hold under the flag (see below). |
| `endround_double_commit` | violation | `AtMostOneCommit`: the leader path commits without the lock, and a header goroutine commits the same block again. |
| `endround_quorum` | violation | `LeaderCommitHasQuorum`: after exclusion, `computeAggSigOnValidNodes` compares against `Threshold(SrEndRound)` = 0, so a block is committed with fewer than 2n/3+1 signers. |
| `factory_partial_chain` | violation | `NoPartialChain`: a constructor failing in `GenerateSubrounds` (or an unknown consensus model) returns an error with the Start subround already in the chronology. Spec 4.2 says the chain is never partially constructed. |
| `keys_holder` | pass | Two adds of the same key racing between identity creation and the locked insert never leave a stray peer id or two keys with one id (`IdentitiesMatchKeys`); `GetManagedKeysByCurrentNode` and `IsKeyManagedByCurrentNode` agree on both machines at every count of silent rounds (`ManagedViewsAgree`) |
| `leaves_cache` | pass | The LRU list names each cached iterator once and `lr.size` is their total (`CacheAccounting`), within `maxSize` (`SizeWithinMax`), under every interleaving of two requests. |
| `leaves_lost_id` | violation | `ReturnedIdCached`: an iterator smaller than `maxSize`, whose size plus id length is not, is saved, evicted at once, and its id still returned. |
| `state_statistics` | pass | `CountersWithinResetWindow`: after a reset returns, each counter it cleared counts every increment made after the reset's return and none from before its call. |
| `validator_stats` | pass | On the metachain, with failures halfway through `UpdatePeerState`, commits, reverts to the last commit and rollbacks of committed blocks, no validator is credited for more blocks than it took part in (`SuccessNeverOvercounted`) or penalised for more rounds than it led without a block (`NoPenaltyWithoutMissedRound`). Conversely, every meta block and every shard block notarized from meta nonce 2 on is credited, and every missed meta round and every shard gap between blocks notarized by different meta blocks is charged (`ProcessedBlocksAccounted`). |
| `validator_stats_shard_penalty` | violation | On a shard node (`SelfIsMeta = FALSE`), the leader of the middle of three shard blocks notarized together is penalised for a round it produced a block in (`process.go:218` uses `header` where `previousHeader` is meant). |
| `validator_stats_recreate` | violation | `SuccessNeverOvercounted`: when `RecreateTrie` fails during a rollback, `RevertPeerState` still returns nil (`process.go:204`). The statistics keep the credits of the blocks rolled back, and processing them again credits their groups twice. |

Every violation is recorded as a finding in `PROJECT.json`.

### Bounds

Each bound is chosen so the interesting cases can happen:

- **Group size.** A group of four gives a signature threshold of 3 and a
  fallback of 3. So one invalid share can be excluded while the remainder still
  meets the fallback, but not the threshold.
- **Goroutines.** The classic run has one message goroutine besides the job.
  Two threads already give both orders of lock acquisition and a message
  racing the leader path, and they keep the liveness check of `HandlersReturn`
  within the time budget. The other End-Round runs have two message
  goroutines, so that two messages race each other as well as the job.
- **Message sets.** They contain one message for each handler branch:
  - a valid and an invalid final info;
  - reports from inside and outside the group;
  - a report quoting an honest validator's genuine share, followed by a forged one;
  - under the flag, a byzantine member's replay of an honest member's authentic message that carries no valid share;
  - matching and non-matching headers.
- **Managed keys.** Under the flag the node starts managing none of the
  group's keys, or both the leader `v1` and the member `v4`; resets reach the
  sets with one of them. As `o`, managing `v1` sends it down the leader path
  with a `getLeader` outside the group (`subroundEndRound.go:680`).
- **Initial states.** The initial `jobDone` ranges over every subset that meets
  the fallback threshold. `invalidShares` ranges over the byzantine members of
  it.

- **Leaves retriever.** Two requests and seven calls let one request evict an
  iterator between another's lookup and its LRU update. The sizes 2, 3 and 7
  against `maxSize` 7 make one save evict one, two or all entries.
- **State statistics.** Two epochs and five increments allow an increment
  before, between and after each step of both resets.
- **Validator statistics.** Every chain over four rounds (five in the
  shard violation run, three in the recreate run): meta blocks at any
  increasing rounds, and for each shard any increasing rounds, with each shard
  block notarized by the first later meta block. This covers missed rounds on
  both sides, several blocks of one shard in one meta block, and meta blocks
  with no shard data. The pass run uses two shards so that `ShardInfo` mixes
  shards; the violation run needs only one. With the commits, reverts and
  failures, five rounds take the pass run near the time budget; four still
  give missed rounds on both sides and a meta block notarizing two blocks of
  a shard.
- **Keys holder.** Two keys on two machines need four successful adds; five
  identities leave one for a duplicate add, so two goroutines can race on one
  key. `MaxRoundsWithoutReceivedMessages` = 2 and a bound of 3 on the count
  give a backup a key both active and taken over.

`ProcessedBlocksAccounted`, the lower bound, leaves out two cases the
metachain code passes over. Both are listed as hazards in `PROJECT.json`; no
run slot is left for their violation runs:

- Shard blocks notarized by the meta block of nonce 1 are neither credited
  nor checked for missed rounds, because of the early return at
  `process.go:137`. This happens at the pass run's bounds.
- When one meta block notarizes several blocks of a shard,
  `loadPreviousShardHeadersMeta` keeps only the predecessor of the last one
  (`process.go:426`), and the gap before each earlier block goes uncharged.
  With four rounds no such gap fits before a shared meta block. With one
  shard and five rounds TLC finds it: shard blocks at rounds 1, 3 and 4,
  all notarized by the meta block at round 5, leave the shard's round 2
  uncharged.

Each passing run finishes in under two minutes when run alone; the
equivalent-proof run, with its 3 million states, is the longest.

### Fairness

The job, every goroutine and the clock are weakly fair. A started goroutine is
scheduled by the Go runtime, and every holder releases `mutProcessingEndRound`
within a bounded number of its own steps. Each goroutine takes the lock at most
once, so weak fairness of acquisition is enough.

Delivery, `Extend`, proof arrival and the resets of managed keys are not
fair, since the network owes nothing. Once the round is over, `RoundEnded` stutters: the node moves on to
the next round, so the end state is not a deadlock.

The other models check only safety. The leaves retriever's and the statistics'
`Idle`/`Done` steps stutter once the bounded calls are used up. The validator
statistics processor stutters after the last meta block of its chain is
committed. The keys holder stutters once its identities are used up.

Liveness and the refinement of End-Round are checked in the classic run only; the
equivalent-proof run checks safety.

The invalid-signers self-sender test is inverted under the flag
(`subroundEndRound.go:233`): a leader ignores every invalid-signers report. This
is a hazard in `PROJECT.json`.

Under the flag, every group member's invalid-signers report is verified
(`subroundEndRound.go:218`). `verifyInvalidSigner` blacklists the peer of any
embedded message whose share does not verify for the key it names (line 305).
So a byzantine member can replay an honest member's own header or final info
message, and the honest peer is blacklisted. The equivalent-proof model delivers
such a replay, and TLC finds `HonestPeersNeverPunished` violated there. Every
run slot is taken, so this is recorded as a hazard in `PROJECT.json` rather than
as a violation run. The property is checked in the classic run, where only the
leader's reports are verified.

## What is not modelled

- **Cryptography, hashing and marshalling.** They are reduced to the booleans
  above.
- **Broadcast messenger and delayed broadcaster.** Their effects are the set
  `sent`.
- **Both machines of a key together.** End-Round runs on a backup machine
  whose managed keys may shrink during the round; the main machine, the
  messages between the machines and the callers that count silent rounds (the
  consensus worker and the start-round subround, not in the repository) are
  not modelled. The holder itself is modelled on its own (`KeysHolder.tla`).
- **Multi-key hand-over in the classic variant.** With `ManagedKeySets =
  {{}, {v1}}` in the classic model, TLC finds the block committed twice: the
  job takes the leader path as `v1`'s backup, the main machine is heard from,
  and a matching header then runs the participant path, which the unlocked
  leader path does not exclude. The classic runs keep `ManagedKeySets = {{}}`
  and the hand-over is checked under the flag only; the hazard is in
  `PROJECT.json`.
- **The nil message of `receivedHeader`.** With the flag, `receivedHeader`
  calls `doEndRoundJobByParticipant(nil)`, and the participant path
  dereferences the message (`subroundEndRound.go:800`). `EndRound.tla` models
  this (`panicked`), but no run checks it. A unit test reaches it directly, and
  the run budget went to components. It is a hazard in `PROJECT.json`.
- **Signing in the participant path.** `signBlockHeader` and the header
  hashes are not modelled.
- **Sovereign incoming events** (`src/cmd/sovereignnode/incomingHeader/`).
  The package does not build as it stands in this repository:
  `incomingSCRs.go` and `incomingEventsProcessor.go` both declare
  `minTopicsInEvent`, `numTransferTopics`, `scrInfo` and `createSCRData`,
  and `incomingHeaderProcessor`, the transaction pool and the outgoing
  operations pool are not defined here. Which of the two files is current,
  and how the caller handles an error after operations were confirmed, is
  not known. So the batch is not modelled.
- **Other components.** See `PROJECT.json` for each one's reason.

## Plan for later work

1. **Both machines of a key.** Compose two End-Round nodes, the main and
   the backup of one key, with lossy messages between them.
2. **End-Round extensions.** Add the abstracted header-signing step.
3. **Incoming events.** Model `processIncomingEvents` once the package's
   current file is known.
4. **Metachain accounting gaps.** Given a free run, check
   `ProcessedBlocksAccounted` without its two exclusions. The model with one
   shard and five rounds shows the `process.go:426` gap. The pass run's model
   shows the `process.go:137` one.
5. **Invalid-signers replay.** Given a free run, check `HonestPeersNeverPunished`
   under the flag as a violation run: a byzantine member's replay of an honest
   member's authentic message gets that member's peer blacklisted
   (`subroundEndRound.go:305`).
