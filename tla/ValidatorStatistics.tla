------------------------- MODULE ValidatorStatistics -------------------------
(***************************************************************************)
(* The validator statistics processor (process/peer/process.go): for each *)
(* committed meta block, UpdatePeerState credits the leader and the other *)
(* members of the consensus group of the meta block and of every shard     *)
(* block it notarizes, and penalises the leader of every round in which    *)
(* the metachain or a shard produced no block.                            *)
(*                                                                         *)
(* The chain is chosen in Init and never changes: the rounds of the meta   *)
(* blocks and of the blocks of each shard (index = nonce, nonce 0 is the   *)
(* genesis block at round 0), and which meta block notarizes which shard   *)
(* block.  Group(shard, round) is the nodes coordinator's consensus group; *)
(* the random seeds it is computed from are abstracted away.  The peer     *)
(* accounts are reduced to the three counters the processor changes.      *)
(***************************************************************************)
EXTENDS Integers, Sequences, FiniteSets, SequencesExt

CONSTANTS
    Validators,
    Shards,        \* shard ids
    MaxRound,      \* last round of the chain
    Group(_, _),   \* ComputeValidatorsGroup(seed, round, shardId): leader first
    SelfIsMeta,    \* the processor runs on the metachain
    MetachainShardId, \* core.MetachainShardId (2^32 - 1), a model value here
    RecreateTrieMayFail  \* peerAdapter.RecreateTrie may return an error

ASSUME MetachainShardId \notin Shards
Chains == Shards \cup {MetachainShardId}

ASSUME \A c \in Chains, r \in 1 .. MaxRound :
          Group(c, r) \in Seq(Validators) /\ Len(Group(c, r)) > 0

VARIABLES
    metaRounds,        \* metaRounds[n]: round of the meta block of nonce n
    shardRounds,       \* shardRounds[s][j]: round of the block of nonce j of shard s
    notarizedIn,       \* notarizedIn[s][j]: nonce of the meta block holding its ShardData
    processed,         \* nonce of the last meta block whose UpdatePeerState is applied
    prevShardInfo,     \* p.prevShardInfo: shard -> [Round, Nonce] of a previous block
    leaderSuccess,     \* IncreaseLeaderSuccessRate per validator
    validatorSuccess,  \* IncreaseValidatorSuccessRate per validator
    leaderFail,        \* DecreaseLeaderSuccessRate per validator
    committed,         \* the accounts at the last Commit of the peer trie
    roots,             \* roots[n]: the accounts under the root hash committed with meta block n
    failed             \* the last UpdatePeerState returned an error

chainVars == << metaRounds, shardRounds, notarizedIn >>
vars == << chainVars, processed, prevShardInfo, leaderSuccess, validatorSuccess, leaderFail,
          committed, roots, failed >>

NoShardData == [Round |-> -1, Nonce |-> -1]

\* Increasing sequences of rounds in 1 .. MaxRound.
RoundSeqs == { s \in UNION { [1 .. k -> 1 .. MaxRound] : k \in 0 .. MaxRound } :
                 \A i \in 1 .. Len(s) - 1 : s[i] < s[i + 1] }

RoundOf(rounds, nonce) == IF nonce = 0 THEN 0 ELSE rounds[nonce]

\* The ShardInfo of the meta block of nonce n, in the order of shards and nonces.
ShardInfo(n) ==
    LET entries == { << s, j >> \in Shards \X (1 .. MaxRound) :
                        j \in DOMAIN shardRounds[s] /\ notarizedIn[s][j] = n }
        before(x, y) == x[1] < y[1] \/ (x[1] = y[1] /\ x[2] < y[2])
        rank(e) == Cardinality({ x \in entries : before(x, e) }) + 1
        ordered == [i \in 1 .. Cardinality(entries) |-> CHOOSE e \in entries : rank(e) = i]
    IN [i \in DOMAIN ordered |-> [ShardId |-> ordered[i][1], Nonce |-> ordered[i][2],
                                  Round |-> shardRounds[ordered[i][1]][ordered[i][2]]]]

-----------------------------------------------------------------------------
(* The account updates, as counts per validator.                            *)

\* A variant whose validator loop also credits the leader.
updateValidatorInfoLeaderAsMember(group) ==
    << [v \in Validators |-> IF group[1] = v THEN 1 ELSE 0],
       [v \in Validators |-> Cardinality({ i \in 1 .. Len(group) : group[i] = v })] >>

\* updateValidatorInfo: the first member of the group is the leader.
updateValidatorInfo(group) ==
    << [v \in Validators |-> IF group[1] = v THEN 1 ELSE 0],
       [v \in Validators |-> Cardinality({ i \in 2 .. Len(group) : group[i] = v })] >>

\* A variant whose loop runs up to the current round included.
checkForMissedBlocksThroughCurrent(chain, currentRound, previousRound) ==
    [v \in Validators |->
        Cardinality({ i \in previousRound + 1 .. currentRound : Group(chain, i)[1] = v })]

\* A variant whose loop starts one round late.
checkForMissedBlocksFromSecond(chain, currentRound, previousRound) ==
    [v \in Validators |->
        Cardinality({ i \in previousRound + 2 .. currentRound - 1 : Group(chain, i)[1] = v })]

\* checkForMissedBlocks: the leaders of the rounds strictly between the two
\* rounds.  When the previous round is not smaller the uint64 difference
\* wraps, but the loop from previous+1 to current is empty all the same.
checkForMissedBlocks(chain, currentRound, previousRound) ==
    [v \in Validators |->
        Cardinality({ i \in previousRound + 1 .. currentRound - 1 : Group(chain, i)[1] = v })]

Plus(f, g) == [v \in Validators |-> f[v] + g[v]]
\* The counters of the account initializeNode creates for an initial node.
ZeroCounts == [v \in Validators |-> 0]
SumCounts(F(_), S) == [v \in Validators |-> MapThenSumSet(LAMBDA x : F(x)[v], S)]

-----------------------------------------------------------------------------

\* getMatchingShardData: the first entry of the shard in shardInfo.
getMatchingShardData(shardId, info) ==
    LET idx == { i \in DOMAIN info : info[i].ShardId = shardId }
    IN IF idx = {} THEN NoShardData
       ELSE [Round |-> info[Min(idx)].Round, Nonce |-> info[Min(idx)].Nonce]

\* loadPreviousShardHeadersMeta: for every entry of nonce > 1, the previous
\* block of its shard (found by PrevHash); entries of the same shard
\* overwrite each other, the last one wins.
loadPreviousShardHeadersMeta(info) ==
    [s \in Shards |->
        LET idx == { i \in DOMAIN info : info[i].ShardId = s /\ info[i].Nonce # 1 }
        IN IF idx = {} THEN prevShardInfo[s]
           ELSE LET last == info[Max(idx)]
                IN [Round |-> RoundOf(shardRounds[s], last.Nonce - 1), Nonce |-> last.Nonce - 1]]

\* loadPreviousShardHeaders on a shard: the map is rebuilt from the entries
\* of previousHeader that match the current header's shards.  A shard with
\* no match would be searched for in older meta blocks.
loadPreviousShardHeaders(info, previousInfo) ==
    [s \in Shards |-> getMatchingShardData(s, previousInfo)]

\* updateShardDataPeerState, given the map loadPreviousShardHeaders left:
\* every entry credits its group; an entry of nonce > 1 also charges the
\* leaders of the rounds since the previous block of its shard.  The result
\* is << leader credits, member credits, penalties >>.
updateShardDataPeerState(info, loaded) ==
    LET credit(i) == updateValidatorInfo(Group(info[i].ShardId, info[i].Round))
        missed(i) ==
            IF info[i].Nonce = 1 THEN ZeroCounts
            ELSE checkForMissedBlocks(info[i].ShardId, info[i].Round, loaded[info[i].ShardId].Round)
    IN << SumCounts(LAMBDA i : credit(i)[1], DOMAIN info),
         SumCounts(LAMBDA i : credit(i)[2], DOMAIN info),
         SumCounts(missed, DOMAIN info) >>

\* The peer accounts as the trie holds them.
Accounts == [processed |-> processed, leaderSuccess |-> leaderSuccess,
             validatorSuccess |-> validatorSuccess, leaderFail |-> leaderFail]

\* Adds << leader credits, member credits, penalties >> to the accounts.
Credit(c) ==
    /\ leaderSuccess' = Plus(leaderSuccess, c[1])
    /\ validatorSuccess' = Plus(validatorSuccess, c[2])
    /\ leaderFail' = Plus(leaderFail, c[3])

Add(c, d) == << Plus(c[1], d[1]), Plus(c[2], d[2]), Plus(c[3], d[3]) >>
NoCredit == << ZeroCounts, ZeroCounts, ZeroCounts >>

\* UpdatePeerState for the next meta block, run to its end ("ok") or
\* returning the error of GetMetaHeader for the previous meta block
\* ("noPrevMeta") or, on the metachain, of GetShardHeader for the previous
\* block of the k-th notarized shard block ("noPrevShard").  The accounts
\* changed before the error keep their changes; prevShardInfo keeps the
\* entries loaded before it.  updateShardDataPeerState takes its "previous"
\* meta header from the same header as the current one.
UpdatePeerState ==
    LET n     == processed + 1
        round == metaRounds[n]
        info  == ShardInfo(n)
        prevInfo == info
        loaded == IF SelfIsMeta THEN loadPreviousShardHeadersMeta(info)
                  ELSE loadPreviousShardHeaders(info, prevInfo)
        g == updateValidatorInfo(Group(MetachainShardId, round))
        metaCredit == << g[1], g[2], ZeroCounts >>
        metaMissed == << ZeroCounts, ZeroCounts,
                         checkForMissedBlocks(MetachainShardId, round, RoundOf(metaRounds, n - 1)) >>
    IN /\ ~failed
       /\ n <= Len(metaRounds)
       /\ \/ /\ n = 1
             /\ processed' = n
             /\ Credit(metaCredit)
             /\ UNCHANGED << prevShardInfo, failed >>
          \/ /\ n > 1
             /\ processed' = n
             /\ prevShardInfo' = loaded
             /\ Credit(Add(Add(metaCredit, metaMissed), updateShardDataPeerState(info, loaded)))
             /\ UNCHANGED failed
          \/ /\ n > 1
             /\ failed' = TRUE
             /\ Credit(metaCredit)
             /\ UNCHANGED << processed, prevShardInfo >>
          \/ /\ n > 1 /\ SelfIsMeta
             /\ \E k \in DOMAIN info :
                   /\ info[k].Nonce # 1
                   /\ failed' = TRUE
                   /\ prevShardInfo' = loadPreviousShardHeadersMeta(SubSeq(info, 1, k - 1))
             /\ Credit(Add(metaCredit, metaMissed))
             /\ UNCHANGED processed
       /\ UNCHANGED << chainVars, committed, roots >>

\* Commit: the block processor commits the peer trie with the block; the
\* root hash is the one the block carries (ValidatorStatsRootHash).
Commit ==
    /\ ~failed
    /\ committed.processed < processed
    /\ committed' = Accounts
    /\ roots' = [n \in DOMAIN roots \cup {processed} |-> IF n = processed THEN Accounts ELSE roots[n]]
    /\ UNCHANGED << chainVars, processed, prevShardInfo, leaderSuccess,
                    validatorSuccess, leaderFail, failed >>

\* RevertPeerState(header): when the block processor rolls back committed
\* blocks after meta block n, it recreates the trie from the header's root hash.
\* The error of RecreateTrie is discarded and nil returned: on an error
\* the accounts stay as they were, while the caller goes on from block n.
\* p.prevShardInfo is not reverted.
RevertPeerState ==
    /\ ~failed /\ committed.processed = processed
    /\ \E n \in DOMAIN roots :
          /\ n < processed
          /\ processed' = n
          /\ \/ /\ leaderSuccess' = roots[n].leaderSuccess
                /\ validatorSuccess' = roots[n].validatorSuccess
                /\ leaderFail' = roots[n].leaderFail
                /\ committed' = roots[n]
             \/ /\ RecreateTrieMayFail
                /\ UNCHANGED << leaderSuccess, validatorSuccess, leaderFail, committed >>
    /\ UNCHANGED << chainVars, prevShardInfo, roots, failed >>

\* RevertPeerStateToSnapshot(0): the block processor drops every change
\* since the last commit, after UpdatePeerState or a later step failed.
\* p.prevShardInfo is not part of the trie and is not reverted.
RevertPeerStateToSnapshot ==
    /\ failed \/ committed.processed < processed
    /\ processed' = committed.processed
    /\ leaderSuccess' = committed.leaderSuccess
    /\ validatorSuccess' = committed.validatorSuccess
    /\ leaderFail' = committed.leaderFail
    /\ failed' = FALSE
    /\ UNCHANGED << chainVars, prevShardInfo, committed, roots >>

\* NewValidatorStatisticsProcessor on a chain: meta blocks and shard blocks
\* at increasing rounds; each shard block is notarized by the first meta
\* block at a later round, if any.  SaveInitialState has created and
\* committed an account with zero counters for every initial node.
Init ==
    /\ metaRounds \in RoundSeqs
    /\ shardRounds \in [Shards -> RoundSeqs]
    /\ notarizedIn = [s \in Shards |->
                        [j \in DOMAIN shardRounds[s] |->
                            LET later == { n \in DOMAIN metaRounds : metaRounds[n] > shardRounds[s][j] }
                            IN IF later = {} THEN 0 ELSE Min(later)]]
    /\ processed = 0
    /\ prevShardInfo = [s \in Shards |-> NoShardData]
    /\ leaderSuccess = ZeroCounts
    /\ validatorSuccess = ZeroCounts
    /\ leaderFail = ZeroCounts
    /\ committed = Accounts
    /\ roots = (0 :> Accounts)
    /\ failed = FALSE

\* After the last meta block is committed the processor waits for the next.
Idle == committed.processed = Len(metaRounds) /\ UNCHANGED vars

Next == UpdatePeerState \/ Commit \/ RevertPeerState \/ RevertPeerStateToSnapshot \/ Idle

Spec == Init /\ [][Next]_vars

-----------------------------------------------------------------------------
(* What the statistics should hold after the meta blocks processed so far: *)
(* a credit for every meta block and every notarized shard block, and a    *)
(* penalty for the leader of every round between two consecutive blocks   *)
(* of a chain (the gap after a genesis block is not counted).              *)

NotarizedBlocks ==
    { << s, j >> \in Shards \X (1 .. MaxRound) :
         j \in DOMAIN shardRounds[s] /\ notarizedIn[s][j] \in 1 .. processed }

\* The produced blocks so far, as << chain, round >>.
ProducedBlocks ==
    { << MetachainShardId, metaRounds[n] >> : n \in 1 .. processed }
    \cup { << b[1], shardRounds[b[1]][b[2]] >> : b \in NotarizedBlocks }

\* The missed rounds so far, as << chain, round >>.
MissedRounds ==
    { << MetachainShardId, r >> : r \in UNION { metaRounds[n - 1] + 1 .. metaRounds[n] - 1 : n \in 2 .. processed } }
    \cup UNION { { << b[1], r >> : r \in shardRounds[b[1]][b[2] - 1] + 1 .. shardRounds[b[1]][b[2]] - 1 } :
                 b \in { b \in NotarizedBlocks : b[2] > 1 } }

LeaderCount(v, S) == Cardinality({ x \in S : Group(x[1], x[2])[1] = v })
MemberCount(v, S) == MapThenSumSet(LAMBDA x : Cardinality({ i \in 2 .. Len(Group(x[1], x[2])) : Group(x[1], x[2])[i] = v }), S)

\* No validator is ever credited for more blocks, as leader or as member,
\* than it took part in: each meta block and each notarized shard block is
\* counted at most once, across all the calls of UpdatePeerState, the
\* reverts of the accounts after a failed block and the rollbacks of
\* committed blocks (RevertPeerState) after which they are processed
\* again; only while a failed
\* UpdatePeerState waits for its revert may the accounts hold its partial
\* credits.
SuccessNeverOvercounted ==
    ~failed =>
    \A v \in Validators :
        /\ leaderSuccess[v] <= LeaderCount(v, ProducedBlocks)
        /\ validatorSuccess[v] <= MemberCount(v, ProducedBlocks)

\* No validator is penalised for more rounds than it led without a block:
\* checkForMissedBlocks, fed with the previous block of each chain from
\* prevShardInfo, never charges a leader whose round produced a block,
\* however often blocks are reverted and processed again.
NoPenaltyWithoutMissedRound ==
    ~failed => \A v \in Validators : leaderFail[v] <= LeaderCount(v, MissedRounds)

\* The blocks and rounds the processor accounts for, leaving out the two
\* cases the code, as written, passes over: the shard blocks notarized by
\* the meta block of nonce 1, whose UpdatePeerState returns before the
\* shard data, and the rounds missed before a shard block whose predecessor
\* the same meta block notarizes (loadPreviousShardHeaders keeps the
\* predecessor of the last block of the shard only).
AccountedShardBlocks == { b \in NotarizedBlocks : notarizedIn[b[1]][b[2]] > 1 }

ChargedShardGaps ==
    { b \in AccountedShardBlocks : b[2] > 1 /\ notarizedIn[b[1]][b[2] - 1] < notarizedIn[b[1]][b[2]] }

GapRounds(b) == { << b[1], r >> : r \in shardRounds[b[1]][b[2] - 1] + 1 .. shardRounds[b[1]][b[2]] - 1 }

\* Nothing processed is left out of the accounts: every meta block and every
\* shard block notarized from the meta block of nonce 2 on is credited to
\* its leader and members, and the leader of every round the metachain
\* missed, or a shard missed between two blocks notarized by different meta
\* blocks, is charged, however often UpdatePeerState fails halfway and is
\* reverted, and committed blocks are rolled back and processed again.
\* With NoPenaltyWithoutMissedRound and SuccessNeverOvercounted this pins
\* the accounts of the metachain to the chain.
ProcessedBlocksAccounted ==
    ~failed =>
    LET credited == { << MetachainShardId, metaRounds[n] >> : n \in 1 .. processed }
                    \cup { << b[1], shardRounds[b[1]][b[2]] >> : b \in AccountedShardBlocks }
        charged  == { x \in MissedRounds : x[1] = MetachainShardId }
                    \cup UNION { GapRounds(b) : b \in ChargedShardGaps }
    IN \A v \in Validators :
          /\ leaderSuccess[v] >= LeaderCount(v, credited)
          /\ validatorSuccess[v] >= MemberCount(v, credited)
          /\ leaderFail[v] >= LeaderCount(v, charged)

=============================================================================
