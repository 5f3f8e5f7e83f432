------------------------------ MODULE EndRound ------------------------------
(***************************************************************************)
(* The End-Round subround of the BLS consensus, as one node runs it in one *)
(* round (consensus/spos/bls/subroundEndRound.go).                         *)
(*                                                                         *)
(* Threads.  Thread 0 is the round driver running the subround's Job       *)
(* (doEndRoundJob): the leader path doEndRoundJobByLeader, or, for a      *)
(* participant in the classic variant, doEndRoundJobByParticipant.  Every  *)
(* other thread is a goroutine the worker starts for one received message  *)
(* (receivedBlockHeaderFinalInfo, receivedInvalidSignersInfo) or one       *)
(* received header (receivedHeader).  doEndRoundJobByParticipant holds     *)
(* mutProcessingEndRound from its first check to its return; the leader    *)
(* path takes no lock.                                                     *)
(*                                                                         *)
(* Data.  Signatures are abstracted to whether they verify: a share is     *)
(* invalid iff its signer is in invalidShares, a received final info       *)
(* verifies iff its "valid" field is TRUE.  Bitmaps are real byte strings  *)
(* (Bitmap.tla).  Time is three points of the round: InTime, then          *)
(* PastThreshold (the processing threshold and the end of the subround     *)
(* window), then RoundOver (the round handler has moved to the next round  *)
(* index).                                                                 *)
(***************************************************************************)
EXTENDS Integers, Sequences, FiniteSets, Bitmap

CONSTANTS
    Validators,               \* every public key the node may see
    ConsensusGroup,           \* the round's group, in order: index 0 (here 1) is the leader
    SelfKeys,                 \* the keys this node may run with (SelfPubKey)
    ManagedKeySets,           \* the keys a backup machine may manage when the round starts
    EquivalentProofs,         \* ConsensusPropagationChangesFlag is enabled
    Byzantine,                \* validators that may sign invalid data
    MissingSignedMessages,    \* members whose signed signature message is no longer stored
    FinalInfoMessages,        \* final info messages the network may deliver
    InvalidSignersMessages,   \* invalid signers messages the network may deliver
    HeaderMessages,           \* headers the header interceptor may hand to receivedHeader
    MaxDeliveries,            \* bound on messages and headers delivered in the round
    PeerOf,                   \* the p2p peer id each validator's messages come from
    Nil                       \* a nil *consensus.Message

ASSUME /\ ConsensusGroup \in Seq(Validators) /\ Len(ConsensusGroup) > 0
       /\ SelfKeys \subseteq Validators /\ ManagedKeySets \subseteq SUBSET Validators
       /\ EquivalentProofs \in BOOLEAN
       /\ MaxDeliveries \in Nat
       /\ DOMAIN PeerOf = Validators

-----------------------------------------------------------------------------
(* Subround identifiers and thresholds (blsSubroundsFactory.go).           *)

SrStartRound == 0
SrBlock      == 1
SrSignature  == 2
SrEndRound   == 3

GroupSize == Len(ConsensusGroup)
Members   == { ConsensusGroup[i] : i \in 1 .. GroupSize }
Leader    == ConsensusGroup[1]

\* core.GetPBFTThreshold and core.GetPBFTFallbackThreshold.
GetPBFTThreshold(n)         == (n * 2) \div 3 + 1
GetPBFTFallbackThreshold(n) == (n * 1) \div 2 + 1

\* initConsensusThreshold sets the thresholds of SrBlock and SrSignature
\* only; the consensus state's threshold map answers 0 for any other subround.
Threshold(subroundId) ==
    CASE subroundId = SrBlock     -> 1
      [] subroundId = SrSignature -> GetPBFTThreshold(GroupSize)
      [] OTHER                    -> 0

FallbackThreshold(subroundId) ==
    CASE subroundId = SrBlock     -> 1
      [] subroundId = SrSignature -> GetPBFTFallbackThreshold(GroupSize)
      [] OTHER                    -> 0

-----------------------------------------------------------------------------
(* Time, threads, messages.                                                *)

InTime        == 0
PastThreshold == 1
RoundOver     == 2

JobThread == 0
Threads   == 0 .. MaxDeliveries
NoThread  == -1

PCs == { "idle", "receivedFinalInfo", "receivedInvalidSigners", "receivedHeader",
         "participant", "participantCommit", "participantFinish",
         "leaderSendFinalInfo", "leaderBroadcast", "leaderCommit", "leaderFinish",
         "done" }

Peers == { PeerOf[v] : v \in Validators }

\* A report inside an invalid signers message: a p2p message of peer
\* (authentic: its p2p signature verifies) whose consensus payload names
\* pubKey and carries a signature share of pubKey that verifies or not.
Reports == [pubKey : Validators, peer : Peers, authentic : BOOLEAN, shareValid : BOOLEAN]

Messages == FinalInfoMessages \cup InvalidSignersMessages \cup HeaderMessages

ASSUME /\ \A m \in FinalInfoMessages :
            m \in [type : {"FinalInfo"}, pubKey : Validators, round : {0, 1},
                   hashMatches : BOOLEAN, valid : BOOLEAN]
       /\ \A m \in InvalidSignersMessages :
            m \in [type : {"InvalidSigners"}, pubKey : Validators, round : {0, 1},
                   hashMatches : BOOLEAN, decodable : BOOLEAN, reports : Seq(Reports)]
       /\ \A m \in HeaderMessages :
            m \in [type : {"Header"}, matchesCandidate : BOOLEAN]

VARIABLES
    SelfPubKey,         \* this node's key for the round
    managedKeys,        \* keys IsKeyManagedByCurrentNode answers true for
    jobDone,            \* members whose SrSignature completion flag is set
    invalidShares,      \* members whose stored signature share does not verify
    signatureFinished,  \* status of SrSignature is SsFinished
    headerSet,          \* sr.Header, sr.Body and the consensus data hash are set
    endRoundFinished,   \* status of SrEndRound is SsFinished
    RoundCanceled,
    ExtendedCalled,
    processingBlock,    \* SetProcessingBlock
    clock,
    hasProof,           \* hasEquivalentProof(hash of the candidate header)
    receivedHeaders,    \* headers buffered by AddReceivedHeader
    headerBitmap,       \* bitmap the leader path set on sr.Header (<< >>: none)
    pc, msg,            \* per thread: where it is, the message it handles
    lockHolder,         \* holder of mutProcessingEndRound
    commits,            \* CommitBlock calls that succeeded, in order
    sent,               \* consensus messages broadcast or handed to the delayed broadcaster
    blacklisted,        \* peer ids given to BlacklistPeer
    penalized,          \* keys whose honesty score was decreased
    rewarded,           \* keys whose honesty score was increased
    panicked            \* a goroutine panicked: the node process is gone

roundVars  == << SelfPubKey, managedKeys, jobDone, invalidShares, signatureFinished, headerSet >>
stateVars  == << endRoundFinished, RoundCanceled, ExtendedCalled, processingBlock,
                 clock, hasProof, receivedHeaders, headerBitmap >>
threadVars == << pc, msg, lockHolder >>
effectVars == << commits, sent, blacklisted, penalized, rewarded, panicked >>
vars == << roundVars, stateVars, threadVars, effectVars >>

-----------------------------------------------------------------------------
(* Queries of the consensus state.                                         *)

IsNodeInConsensusGroup(node)      == node \in Members
IsNodeLeaderInCurrentRound(node)  == node = Leader
IsSelfLeaderInCurrentRound        == SelfPubKey = Leader
IsMultiKeyLeaderInCurrentRound    == Leader \in managedKeys
IsMultiKeyInConsensusGroup        == Members \cap managedKeys # {}
IsConsensusDataSet                == headerSet
RoundIndex                        == IF clock = RoundOver THEN 1 ELSE 0

\* CanProcessReceivedMessage: the message is for the current round index and
\* this subround is not finished yet.
CanProcessReceivedMessage(m) == m.round = RoundIndex /\ ~endRoundFinished

\* doEndRoundConsensusCheck, the subround's Check.
doEndRoundConsensusCheck == ~RoundCanceled /\ endRoundFinished

\* isOutOfTime: past processingThresholdPercentage of the round.
OutOfTime == clock >= PastThreshold

\* getLeader: SelfPubKey under the flag, the round's leader otherwise.
getLeader == IF EquivalentProofs THEN SelfPubKey ELSE Leader

Return(t) == pc' = [pc EXCEPT ![t] = "done"]
Goto(t, label) == pc' = [pc EXCEPT ![t] = label]

-----------------------------------------------------------------------------
(* What the node hands to the broadcast messenger.                          *)

NoIndex == -1

\* A message or block data with its type, the signers its bitmap names, the
\* proof it carries and the group index it is staged under.
Broadcast(type, signers, proof, index) ==
    [type |-> type, signers |-> signers, proof |-> proof, index |-> index]

LowestOf(S) == CHOOSE x \in S : \A y \in S : x <= y

\* ConsensusGroupIndex: the 0-based position of pk in the group.
ConsensusGroupIndex(pk) == CHOOSE i \in 0 .. GroupSize - 1 : ConsensusGroup[i + 1] = pk

\* The lowest group index of a key this node manages, GroupSize if none.
getMinConsensusGroupIndexOfManagedKeys ==
    LowestOf({GroupSize} \cup { i \in 0 .. GroupSize - 1 : ConsensusGroup[i + 1] \in managedKeys })

\* The index the node's share of the block data is staged under: the lowest
\* of its own and its managed keys' indices; GroupSize means an error.
getIndexPkAndDataToBroadcast ==
    LowestOf({getMinConsensusGroupIndexOfManagedKeys}
             \cup IF SelfPubKey \in Members THEN {ConsensusGroupIndex(SelfPubKey)} ELSE {})

\* Stage block data for the delayed broadcast, nothing when
\* getIndexPkAndDataToBroadcast fails.
StageForValidator(type) ==
    IF getIndexPkAndDataToBroadcast = GroupSize THEN {}
    ELSE {Broadcast(type, {}, "none", getIndexPkAndDataToBroadcast)}

prepareBroadcastBlockDataForValidator == StageForValidator("ValidatorBlockData")

setHeaderForValidator == StageForValidator("ValidatorHeader")

createAndBroadcastInvalidSigners(invalidSigners) ==
    {Broadcast("InvalidSigners", invalidSigners, "none", NoIndex)}

-----------------------------------------------------------------------------
(* Received final info: receivedBlockHeaderFinalInfo.                       *)

\* isBlockHeaderFinalInfoValid: the leader and aggregate signatures (classic)
\* or the signature over the previous hash (equivalent proofs) verify.
isBlockHeaderFinalInfoValid(m) == headerSet /\ m.valid

receivedBlockHeaderFinalInfo(t) ==
    LET m    == msg[t]
        node == m.pubKey
        isSenderAllowed == IF EquivalentProofs THEN IsNodeInConsensusGroup(node)
                                               ELSE IsNodeLeaderInCurrentRound(node)
        isSelfSender    == IF EquivalentProofs THEN node = SelfPubKey
                                               ELSE IsSelfLeaderInCurrentRound \/ IsMultiKeyLeaderInCurrentRound
        accepted == /\ ~isSelfSender
                    /\ m.hashMatches
                    /\ CanProcessReceivedMessage(m)
                    /\ isBlockHeaderFinalInfoValid(m)
    IN  /\ ~panicked
        /\ pc[t] = "receivedFinalInfo"
        /\ \/ /\ ~IsConsensusDataSet
              /\ Return(t)
              /\ UNCHANGED << penalized, rewarded >>
           \/ /\ IsConsensusDataSet /\ ~isSenderAllowed
              /\ penalized' = penalized \cup {node}
              /\ Return(t)
              /\ UNCHANGED rewarded
           \/ /\ IsConsensusDataSet /\ isSenderAllowed /\ ~accepted
              /\ Return(t)
              /\ UNCHANGED << penalized, rewarded >>
           \/ /\ IsConsensusDataSet /\ isSenderAllowed /\ accepted
              /\ rewarded' = rewarded \cup {node}
              /\ Goto(t, "participant")
              /\ UNCHANGED penalized
        /\ UNCHANGED << roundVars, stateVars, msg, lockHolder, commits, sent, blacklisted, panicked >>

-----------------------------------------------------------------------------
(* Received invalid signers: receivedInvalidSignersInfo.                    *)

\* Index of the first report whose p2p signature does not verify; the loop
\* of verifyInvalidSigners returns its error there.
FirstForged(reports) ==
    IF \A i \in 1 .. Len(reports) : reports[i].authentic THEN Len(reports) + 1
    ELSE CHOOSE i \in 1 .. Len(reports) :
            ~reports[i].authentic /\ \A j \in 1 .. i - 1 : reports[j].authentic

\* Mutant: applyBlacklistOnNode is given the reported public key instead of
\* the peer id of the p2p message.
verifyInvalidSignersByPubKey(m) ==
    IF ~m.decodable THEN {}
    ELSE { m.reports[i].pubKey : i \in { i \in 1 .. FirstForged(m.reports) - 1 :
                                          ~m.reports[i].shareValid } }

\* verifyInvalidSigner applied to the reports before the first forged one:
\* when the embedded share fails VerifySingleSignature for the key the
\* payload names, msg.Peer(), the peer that signed the p2p message, is
\* blacklisted; nothing ties that peer to the key.
verifyInvalidSigners(m) ==
    IF ~m.decodable THEN {}
    ELSE { m.reports[i].peer : i \in { i \in 1 .. FirstForged(m.reports) - 1 :
                                        ~m.reports[i].shareValid } }

\* verifyInvalidSigners returns no error.
InvalidSignersVerified(m) == m.decodable /\ FirstForged(m.reports) > Len(m.reports)

receivedInvalidSignersInfo(t) ==
    LET m      == msg[t]
        sender == m.pubKey
        isSenderAllowed == IF EquivalentProofs THEN IsNodeInConsensusGroup(sender)
                                               ELSE IsNodeLeaderInCurrentRound(sender)
        isSelfSender    == IF EquivalentProofs THEN IsSelfLeaderInCurrentRound \/ IsMultiKeyLeaderInCurrentRound
                                               ELSE sender = SelfPubKey
        passesGates == /\ ~isSelfSender
                       /\ m.hashMatches
                       /\ CanProcessReceivedMessage(m)
                       /\ m.reports # << >>
    IN  /\ ~panicked
        /\ pc[t] = "receivedInvalidSigners"
        /\ \/ /\ ~IsConsensusDataSet
              /\ UNCHANGED << penalized, rewarded, blacklisted >>
           \/ /\ IsConsensusDataSet /\ ~isSenderAllowed
              /\ penalized' = penalized \cup {sender}
              /\ UNCHANGED << rewarded, blacklisted >>
           \/ /\ IsConsensusDataSet /\ isSenderAllowed /\ ~passesGates
              /\ UNCHANGED << penalized, rewarded, blacklisted >>
           \/ /\ IsConsensusDataSet /\ isSenderAllowed /\ passesGates
              /\ blacklisted' = blacklisted \cup verifyInvalidSigners(m)
              /\ rewarded' = IF InvalidSignersVerified(m) THEN rewarded \cup {sender} ELSE rewarded
              /\ UNCHANGED penalized
        /\ Return(t)
        /\ UNCHANGED << roundVars, stateVars, msg, lockHolder, commits, sent, panicked >>

-----------------------------------------------------------------------------
(* Received header: receivedHeader.                                         *)

receivedHeader(t) ==
    /\ ~panicked
    /\ pc[t] = "receivedHeader"
    /\ \/ /\ IsSelfLeaderInCurrentRound \/ IsMultiKeyLeaderInCurrentRound
          /\ Return(t)
          /\ UNCHANGED << receivedHeaders, msg >>
       \/ /\ ~IsSelfLeaderInCurrentRound /\ ~IsMultiKeyLeaderInCurrentRound
          /\ receivedHeaders' = receivedHeaders \cup {msg[t].matchesCandidate}
          \* doEndRoundJobByParticipant(nil)
          /\ msg' = [msg EXCEPT ![t] = Nil]
          /\ Goto(t, "participant")
    /\ UNCHANGED << roundVars, endRoundFinished, RoundCanceled, ExtendedCalled, processingBlock,
                    clock, hasProof, headerBitmap, lockHolder, effectVars >>

-----------------------------------------------------------------------------
(* doEndRoundJobByParticipant, under mutProcessingEndRound.                 *)

\* isConsensusHeaderReceived: a buffered header equals the candidate.
isConsensusHeaderReceived == headerSet /\ TRUE \in receivedHeaders

\* haveConsensusHeaderWithFullInfo: a nil message uses a received header,
\* a final info message completes the node's own candidate header.
haveConsensusHeaderWithFullInfo(t) ==
    IF msg[t] = Nil THEN isConsensusHeaderReceived ELSE headerSet

\* Mutant: the check that this subround is not finished yet is dropped.
ParticipantMayProcessUnfinished(t) ==
    /\ ~RoundCanceled
    /\ IsConsensusDataSet
    /\ signatureFinished
    /\ haveConsensusHeaderWithFullInfo(t)

\* The checks before SetProcessingBlock(true).
ParticipantMayProcess(t) ==
    /\ ~RoundCanceled
    /\ IsConsensusDataSet
    /\ signatureFinished
    /\ ~endRoundFinished
    /\ haveConsensusHeaderWithFullInfo(t)

\* The header is for round index 0 of the model.
shouldNotCommitBlock == ExtendedCalled \/ 0 < RoundIndex

\* Lock, the early returns, isOutOfTime, and entry to the commit section.
\* An early return unlocks in the same step, so the lock is taken only by
\* a thread that goes on to commit.
doEndRoundJobByParticipant(t) ==
    /\ ~panicked
    /\ pc[t] = "participant"
    /\ lockHolder = NoThread
    /\ \/ /\ ~ParticipantMayProcess(t) \/ shouldNotCommitBlock
          /\ Return(t)
          /\ UNCHANGED << RoundCanceled, processingBlock, lockHolder >>
       \/ /\ ParticipantMayProcess(t) /\ ~shouldNotCommitBlock /\ OutOfTime
          /\ RoundCanceled' = TRUE
          /\ Return(t)
          /\ UNCHANGED << processingBlock, lockHolder >>
       \/ /\ ParticipantMayProcess(t) /\ ~shouldNotCommitBlock /\ ~OutOfTime
          /\ lockHolder' = t
          /\ processingBlock' = TRUE
          /\ Goto(t, "participantCommit")
          /\ UNCHANGED RoundCanceled
    /\ UNCHANGED << roundVars, endRoundFinished, ExtendedCalled, clock, hasProof,
                    receivedHeaders, headerBitmap, msg, effectVars >>

\* Unlock and reset the processing flag (the deferred calls).
Release == lockHolder' = NoThread /\ processingBlock' = FALSE

\* Mutant: a failed commit returns without the deferred Unlock.
participantCommitNoUnlock(t) ==
    /\ ~panicked
    /\ pc[t] = "participantCommit"
    /\ \/ /\ processingBlock' = FALSE
          /\ Return(t)
          /\ UNCHANGED << commits, lockHolder >>
       \/ /\ commits' = Append(commits, [by |-> t, bitmap |-> << >>])
          /\ Goto(t, "participantFinish")
          /\ UNCHANGED << lockHolder, processingBlock >>
    /\ UNCHANGED << roundVars, endRoundFinished, RoundCanceled, ExtendedCalled, clock,
                    hasProof, receivedHeaders, headerBitmap, msg,
                    sent, blacklisted, penalized, rewarded, panicked >>

\* IsProcessedOKWithTimeout and CommitBlock; either may fail.
participantCommit(t) ==
    /\ ~panicked
    /\ pc[t] = "participantCommit"
    /\ \/ /\ Release
          /\ Return(t)
          /\ UNCHANGED commits
       \/ /\ commits' = Append(commits, [by |-> t, bitmap |-> << >>])
          /\ Goto(t, "participantFinish")
          /\ UNCHANGED << lockHolder, processingBlock >>
    /\ UNCHANGED << roundVars, endRoundFinished, RoundCanceled, ExtendedCalled, clock,
                    hasProof, receivedHeaders, headerBitmap, msg,
                    sent, blacklisted, penalized, rewarded, panicked >>

\* After the commit: with the flag, cnsDta.BlockHeaderHash is read, which
\* panics for the nil message of the receivedHeader path; then SsFinished
\* and setHeaderForValidator for a member.
participantFinish(t) ==
    /\ ~panicked
    /\ pc[t] = "participantFinish"
    /\ \/ /\ EquivalentProofs /\ msg[t] = Nil
          /\ panicked' = TRUE
          /\ Release
          /\ Return(t)
          /\ UNCHANGED << endRoundFinished, sent >>
       \/ /\ ~(EquivalentProofs /\ msg[t] = Nil)
          /\ endRoundFinished' = TRUE
          /\ sent' = IF IsNodeInConsensusGroup(SelfPubKey) \/ IsMultiKeyInConsensusGroup
                     THEN sent \cup setHeaderForValidator
                     ELSE sent
          /\ Release
          /\ Return(t)
          /\ UNCHANGED panicked
    /\ UNCHANGED << roundVars, RoundCanceled, ExtendedCalled, clock, hasProof,
                    receivedHeaders, headerBitmap, msg,
                    commits, blacklisted, penalized, rewarded >>

-----------------------------------------------------------------------------
(* doEndRoundJobByLeader and sendFinalInfo, run by the Job with no lock.    *)

\* GenerateBitmap(SrSignature) for every possible set of completion flags,
\* and the signers computeSignersPublicKeys reads back from each of these
\* bitmaps.  Both are constant tables, evaluated once.
GroupBitmap == [done \in SUBSET Members |-> GenerateBitmap(ConsensusGroup, done)]

SignerSet(bitmap) ==
    LET signers == computeSignersPublicKeys(ConsensusGroup, bitmap)
    IN  { signers[i] : i \in DOMAIN signers }

GroupBitmapSigners == [bitmap \in { GroupBitmap[d] : d \in SUBSET Members } |-> SignerSet(bitmap)]

SignersOf(bitmap) ==
    IF bitmap \in DOMAIN GroupBitmapSigners THEN GroupBitmapSigners[bitmap] ELSE SignerSet(bitmap)

\* checkSignaturesValidity against the completion flags done.
checkSignaturesValidity(bitmap, done) ==
    /\ hasProposerSignature(bitmap, EquivalentProofs)
    /\ SignersOf(bitmap) \subseteq done

\* AggregateSigs and Verify over bitmap: the aggregate verifies iff no share
\* in it is invalid.
AggregateVerifies(bitmap) == SignersOf(bitmap) \cap invalidShares = {}

\* shouldSendFinalData: with the flag, not when a proof for the header is
\* already known.
shouldSendFinalData == ~EquivalentProofs \/ ~hasProof

\* Mutant: the failed shares are found but SetJobDone(pk, SrSignature, false)
\* is not reached, so no signer is excluded.
verifyNodesOnAggSigFailKeepsFlags == {}

\* Mutant: the result of VerifySignatureShare is tested the wrong way round,
\* so the members whose share verifies are taken for invalid.
verifyNodesOnAggSigFailInverted == jobDone \ invalidShares

\* verifyNodesOnAggSigFail: the members with the completion flag whose share
\* fails VerifySignatureShare.
verifyNodesOnAggSigFail == jobDone \cap invalidShares

\* getFullMessagesForInvalidSigners: the stored signed messages of the
\* invalid signers; a missing one is skipped.
getFullMessagesForInvalidSigners(invalid) == invalid \ MissingSignedMessages

\* computeAggSigOnValidNodes over the flags done left by the exclusion.
computeAggSigOnValidNodes(done) ==
    LET bitmap == GroupBitmap[done]
    IN  /\ Cardinality(done) >= Threshold(SrEndRound)
        /\ checkSignaturesValidity(bitmap, done)
        /\ done # {}                       \* AggregateSigs of no share fails

\* handleInvalidSignersOnAggSigFail: the members whose share fails lose
\* their completion flag and are penalised, the signed messages found for
\* them are broadcast as invalid signers, and the aggregate is computed over
\* the members left; an error of the last step ends the leader path.
handleInvalidSignersOnAggSigFail ==
    LET invalid   == verifyNodesOnAggSigFail
        validDone == jobDone \ invalid
        reported  == getFullMessagesForInvalidSigners(invalid)
    IN /\ jobDone' = validDone
       /\ penalized' = penalized \cup invalid
       /\ sent' = IF reported # {}
                  THEN sent \cup createAndBroadcastInvalidSigners(reported)
                  ELSE sent
       /\ IF computeAggSigOnValidNodes(validDone)
          THEN /\ headerBitmap' = GroupBitmap[validDone]
               /\ Goto(JobThread, "leaderBroadcast")
          ELSE /\ Return(JobThread)
               /\ UNCHANGED headerBitmap

sendFinalInfo ==
    LET bitmap == GroupBitmap[jobDone]
    IN
    /\ ~panicked
    /\ pc[JobThread] = "leaderSendFinalInfo"
    /\ \/ /\ ~shouldSendFinalData
          /\ Goto(JobThread, "leaderCommit")
          /\ UNCHANGED << jobDone, headerBitmap, sent, penalized >>
       \/ /\ shouldSendFinalData /\ ~checkSignaturesValidity(bitmap, jobDone)
          /\ Return(JobThread)
          /\ UNCHANGED << jobDone, headerBitmap, sent, penalized >>
       \/ /\ shouldSendFinalData /\ checkSignaturesValidity(bitmap, jobDone)
          /\ AggregateVerifies(bitmap)
          /\ headerBitmap' = bitmap
          /\ Goto(JobThread, "leaderBroadcast")
          /\ UNCHANGED << jobDone, sent, penalized >>
       \/ /\ shouldSendFinalData /\ checkSignaturesValidity(bitmap, jobDone)
          /\ ~AggregateVerifies(bitmap)
          /\ handleInvalidSignersOnAggSigFail
    /\ UNCHANGED << SelfPubKey, managedKeys, invalidShares, signatureFinished, headerSet,
                    endRoundFinished, RoundCanceled, ExtendedCalled, processingBlock,
                    clock, hasProof, receivedHeaders, msg, lockHolder,
                    commits, blacklisted, rewarded, panicked >>

\* The proof the final info carries: the header's own aggregate (classic);
\* with the flag, getValidatedEquivalentProof of the header hash, empty when
\* no proof for it is known.
FinalInfoProof ==
    CASE ~EquivalentProofs -> "own"
      [] hasProof          -> "pool"
      [] OTHER             -> "none"

\* createAndBroadcastHeaderFinalInfo: nothing is sent when getLeader is not
\* in the group (ConsensusGroupIndex fails).
createAndBroadcastHeaderFinalInfo ==
    IF getLeader \in Members
    THEN IF EquivalentProofs
         THEN {Broadcast("FinalInfoDelayed", SignersOf(headerBitmap), FinalInfoProof,
                         ConsensusGroupIndex(getLeader))}
         ELSE {Broadcast("FinalInfo", SignersOf(headerBitmap), FinalInfoProof, NoIndex)}
    ELSE {}

\* The tail of sendFinalInfo: IsProcessedOKWithTimeout, the end-of-round
\* check, and the final info broadcast.
sendFinalInfoBroadcast ==
    /\ ~panicked
    /\ pc[JobThread] = "leaderBroadcast"
    /\ \/ /\ Return(JobThread)                  \* scheduled processing not OK
          /\ UNCHANGED sent
       \/ /\ clock = RoundOver
          /\ Return(JobThread)
          /\ UNCHANGED sent
       \/ /\ clock # RoundOver
          /\ sent' = sent \cup createAndBroadcastHeaderFinalInfo
          /\ Goto(JobThread, "leaderCommit")
    /\ UNCHANGED << roundVars, stateVars, msg, lockHolder,
                    commits, blacklisted, penalized, rewarded, panicked >>

\* BroadcastHeader, then CommitBlock; an error of the commit returns false.
leaderCommit ==
    /\ ~panicked
    /\ pc[JobThread] = "leaderCommit"
    /\ sent' = sent \cup {Broadcast("Header", {}, "none", NoIndex)}
    /\ \/ /\ commits' = Append(commits, [by |-> JobThread, bitmap |-> headerBitmap])
          /\ Goto(JobThread, "leaderFinish")
       \/ /\ Return(JobThread)
          /\ UNCHANGED commits
    /\ UNCHANGED << roundVars, stateVars, msg, lockHolder,
                    blacklisted, penalized, rewarded, panicked >>

\* broadcastBlockDataLeader: the leader's miniblocks and transactions.  An
\* error of the marshalling or of getLeader is only logged by the caller;
\* the model takes the path on which they succeed.
broadcastBlockDataLeader == {Broadcast("BlockDataLeader", {}, "none", NoIndex)}

\* SsFinished and broadcastBlockDataLeader.
leaderFinish ==
    /\ ~panicked
    /\ pc[JobThread] = "leaderFinish"
    /\ endRoundFinished' = TRUE
    /\ sent' = sent \cup broadcastBlockDataLeader
    /\ Return(JobThread)
    /\ UNCHANGED << roundVars, RoundCanceled, ExtendedCalled, processingBlock, clock,
                    hasProof, receivedHeaders, headerBitmap, msg, lockHolder,
                    commits, blacklisted, penalized, rewarded, panicked >>

-----------------------------------------------------------------------------
(* The Job, the delivery of messages and headers, and the round's clock.    *)

\* doEndRoundJob: classic non-leaders stage their block data and run the
\* participant path with a nil message; a node outside the group stops;
\* every other node runs the leader path.
doEndRoundJob ==
    LET byParticipant == /\ ~IsSelfLeaderInCurrentRound
                         /\ ~IsMultiKeyLeaderInCurrentRound
                         /\ ~EquivalentProofs
        inGroup == IsNodeInConsensusGroup(SelfPubKey) \/ IsMultiKeyInConsensusGroup
    IN  /\ ~panicked
        /\ pc[JobThread] = "idle"
        /\ signatureFinished
        /\ clock # RoundOver
        /\ \/ /\ byParticipant
              \* prepareBroadcastBlockDataForValidator
              /\ sent' = IF inGroup
                         THEN sent \cup prepareBroadcastBlockDataForValidator
                         ELSE sent
              /\ msg' = [msg EXCEPT ![JobThread] = Nil]
              /\ Goto(JobThread, "participant")
           \/ /\ ~byParticipant /\ ~inGroup
              /\ Return(JobThread)
              /\ UNCHANGED << sent, msg >>
           \/ /\ ~byParticipant /\ inGroup
              /\ Goto(JobThread, "leaderSendFinalInfo")
              /\ UNCHANGED << sent, msg >>
        /\ UNCHANGED << roundVars, stateVars, lockHolder,
                        commits, blacklisted, penalized, rewarded, panicked >>

HandlerOf(m) ==
    CASE m.type = "FinalInfo"      -> "receivedFinalInfo"
      [] m.type = "InvalidSigners" -> "receivedInvalidSigners"
      [] m.type = "Header"         -> "receivedHeader"

\* The worker starts a goroutine for a message or header of the round.
Deliver(t) ==
    /\ ~panicked
    /\ pc[t] = "idle"
    /\ \E m \in Messages :
          /\ msg' = [msg EXCEPT ![t] = m]
          /\ Goto(t, HandlerOf(m))
    /\ UNCHANGED << roundVars, stateVars, lockHolder, effectVars >>

\* The round's time passes the processing threshold, then the round ends.
Tick ==
    /\ clock < RoundOver
    /\ clock' = clock + 1
    /\ UNCHANGED << roundVars, endRoundFinished, RoundCanceled, ExtendedCalled,
                    processingBlock, hasProof, receivedHeaders, headerBitmap,
                    threadVars, effectVars >>

\* The round driver calls Extend when the subround's window has passed and
\* its Check still fails.
Extend ==
    /\ ~panicked
    /\ clock >= PastThreshold
    /\ ~doEndRoundConsensusCheck
    /\ ~ExtendedCalled
    /\ ExtendedCalled' = TRUE
    /\ UNCHANGED << roundVars, endRoundFinished, RoundCanceled, processingBlock, clock,
                    hasProof, receivedHeaders, headerBitmap, threadVars, effectVars >>

\* With the flag, a proof for the candidate header arrives from the network.
ProofReceived ==
    /\ ~panicked
    /\ EquivalentProofs
    /\ ~hasProof
    /\ hasProof' = TRUE
    /\ UNCHANGED << roundVars, endRoundFinished, RoundCanceled, ExtendedCalled,
                    processingBlock, clock, receivedHeaders, headerBitmap,
                    threadVars, effectVars >>

\* The node is a backup machine of the keys it manages: a message from a
\* managed key reaches the worker, which calls the keys holder's
\* ResetRoundsWithoutReceivedMessages, and from then on
\* IsKeyManagedByCurrentNode answers false for the key, in the middle of
\* the round; every later IsMultiKey* query sees the smaller set.
ResetRoundsWithoutReceivedMessages ==
    /\ ~panicked
    /\ \E k \in managedKeys : managedKeys' = managedKeys \ {k}
    /\ UNCHANGED << SelfPubKey, jobDone, invalidShares, signatureFinished, headerSet,
                    stateVars, threadVars, effectVars >>

\* After the round the node moves on; this round's state no longer changes
\* by the round driver.
RoundEnded ==
    /\ clock = RoundOver
    /\ UNCHANGED vars

-----------------------------------------------------------------------------

Init ==
    /\ SelfPubKey \in SelfKeys
    /\ managedKeys \in ManagedKeySets
    /\ headerSet \in BOOLEAN
    /\ signatureFinished \in BOOLEAN
    /\ signatureFinished => headerSet
    /\ jobDone \in IF signatureFinished
                   THEN { d \in SUBSET Members : Cardinality(d) >= FallbackThreshold(SrSignature) }
                   ELSE {{}}
    /\ invalidShares \in SUBSET (jobDone \cap Byzantine)
    /\ endRoundFinished = FALSE
    /\ RoundCanceled = FALSE
    /\ ExtendedCalled = FALSE
    /\ processingBlock = FALSE
    /\ clock = InTime
    /\ hasProof = FALSE
    /\ receivedHeaders = {}
    /\ headerBitmap = << >>
    /\ pc = [t \in Threads |-> "idle"]
    /\ msg = [t \in Threads |-> Nil]
    /\ lockHolder = NoThread
    /\ commits = << >>
    /\ sent = {}
    /\ blacklisted = {}
    /\ penalized = {}
    /\ rewarded = {}
    /\ panicked = FALSE

\* The steps a started goroutine takes on its own, without waiting.
HandlerStep(t) ==
    \/ receivedBlockHeaderFinalInfo(t)
    \/ receivedInvalidSignersInfo(t)
    \/ receivedHeader(t)
    \/ participantCommit(t)
    \/ participantFinish(t)

ThreadStep(t) == HandlerStep(t) \/ doEndRoundJobByParticipant(t)

JobStep ==
    \/ doEndRoundJob
    \/ sendFinalInfo
    \/ sendFinalInfoBroadcast
    \/ leaderCommit
    \/ leaderFinish

Next ==
    \/ JobStep
    \/ \E t \in Threads : ThreadStep(t)
    \/ \E t \in Threads \ {JobThread} : Deliver(t)
    \/ Tick \/ Extend \/ ProofReceived \/ ResetRoundsWithoutReceivedMessages \/ RoundEnded

\* Goroutines are scheduled (weak fairness), and the clock always advances.
\* Each goroutine takes mutProcessingEndRound at most once and every holder
\* releases it within a bounded number of its own steps, so weak fairness of
\* the lock acquisition suffices: the lock is eventually free for good.
\* Delivery, Extend, proofs and resets of managed keys have no fairness.
Fairness ==
    /\ WF_vars(JobStep)
    /\ \A t \in Threads : WF_vars(ThreadStep(t))
    /\ WF_vars(Tick)

Spec == Init /\ [][Next]_vars /\ Fairness

-----------------------------------------------------------------------------
(* Properties.                                                              *)

SentKinds == { "FinalInfo", "FinalInfoDelayed", "InvalidSigners", "Header",
               "BlockDataLeader", "ValidatorBlockData", "ValidatorHeader" }

TypeOK ==
    /\ SelfPubKey \in SelfKeys /\ managedKeys \subseteq Validators
    /\ jobDone \subseteq Members /\ invalidShares \subseteq Members
    /\ { signatureFinished, headerSet, endRoundFinished, RoundCanceled,
         ExtendedCalled, processingBlock, hasProof, panicked } \subseteq BOOLEAN
    /\ clock \in InTime .. RoundOver
    /\ receivedHeaders \subseteq BOOLEAN
    /\ headerBitmap \in Seq(0 .. 255)
    /\ pc \in [Threads -> PCs]
    /\ msg \in [Threads -> Messages \cup {Nil}]
    /\ lockHolder \in Threads \cup {NoThread}
    /\ commits \in Seq([by : Threads, bitmap : Seq(0 .. 255)])
    /\ sent \subseteq [type : SentKinds, signers : SUBSET Members,
                       proof : {"own", "pool", "none"}, index : {NoIndex} \cup 0 .. GroupSize - 1]
    /\ blacklisted \subseteq Peers
    /\ penalized \subseteq Validators /\ rewarded \subseteq Validators

\* The aggregate the leader path (doEndRoundJobByLeader) puts on the block
\* it commits, and on the final info it broadcasts, is over shares that all
\* verify and whose completion flags are still set, after any exclusion by
\* handleInvalidSignersOnAggSigFail; with the flag it includes the
\* proposer's share.
LeaderAggregateValid ==
    LET valid(signers) == /\ signers \cap invalidShares = {}
                          /\ signers \subseteq jobDone
                          /\ EquivalentProofs => Leader \in signers
    IN  /\ \A i \in DOMAIN commits :
               commits[i].by = JobThread /\ commits[i].bitmap # << >>
                   => valid(SignersOf(commits[i].bitmap))
        /\ \A s \in sent :
               s.type \in {"FinalInfo", "FinalInfoDelayed"} /\ s.proof = "own"
                   => valid(s.signers)

\* No honest validator is blacklisted by receivedInvalidSignersInfo or has
\* its honesty score decreased by a handler or by the exclusion of invalid
\* signers, whatever reports and final infos the network delivers.  It is
\* checked without the propagation-changes flag, where only the leader's
\* reports are verified: with the flag any member's are, and a byzantine
\* member replaying an honest peer's message gets that peer blacklisted.
HonestPeersNeverPunished ==
    /\ blacklisted \subseteq { PeerOf[v] : v \in Byzantine }
    /\ penalized \subseteq Byzantine

\* Every goroutine a message starts, and the Job once started, returns
\* (or the process is gone): no thread waits forever on
\* mutProcessingEndRound.
HandlersReturn ==
    \A t \in Threads :
        pc[t] \notin {"idle", "done"} ~> (pc[t] = "done" \/ panicked)

\* The outcome of the round in terms of the abstract End-Round phase.
PhaseOf ==
    CASE endRoundFinished -> "Finished"
      [] Len(commits) > 0 -> "Committed"
      [] RoundCanceled    -> "Canceled"
      [] OTHER            -> "Pending"

Phase == INSTANCE EndRoundPhase WITH phase <- PhaseOf, committed <- Len(commits)

\* Whatever the interleaving of the Job and the message goroutines, the
\* round commits at most once, only while pending, and is marked finished
\* only after the commit: the End-Round subround implements EndRoundPhase.
EndRoundRefinement == Phase!PhaseSpec

\* The mutex of doEndRoundJobByParticipant lets exactly one commit reach
\* the block processor per round (the spec's mutual-exclusion property).
AtMostOneCommit == Len(commits) <= 1

\* The participant path never dereferences the nil message it is given by
\* receivedHeader.
NoNilMessageDereference == ~panicked

\* A block the leader path commits with an aggregate is signed by at least
\* the Signature subround's threshold of members: the recomputation after
\* an exclusion fails when fewer valid signers remain.
LeaderCommitHasQuorum ==
    \A i \in DOMAIN commits :
        commits[i].by = JobThread /\ commits[i].bitmap # << >>
            => Cardinality(SignersOf(commits[i].bitmap)) >= Threshold(SrSignature)

=============================================================================
