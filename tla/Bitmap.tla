------------------------------- MODULE Bitmap -------------------------------
(***************************************************************************)
(* The signer bitmap of the BLS consensus: a byte string in which bit i    *)
(* (byte i \div 8, bit i % 8, least significant bit first) stands for the  *)
(* consensus group member at index i.  Index 0 is the proposer.            *)
(*                                                                         *)
(* computeSignersPublicKeys and hasProposerSignature are translated from   *)
(* consensus/spos/bls/subroundEndRound.go; GenerateBitmap is the reverse   *)
(* mapping the consensus state uses to build a bitmap from the completion  *)
(* flags of a subround (that code is not in this repository).              *)
(***************************************************************************)
EXTENDS Integers, Sequences, FiniteSets

\* bitmap[i/8] & (1 << (i%8)) > 0, with Go's 0-based byte and bit indices:
\* the (i % 8)-th binary digit of the byte is 1.
IsBitSet(bitmap, i) == (bitmap[(i \div 8) + 1] \div (2 ^ (i % 8))) % 2 = 1

\* The loop of computeSignersPublicKeys from index i up to size - 1.
RECURSIVE SignersFrom(_, _, _, _)
SignersFrom(consensusGroup, bitmap, i, size) ==
    IF i >= size THEN << >>
    ELSE IF IsBitSet(bitmap, i)
         THEN << consensusGroup[i + 1] >> \o SignersFrom(consensusGroup, bitmap, i + 1, size)
         ELSE SignersFrom(consensusGroup, bitmap, i + 1, size)

\* Mutation: the loop starts at index 1, so the proposer is never a signer.
computeSignersSkippingProposer(consensusGroup, bitmap) ==
    LET size == IF Len(consensusGroup) > Len(bitmap) * 8 THEN Len(bitmap) * 8 ELSE Len(consensusGroup)
    IN  SignersFrom(consensusGroup, bitmap, 1, size)

\* The members whose bit is set, in group order, reading no bit past
\* min(len(consensusGroup), 8 * len(bitmap)).
computeSignersPublicKeys(consensusGroup, bitmap) ==
    LET nbBitsBitmap       == Len(bitmap) * 8
        consensusGroupSize == Len(consensusGroup)
        size == IF consensusGroupSize > nbBitsBitmap THEN nbBitsBitmap ELSE consensusGroupSize
    IN  SignersFrom(consensusGroup, bitmap, 0, size)

\* Bit 0 (the proposer) must be set when the equivalent-proof variant
\* (ConsensusPropagationChangesFlag) is active; the classic variant skips it.
hasProposerSignature(bitmap, equivalentProofs) ==
    ~equivalentProofs \/ IsBitSet(bitmap, 0)

\* The bits k .. 7 of byte b (1-based) of the bitmap: bitmap[i/8] |= 1 << (i%8)
\* for every member index i = 8 * (b - 1) + k in the group whose flag is set.
RECURSIVE ByteBits(_, _, _, _)
ByteBits(consensusGroup, done, b, k) ==
    IF k > 7 THEN 0
    ELSE LET i == (b - 1) * 8 + k
         IN  (IF i < Len(consensusGroup) /\ consensusGroup[i + 1] \in done THEN 2 ^ k ELSE 0)
             + ByteBits(consensusGroup, done, b, k + 1)

\* ConsensusState.GenerateBitmap: len(group)/8 + 1 bytes, bit i set iff the
\* member at index i has its completion flag set (done is the set of them).
GenerateBitmap(consensusGroup, done) ==
    [b \in 1 .. (Len(consensusGroup) \div 8) + 1 |-> ByteBits(consensusGroup, done, b, 0)]
=============================================================================
