----------------------------- MODULE MCEndRound -----------------------------
(***************************************************************************)
(* Models of EndRound for TLC: a group of four validators v1..v4 (v1 the   *)
(* leader and proposer), an outsider o, and the messages the network may   *)
(* deliver in each protocol variant.  v3 and o (and, in one model, v1)     *)
(* are byzantine: only they send messages that do not follow the           *)
(* protocol, and only their shares may be invalid.                         *)
(***************************************************************************)
EXTENDS EndRound, TLC, Bitwise

CONSTANTS v1, v2, v3, v4, o, p1, p2, p3, p4, po

MCValidators     == {v1, v2, v3, v4, o}
MCConsensusGroup == << v1, v2, v3, v4 >>
MCPeerOf         == (v1 :> p1) @@ (v2 :> p2) @@ (v3 :> p3) @@ (v4 :> p4) @@ (o :> po)
MCByzantine      == {v3, o}
\* With the flag, the proposer v1 may be byzantine too: its invalid share is
\* excluded, and the proposer check then fails the recomputation.
MCByzantineProof == {v1, v3, o}

FinalInfo(sender, rnd, valid) ==
    [type |-> "FinalInfo", pubKey |-> sender, round |-> rnd, hashMatches |-> TRUE, valid |-> valid]

InvalidSigners(sender, reports) ==
    [type |-> "InvalidSigners", pubKey |-> sender, round |-> 0, hashMatches |-> TRUE,
     decodable |-> TRUE, reports |-> reports]

Report(pk, peer, authentic, shareValid) ==
    [pubKey |-> pk, peer |-> peer, authentic |-> authentic, shareValid |-> shareValid]

Header(matches) == [type |-> "Header", matchesCandidate |-> matches]

\* Classic variant: the leader's final info, a final info from a
\* non-leader, the leader's report of v3, the same report from outside
\* the group, and a header that does or does not match the candidate.
ClassicFinalInfo      == { FinalInfo(v1, 0, TRUE), FinalInfo(v3, 0, TRUE) }
ClassicInvalidSigners == { InvalidSigners(v1, << Report(v3, p3, TRUE, FALSE) >>),
                           InvalidSigners(o, << Report(v3, p3, TRUE, FALSE) >>) }
ClassicHeaders        == { Header(TRUE), Header(FALSE) }

\* Equivalent-proof variant: final infos from a member and from the
\* byzantine v3 (whose signature does not verify); v2's report of v3, a
\* report by v3 that quotes the honest v2's genuine share, then a forged
\* message, and a report by v3 that replays an authentic message of v2
\* carrying no valid share (a header or final info message of v2).
ProofFinalInfo      == { FinalInfo(v2, 0, TRUE), FinalInfo(v3, 0, FALSE) }
ProofInvalidSigners == { InvalidSigners(v2, << Report(v3, p3, TRUE, FALSE) >>),
                         InvalidSigners(v3, << Report(v2, p2, TRUE, TRUE), Report(v2, p2, FALSE, FALSE) >>),
                         InvalidSigners(v3, << Report(v2, p2, TRUE, FALSE) >>) }
ProofHeaders        == { Header(TRUE) }

\* An authentic report naming an honest validator's key was signed by that
\* validator's own peer: an honest key is only used by its node.
ASSUME \A m \in ClassicInvalidSigners \cup ProofInvalidSigners :
          \A i \in 1 .. Len(m.reports) :
             m.reports[i].authentic /\ m.reports[i].pubKey \notin MCByzantine \cap MCByzantineProof
                 => m.reports[i].peer = MCPeerOf[m.reports[i].pubKey]

-----------------------------------------------------------------------------
(* The bitmap codec of Bitmap.tla, checked against a reference definition  *)
(* over every consensus group of up to ten members (crossing a byte        *)
(* boundary) and byte strings of up to two bytes.  These are constant      *)
(* expressions: TLC evaluates them once.                                   *)

BitmapGroupSizes == 0 .. 10
BitmapByteValues == {0, 1, 2, 3, 85, 128, 170, 255}

IndexGroup(n) == [i \in 1 .. n |-> i]

Bitmaps == UNION { [1 .. len -> BitmapByteValues] : len \in 0 .. 2 }

\* Reference reading of bit i: a bitwise AND of byte i \div 8 with the mask
\* 2^(i % 8).
RefBit(bitmap, i) == (bitmap[(i \div 8) + 1] & (2 ^ (i % 8))) > 0

\* Reference decoding: the members, in group order, whose index is below
\* 8 * len(bitmap) and whose bit is set.
RefSigners(group, bitmap) ==
    LET idx == { i \in 0 .. Len(group) - 1 : i < 8 * Len(bitmap) /\ RefBit(bitmap, i) }
        KthSmallest(k) == CHOOSE i \in idx : Cardinality({ j \in idx : j < i }) = k - 1
    IN  [k \in 1 .. Cardinality(idx) |-> group[KthSmallest(k) + 1]]

\* The reference checks over all inputs: constant expressions, which TLC
\* evaluates once.
DecodingMatchesReference ==
    \A n \in BitmapGroupSizes, bitmap \in Bitmaps :
        computeSignersPublicKeys(IndexGroup(n), bitmap) = RefSigners(IndexGroup(n), bitmap)

\* computeSignersPublicKeys returns exactly the members whose bit is set,
\* preserving group order, and never reads past min(groupSize, 8*len(bitmap))
\* (a read past the bitmap would be an evaluation error of TLC): on every
\* input, and on the bitmap the leader put in the header of this round.
SignersMatchReference ==
    /\ DecodingMatchesReference
    /\ headerBitmap # << >> =>
          computeSignersPublicKeys(ConsensusGroup, headerBitmap) = RefSigners(ConsensusGroup, headerBitmap)

=============================================================================
