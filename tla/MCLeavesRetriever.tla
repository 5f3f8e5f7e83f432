-------------------------- MODULE MCLeavesRetriever --------------------------
(***************************************************************************)
(* Models of LeavesRetriever for TLC: two concurrent requests over two     *)
(* tries of four leaves, calls of up to two leaves.                        *)
(***************************************************************************)
EXTENDS LeavesRetriever, TLC

CONSTANTS q1, q2, r1, r2

MCRequests == {q1, q2}
MCRoots    == {r1, r2}

\* Iterator sizes: after one leaf 2 bytes, after two 3, after three 7 (as
\* large as the maxSize of both models, so never cached).
MCIteratorSize == [id \in MCRoots \X (1 .. 3) |-> CASE id[2] = 1 -> 2
                                                   [] id[2] = 2 -> 3
                                                   [] id[2] = 3 -> 7]

=============================================================================
