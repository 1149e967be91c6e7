------------------------------- MODULE MCTftp -------------------------------
(* Instances of TftpSystem for TLC. *)
EXTENDS TftpRefinement, TLC

CONSTANTS c1, c2, d1, d2, d3, srv, f1, f2, f3

\* f1 ends in a short block; f2 and f3 in a full one, and need an empty last
\* packet.  With BLKMOD = 3 that of f3 has no block number left.
MCTailLen == [f \in Files |-> IF f = f1 THEN 1 ELSE 0]

MCNFull == [f \in Files |-> IF f = f3 THEN 2 ELSE 1]

MCSymmetry == Permutations(Children)
=============================================================================
