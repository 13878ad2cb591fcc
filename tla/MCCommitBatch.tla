---------------------------- MODULE MCCommitBatch ----------------------------
(* Two copies of one data set, as model values. *)
EXTENDS CommitBatch, TLC

CONSTANTS c1, c2

MCCopies == {c1, c2}
MCSymmetry == Permutations(MCCopies)
=============================================================================
