----------------------------- MODULE MCHaSlave -----------------------------
(* HaSlave with versions 0..3 below u64::MAX = 4 and terms 0..2.            *)
EXTENDS HaSlave, TLC

MCVersion == 0 .. 4
MCTerm == {0, 1, 2, 4}
Symmetric == Permutations(Payload)
=============================================================================
