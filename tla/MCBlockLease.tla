---------------------------- MODULE MCBlockLease ----------------------------
(* Small instances of BlockLease for TLC. *)
EXTENDS BlockLease, TLC

CONSTANTS ra, rb, b1, b2, b3

MCSymmetry == Permutations(Blocks) \cup Permutations(Owners)
=============================================================================
