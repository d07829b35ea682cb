--------------------------- MODULE MCRuntimeOwner ---------------------------
(* An owner and the owner that succeeds it. *)
EXTENDS RuntimeOwner, TLC

CONSTANTS o1, o2, k1, q1

OwnerSymmetry == Permutations({o1, o2})
=============================================================================
