------------------------------ MODULE MCLambda ------------------------------
(* Lambda with two packages and one published version. *)
EXTENDS Lambda, TLC
CONSTANTS i1, i2, k1, k2, b1, b2
Perms == Permutations({k1, k2}) \cup Permutations({b1, b2})
=============================================================================
