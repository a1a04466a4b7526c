----------------------------- MODULE MCUserAdmin -----------------------------
(* Finite instances of UserAdmin: an admin, users who may become one.       *)
EXTENDS UserAdmin, TLC

CONSTANTS ann, bob, cay, r1, r2
Symmetry == Permutations(Request) \cup Permutations(User \ {Boot})
=============================================================================
