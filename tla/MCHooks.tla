------------------------------ MODULE MCHooks ------------------------------
(* A finite instance of Hooks: three requests from two addresses to the two  *)
(* feeds of a user, with limits that two of them exceed, and room for one   *)
(* address, so that the second evicts the first.                            *)
EXTENDS Hooks, TLC

CONSTANTS r1, r2, r3, i1, i2, t1, t2, t3

MCOwner == [f \in Feed |-> "alice"]
MCFirstToken == [f \in Feed |-> IF f = "news" THEN t1 ELSE t2]
Symmetry == Permutations(Request) \cup Permutations(Ip)
=============================================================================
