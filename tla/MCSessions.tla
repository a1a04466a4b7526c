----------------------------- MODULE MCSessions -----------------------------
(* A finite instance of Sessions: two logins and two changes, which may all *)
(* overlap, and a clock that outlives the sessions and the buckets.         *)
EXTENDS Sessions, TLC

CONSTANTS s1, s2, c1, c2

MCLimit  == [k \in Key |-> IF k = "ip" THEN 1 ELSE 2]
MCWindow == [k \in Key |-> IF k = "ip" THEN 1 ELSE 2]
Symmetry == Permutations(Session) \cup Permutations(Change)
=============================================================================
