---------------------------- MODULE MCStoreSetup ----------------------------
(* Small instances of StoreSetup for TLC. *)
EXTENDS StoreSetup, TLC

CONSTANTS m1, m2, s1, s2, t1, t2, d1, d2, r1, r2

Symmetry == Permutations({m1, m2}) \cup Permutations({s1, s2}) \cup Permutations({t1, t2})
            \cup Permutations({d1, d2}) \cup Permutations({r1, r2})
=============================================================================
