------------------------ MODULE MCStoreSetupExtension ------------------------
(* Small instances of StoreSetupExtension for TLC. *)
EXTENDS StoreSetupExtension, TLC

CONSTANTS s1, s2, t1, t2, t3

Symmetry == Permutations({s1, s2}) \cup Permutations({t1, t2})
=============================================================================
