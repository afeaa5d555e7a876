--------------------------- MODULE MCModelRegistry ---------------------------
(***************************************************************************)
(* TLC instance of ModelRegistry: versions and threads are interchangeable.*)
(***************************************************************************)
EXTENDS ModelRegistry, TLC

RegistrySymmetry == Permutations(Versions) \cup Permutations(Workers)
=============================================================================
