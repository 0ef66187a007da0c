------------------------- MODULE MCFileStateStore --------------------------
(* Instances of FileStateStore for TLC.  Transactions other than genesis   *)
(* and bodies are interchangeable; fingerprints are too.                   *)
EXTENDS FileStateStoreInv, TLC

Symmetry ==
    Permutations(Tx \ {Genesis}) \cup Permutations(Body) \cup Permutations(Fp)
=============================================================================
