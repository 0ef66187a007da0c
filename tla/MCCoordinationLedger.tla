------------------------ MODULE MCCoordinationLedger ------------------------
(* Instances of CoordinationLedger for TLC: identities, chains and bodies  *)
(* are interchangeable.                                                    *)
EXTENDS CoordinationLedger, TLC

Symmetry == Permutations(Key) \cup Permutations(Chain) \cup Permutations(Body)
=============================================================================
