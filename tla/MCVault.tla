------------------------------ MODULE MCVault ------------------------------
(* Vault on small instances: the constants are model values set in the cfg. *)
EXTENDS VaultUntilCrash, TLC

\* Contents, occurrences, uuids and processes are only compared for equality.
Symmetry == Permutations(Content) \cup Permutations(Occurrence)
            \cup Permutations(Proc) \cup Permutations(Key) \cup Permutations(Scope)
=============================================================================
