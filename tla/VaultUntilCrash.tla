-------------------------- MODULE VaultUntilCrash --------------------------
(***************************************************************************)
(* Vault, and a history variable: crashed notes whether a process died, or *)
(* failed to undo, in the middle of an operation.  Until then the vault    *)
(* keeps all that MemoryStore says.                                        *)
(***************************************************************************)
EXTENDS Vault

VARIABLE crashed

UntilCrashInit == Init /\ crashed = FALSE

UntilCrashNext ==
    \/ Next /\ UNCHANGED crashed
    \/ (\E p \in Proc : Crash(p) \/ RollbackFails(p)) /\ crashed' = TRUE

UntilCrashSpec == UntilCrashInit /\ [][UntilCrashNext]_<<vars, crashed>>

-----------------------------------------------------------------------------

\* StoreSpec of Vault, up to the first crash: remember, learn and forget are
\* atomic steps of MemoryStore, failed and undone writes included.
AtomicUntilCrash == Store!Init /\ [][UNCHANGED Committed \/ crashed' \/ Store!Next]_vars

\* What LineageLinear, SupersededHasHeir and OneActivePerKey of Vault say of
\* the chains of corrections (vault.py, learn and forget) holds up to the first
\* crash: they do not fork, every replaced statement has an heir, and a key has
\* one statement in force.
LineageUntilCrash == crashed \/ (LineageLinear /\ SupersededHasHeir /\ OneActivePerKey)
=============================================================================
