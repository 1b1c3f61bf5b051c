---------------------------- MODULE MCProposals ----------------------------
(* What a consolidation changes: the memories it cleans up (Cleanup), and    *)
(* the proposals its summaries join (Proposals).  They share no file, so     *)
(* each is explored by itself.                                               *)
EXTENDS Proposals, Cleanup, TLC

MCInit == Init /\ CleanupInit

ReviewSteps  == CleanupInit /\ Next /\ UNCHANGED cleanupVars
CleanupSteps == Init /\ CleanupNext /\ UNCHANGED vars

MCSpec == MCInit /\ [][ReviewSteps \/ CleanupSteps]_<<vars, cleanupVars>>

Symmetry == UNION {Permutations(S) : S \in {Proc, Content}}
=============================================================================
