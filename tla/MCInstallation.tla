--------------------------- MODULE MCInstallation ---------------------------
(* How other programs are connected: the connection to a client and the     *)
(* scheduled task, the projects a client is served in, and the adapter of    *)
(* Hermes.  They share no file and no lock, so each is explored by itself.   *)
EXTENDS Installation, ScheduledTask, Connections, Hermes, TLC

CONSTANTS main, worktree, scope1, scope2, o1

\* A checkout with a worktree: a binding of the checkout holds in both.
FollowsDef == main :> <<main>> @@ worktree :> <<worktree, main>>

\* Without one both have the scope of their common Git directory.
AutomaticDef == main :> scope1 @@ worktree :> scope1

\* The occurrences of Hermes, and one of another client.
OccurrenceDef == Own \cup {o1}

\* What is installed, and the user's own text, are only compared for equality.
Symmetry == Permutations(Version) \cup Permutations(Text)

MCInit == Init /\ TaskInit /\ ConnectionInit /\ HermesInit

ClientSteps ==
    /\ TaskInit /\ ConnectionInit /\ HermesInit
    /\ Next /\ UNCHANGED <<taskVars, connectionVars, hermesVars>>
TaskSteps ==
    /\ Init /\ ConnectionInit /\ HermesInit
    /\ TaskNext /\ UNCHANGED <<vars, connectionVars, hermesVars>>
ConnectionSteps ==
    /\ Init /\ TaskInit /\ HermesInit
    /\ ConnectionNext /\ UNCHANGED <<vars, taskVars, hermesVars>>
HermesSteps ==
    /\ Init /\ TaskInit /\ ConnectionInit
    /\ HermesNext /\ UNCHANGED <<vars, taskVars, connectionVars>>

MCSpec ==
    MCInit /\ [][ClientSteps \/ TaskSteps \/ ConnectionSteps \/ HermesSteps]_
                   <<vars, taskVars, connectionVars, hermesVars>>
=============================================================================
