------------------------------ MODULE Cleanup ------------------------------
(***************************************************************************)
(* jobs.py LearningJobs.consolidate over the vault as MemoryStore promises *)
(* it: list the active memories of a scope, forget the exact duplicates    *)
(* one by one, and offer a summary of the rest as a proposal.  Nothing is  *)
(* locked between the list and a forget, so that anybody may learn,        *)
(* correct and forget meanwhile.  One pass runs at a time (Schedule).      *)
(*                                                                         *)
(* A listed row is a copy, but the content, key and ancestry of a memory   *)
(* never change; only its status can, and the pass does not look at it     *)
(* again.  Content is the text alone: as in learn, titles are not compared. *)
(***************************************************************************)
EXTENDS MemoryFiles

CONSTANTS
    Global,     \* the global scope
    MaxListed   \* memories looked at in one pass (100)

ASSUME GlobalAssumption == Global \in Scope /\ MaxListed \in Nat

VARIABLES
    store,      \* the vault
    pass,       \* the pass under way: rows to look at, contents seen, rows kept
    retracted,  \* what others took out of recall since the list
    proposed    \* the sources of the summaries offered for review

Store == INSTANCE MemoryStore

cleanupVars == <<store, pass, retracted, proposed>>

NoPass == [at |-> "idle", scope |-> Global, rows |-> {}, seen |-> {}, kept |-> {}]

CleanupTypeOK ==
    /\ Store!TypeOK
    /\ pass \in [at : {"idle", "cleaning"}, scope : Scope, rows : SUBSET Id,
                 seen : SUBSET Content, kept : SUBSET Id]
    /\ retracted \subseteq Scope \X Content
    /\ proposed \subseteq SUBSET Id

CleanupInit ==
    /\ Store!Init
    /\ pass = NoPass
    /\ retracted = {}
    /\ proposed = {}

Active(s) == {i \in Stored(store) : store[i].scope = s /\ store[i].status = "active"}

\* What recall knows in each scope.
InForce == {<<store[i].scope, store[i].content>> : i \in UNION {Active(s) : s \in Scope}}

-----------------------------------------------------------------------------

\* The newest hundred active memories; creation times may have any order.
List(s) ==
    /\ pass.at = "idle"
    /\ \E rows \in SUBSET Active(s) :
          /\ \/ rows = Active(s) /\ Cardinality(rows) <= MaxListed
             \/ Cardinality(rows) = MaxListed
          /\ pass' = [at |-> "cleaning", scope |-> s, rows |-> rows, seen |-> {}, kept |-> {}]
    /\ retracted' = {}
    /\ UNCHANGED <<store, proposed>>

\* Mutant: corrections are duplicates too.
RedundantCorrection(i) == store[i].content \in pass.seen /\ store[i].key = NoKey

\* An exact duplicate of a row before it that has no key and corrects nothing.
Redundant(i) ==
    /\ store[i].content \in pass.seen
    /\ store[i].key = NoKey
    /\ store[i].supersedes = NoId

\* The next row in order of creation: forgotten (again, if somebody else has
\* forgotten it meanwhile), or kept.
Examine(i) ==
    /\ pass.at = "cleaning" /\ i \in pass.rows
    /\ IF Redundant(i)
       THEN /\ Store!Forget(i) \/ (store[i].status = "forgotten" /\ UNCHANGED store)
            /\ pass' = [pass EXCEPT !.rows = @ \ {i}]
       ELSE /\ pass' = [pass EXCEPT !.rows = @ \ {i}, !.kept = @ \cup {i},
                                    !.seen = @ \cup {store[i].content}]
            /\ UNCHANGED store
    /\ UNCHANGED <<retracted, proposed>>

\* The provider's summary names at least two of the rows kept in the global
\* scope.  It becomes a proposal unless the same one is there already.
Summarize(ids) ==
    /\ pass.at = "cleaning" /\ pass.rows = {}
    /\ pass.scope = Global
    /\ ids \subseteq pass.kept /\ Cardinality(ids) >= 2
    /\ proposed' = proposed \cup {ids}
    /\ pass' = NoPass
    /\ UNCHANGED <<store, retracted>>

\* The end without a summary; an error (the vault is busy, the provider fails
\* or answers nonsense), or the death of the process, at any point.
Stop ==
    /\ pass.at = "cleaning"
    /\ pass' = NoPass
    /\ UNCHANGED <<store, retracted, proposed>>

\* Everybody else.
Others ==
    /\ Store!Next
    /\ retracted' = retracted \cup
          {<<store[i].scope, store[i].content>> :
              i \in {j \in Stored(store) : HasStatus(store, j, "active") /\ store'[j].status # "active"}}
    /\ UNCHANGED <<pass, proposed>>

CleanupStep == \E i \in Id : Examine(i)

CleanupNext ==
    \/ \E s \in Scope : List(s)
    \/ CleanupStep
    \/ \E ids \in SUBSET Id : Summarize(ids)
    \/ Stop
    \/ Others

CleanupSpec == CleanupInit /\ [][CleanupNext]_cleanupVars

-----------------------------------------------------------------------------

\* workbench.md: it "retires exact duplicate unkeyed records without correction
\* ancestry".  Cleaning takes no statement out of recall, except one that
\* somebody else has taken out in another copy since the list was made, and
\* brings none back.
OnlyDuplicatesGo ==
    [][CleanupStep => InForce' \subseteq InForce /\ InForce \ InForce' \subseteq retracted]_cleanupVars
=============================================================================
