---------------------------- MODULE MemoryStore ----------------------------
(***************************************************************************)
(* What the vault promises its callers: remember, learn and forget each    *)
(* change the memory in one indivisible step or leave it as it was.        *)
(* Vault.tla shows how vault.py does it one file at a time.                *)
(***************************************************************************)
EXTENDS MemoryFiles

VARIABLE store

TypeOK == store \in Files

Init == store = NoMemories

(***************************************************************************)
(* remember: an explicit save, active, without key or provenance.          *)
(***************************************************************************)
Remember(i, s, c) ==
    /\ store[i] = NoFile
    /\ ~Full(store)
    /\ store' = [store EXCEPT ![i] =
                    [scope |-> s, key |-> NoKey, content |-> c,
                     status |-> "active", supersedes |-> NoId]]

(***************************************************************************)
(* learn: a new statement, and the retirement of the one it replaces.      *)
(***************************************************************************)
Learn(s, o, c, k, target, provisional) ==
    LET id == <<s, o>> IN
    /\ target = NoId \/ ~provisional
    /\ ~Duplicate(store, id, s, k, c, provisional)
    /\ ValidTarget(store, s, target)
    /\ ~Full(store)
    /\ \E prior \in Priors(store, s, k, target, provisional) :
          LET new == [scope |-> s, key |-> k, content |-> c,
                      status |-> IF provisional THEN "provisional" ELSE "active",
                      supersedes |-> prior]
          IN store' = [i \in Id |-> IF i = id THEN new
                                    ELSE IF i = prior THEN WithStatus(store[i], "superseded")
                                    ELSE store[i]]

(***************************************************************************)
(* forget: the memory leaves recall for good, and the statement it had     *)
(* replaced comes back in the same step.                                   *)
(***************************************************************************)
Forget(i) ==
    /\ store[i] # NoFile
    /\ store[i].status # "forgotten"
    /\ store' = [j \in Id |-> IF j = i THEN WithStatus(store[j], "forgotten")
                              ELSE IF j = Restorable(store, i) THEN WithStatus(store[j], "active")
                              ELSE store[j]]

Next ==
    \/ \E i \in Uuid, s \in Scope, c \in Content : Remember(i, s, c)
    \/ \E s \in Scope, o \in Occurrence, c \in Content, k \in Key \cup {NoKey},
          target \in Id \cup {NoId}, provisional \in BOOLEAN :
             Learn(s, o, c, k, target, provisional)
    \/ \E i \in Id : Forget(i)

Spec == Init /\ [][Next]_store

-----------------------------------------------------------------------------

\* Corrections never dangle and never leave their scope: what learn stored as
\* the predecessor of a statement is still there to go back to.
LineageClosed == LineageClosedIn(store)

\* A chain of corrections never forks: a replaced statement has one live
\* successor, so forgetting that one can bring the predecessor back.
LineageLinear == LineageLinearIn(store)

\* A statement is out of force only because another one replaced it.
SupersededHasHeir == SupersededHasHeirIn(store)

\* As long as every correction stays within its key, a new explicit statement
\* under a key replaces the old one, and forgetting brings back exactly one.
OneActivePerKey == KeyLocalIn(store) => OneActivePerKeyIn(store)
=============================================================================
