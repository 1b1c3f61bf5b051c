---------------------------- MODULE MemoryFiles ----------------------------
(***************************************************************************)
(* The canonical memory of a vault as data (models.py Memory, vault.py):   *)
(* one Markdown file per memory id.  A value of the set Files maps every   *)
(* id to the record its file holds, or to NoFile.  The title, timestamps,  *)
(* path and provenance of a memory are abstracted: a content stands for    *)
(* the title and text together.                                            *)
(***************************************************************************)
EXTENDS Naturals, FiniteSets

CONSTANTS
    Scope,       \* routing labels ("global", "project:x")
    Key,         \* correction keys
    Content,     \* title and text of a memory
    Occurrence,  \* (provider, session, turn, event id) of a learned statement
    Uuid,        \* ids drawn by uuid4, or supplied by an accepted proposal
    MaxFiles,    \* MAX_MEMORY_FILES
    NoKey, NoId, NoFile

\* uuid5 over (scope, occurrence) is taken to be injective.
Id == (Scope \X Occurrence) \cup Uuid

Status == {"active", "provisional", "superseded", "forgotten"}

Memory == [scope : Scope, key : Key \cup {NoKey}, content : Content,
           status : Status, supersedes : Id \cup {NoId}]

ASSUME DistinctNames ==
    /\ NoKey \notin Key
    /\ NoId \notin Id
    /\ NoFile \notin Memory

ASSUME LimitAssumption == MaxFiles \in Nat

Files == [Id -> Memory \cup {NoFile}]

NoMemories == [i \in Id |-> NoFile]

\* The ids that iter_memory_paths yields a file for.
Stored(f) == {i \in Id : f[i] # NoFile}

HasStatus(f, i, st) == f[i] # NoFile /\ f[i].status = st

\* memory_count() >= MAX_MEMORY_FILES: nothing more may be created.
Full(f) == Cardinality(Stored(f)) >= MaxFiles

\* The active memories under a correction key of a scope.
Current(f, s, k) ==
    {i \in Stored(f) : f[i].scope = s /\ f[i].key = k /\ f[i].status = "active"}

(***************************************************************************)
(* learn answers "duplicate" when this occurrence was learned before,      *)
(* whatever became of it, or when the same statement is already in force.  *)
(***************************************************************************)
Duplicate(f, id, s, k, c, provisional) ==
    \/ f[id] # NoFile
    \/ \E i \in Stored(f) :
          /\ f[i].scope = s /\ f[i].content = c /\ f[i].key = k
          /\ \/ f[i].status = "active"
             \/ f[i].status = "provisional" /\ provisional

\* Mutant: only the existence of the target is checked.
ValidTargetExists(f, s, target) == target # NoId => f[target] # NoFile

\* An explicit "supersedes" must name an active memory of the same scope.
ValidTarget(f, s, target) ==
    target # NoId => HasStatus(f, target, "active") /\ f[target].scope = s

\* Mutant: a keyed statement replaces nothing unless told to.
PriorsExplicitOnly(f, s, k, target, provisional) == {target}

(***************************************************************************)
(* What a new statement replaces: its explicit target, else the first      *)
(* active memory of its key in directory order (any of them, here), else   *)
(* nothing.  A provisional statement replaces nothing.                     *)
(***************************************************************************)
Priors(f, s, k, target, provisional) ==
    IF target = NoId /\ ~provisional /\ k # NoKey /\ Current(f, s, k) # {}
    THEN Current(f, s, k)
    ELSE {target}

\* Mutant: forgetting brings nothing back.
RestorableNever(f, i) == NoId

\* Mutant: the predecessor comes back without looking at its own status.
RestorableAnyStatus(f, i) ==
    IF /\ f[i].status = "active"
       /\ f[i].supersedes # NoId
       /\ f[f[i].supersedes] # NoFile
       /\ f[f[i].supersedes].scope = f[i].scope
    THEN f[i].supersedes ELSE NoId

(***************************************************************************)
(* The predecessor that forgetting i brings back: only the one an active   *)
(* memory replaced, and only while it still stands as superseded.          *)
(***************************************************************************)
Restorable(f, i) ==
    IF /\ f[i].status = "active"
       /\ f[i].supersedes # NoId
       /\ HasStatus(f, f[i].supersedes, "superseded")
       /\ f[f[i].supersedes].scope = f[i].scope
    THEN f[i].supersedes ELSE NoId

WithStatus(memory, st) == [memory EXCEPT !.status = st]

(***************************************************************************)
(* What makes a set of files a sound history.                              *)
(***************************************************************************)

\* A predecessor named by a memory is a stored memory of the same scope.
LineageClosedIn(f) ==
    \A i \in Stored(f) : f[i].supersedes # NoId =>
        /\ f[i].supersedes \in Stored(f)
        /\ f[f[i].supersedes].scope = f[i].scope

\* Whatever a memory in force replaced is out of force, and no two memories
\* in force (or replaced in turn) claim the same predecessor.
LineageLinearIn(f) ==
    \A i \in Stored(f) :
        f[i].status # "forgotten" /\ f[i].supersedes # NoId =>
            /\ f[f[i].supersedes].status \in {"superseded", "forgotten"}
            /\ \A j \in Stored(f) \ {i} :
                  f[j].supersedes = f[i].supersedes => f[j].status = "forgotten"

\* Nothing is superseded without a memory to show for it: some successor is
\* still there, or was itself corrected before it was forgotten.
SupersededHasHeirIn(f) ==
    \A q \in Stored(f) : f[q].status = "superseded" =>
        \E i \in Stored(f) :
            /\ f[i].supersedes = q
            /\ \/ f[i].status # "forgotten"
               \/ \E j \in Stored(f) : f[j].supersedes = i

\* No correction crosses from one key to another.
KeyLocalIn(f) ==
    \A i \in Stored(f) : f[i].supersedes # NoId => f[f[i].supersedes].key = f[i].key

\* A key has one value in force in a scope.
OneActivePerKeyIn(f) ==
    \A s \in Scope, k \in Key : \A i, j \in Current(f, s, k) : i = j
=============================================================================
