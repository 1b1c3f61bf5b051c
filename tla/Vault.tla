------------------------------- MODULE Vault -------------------------------
(***************************************************************************)
(* vault.py: processes (CLI, MCP server, workbench, scheduled run) that    *)
(* change the same directory of Markdown files under one fail-fast file    *)
(* lock.  Each write is an atomic replacement of one file; remember, learn *)
(* and forget need up to three of them, and undo what they did when one    *)
(* fails.  A crash releases the lock and leaves the files as they are.     *)
(***************************************************************************)
EXTENDS MemoryFiles

CONSTANTS
    Proc,    \* processes that open the vault
    NoProc,  \* nobody holds the lock
    NoJob    \* a process with no operation under way

ASSUME DistinctHolder == NoProc \notin Proc

VARIABLES
    files,   \* the Markdown files under memories/
    lock,    \* the holder of .ai-dememory.write.lock
    pc,      \* how far each process is in its operation
    job      \* what each process read and is about to write

vars == <<files, lock, pc, job>>

(***************************************************************************)
(* A job keeps copies, as the code does: the memory to write (learn) or    *)
(* as it was before (forget), and the predecessor as it was when read.     *)
(***************************************************************************)
Job == [id : Id, memory : Memory, prior : Id \cup {NoId},
        priorMemory : Memory \cup {NoFile}]

ASSUME DistinctJob == NoJob \notin Job

Step == {"idle", "locked", "write", "verify", "retire", "unlink",
         "hide", "restore", "unhide"}

TypeOK ==
    /\ files \in Files
    /\ lock \in Proc \cup {NoProc}
    /\ pc \in [Proc -> Step]
    /\ job \in [Proc -> Job \cup {NoJob}]

Init ==
    /\ files = NoMemories
    /\ lock = NoProc
    /\ pc = [p \in Proc |-> "idle"]
    /\ job = [p \in Proc |-> NoJob]

-----------------------------------------------------------------------------

\* Mutant: the lock file is opened but never locked.
LockNotExclusive(p) ==
    /\ pc[p] = "idle"
    /\ lock' = p
    /\ pc' = [pc EXCEPT ![p] = "locked"]
    /\ UNCHANGED <<files, job>>

(***************************************************************************)
(* The lock is taken without waiting: while another process holds it the   *)
(* call ends at once with VaultBusyError and changes nothing.              *)
(***************************************************************************)
Lock(p) ==
    /\ pc[p] = "idle"
    /\ lock = NoProc
    /\ lock' = p
    /\ pc' = [pc EXCEPT ![p] = "locked"]
    /\ UNCHANGED <<files, job>>

\* The operation ends, by its return or by an exception, and unlocks.
Return(p) ==
    /\ lock' = NoProc
    /\ pc' = [pc EXCEPT ![p] = "idle"]
    /\ job' = [job EXCEPT ![p] = NoJob]

Goto(p, step) == /\ pc' = [pc EXCEPT ![p] = step]
                 /\ UNCHANGED lock

\* Under the lock, a call finds it has nothing to write: a duplicate, an
\* unknown or foreign id, an invalid target, the file limit.
Refuse(p) == pc[p] = "locked" /\ Return(p) /\ UNCHANGED files

Begin(p, step, id, memory, prior) ==
    /\ pc[p] = "locked"
    /\ job' = [job EXCEPT ![p] =
                  [id |-> id, memory |-> memory, prior |-> prior,
                   priorMemory |-> IF prior = NoId THEN NoFile ELSE files[prior]]]
    /\ Goto(p, step)
    /\ UNCHANGED files

-----------------------------------------------------------------------------
(***************************************************************************)
(* remember and learn read the whole directory, decide, and then write.    *)
(***************************************************************************)

\* Mutant: a supplied id that exists with other content is overwritten.
RememberOverwrites(p, i, s, c) ==
    IF Full(files)
    THEN Refuse(p)
    ELSE Begin(p, "write", i,
               [scope |-> s, key |-> NoKey, content |-> c,
                status |-> "active", supersedes |-> NoId], NoId)

\* An existing supplied id is returned as it is (or refused, when title,
\* content or scope differ); uuid4 never draws an id in use.
Remember(p, i, s, c) ==
    IF files[i] # NoFile \/ Full(files)
    THEN Refuse(p)
    ELSE Begin(p, "write", i,
               [scope |-> s, key |-> NoKey, content |-> c,
                status |-> "active", supersedes |-> NoId], NoId)

\* Mutant: the memory names the target it was given, not what it replaced.
LearnNamesTarget(p, s, o, c, k, target, provisional) ==
    LET id == <<s, o>> IN
    /\ target = NoId \/ ~provisional
    /\ IF \/ Duplicate(files, id, s, k, c, provisional)
          \/ ~ValidTarget(files, s, target)
          \/ Full(files)
       THEN Refuse(p)
       ELSE \E prior \in Priors(files, s, k, target, provisional) :
               Begin(p, "write", id,
                     [scope |-> s, key |-> k, content |-> c,
                      status |-> IF provisional THEN "provisional" ELSE "active",
                      supersedes |-> target], prior)

\* The id is a function of the occurrence, so a retry finds what it created;
\* provisional learning with a target is refused before the lock.
Learn(p, s, o, c, k, target, provisional) ==
    LET id == <<s, o>> IN
    /\ target = NoId \/ ~provisional
    /\ IF \/ Duplicate(files, id, s, k, c, provisional)
          \/ ~ValidTarget(files, s, target)
          \/ Full(files)
       THEN Refuse(p)
       ELSE \E prior \in Priors(files, s, k, target, provisional) :
               Begin(p, "write", id,
                     [scope |-> s, key |-> k, content |-> c,
                      status |-> IF provisional THEN "provisional" ELSE "active",
                      supersedes |-> prior], prior)

\* The atomic replacement happens, or raises and leaves no file.
Write(p) ==
    /\ pc[p] = "write"
    /\ \/ /\ files' = [files EXCEPT ![job[p].id] = job[p].memory]
          /\ Goto(p, "verify")
          /\ UNCHANGED job
       \/ Return(p) /\ UNCHANGED files

\* The file is read back: as written, the call goes on; unreadable or
\* different, it is unlinked and the call fails.
Verify(p) ==
    /\ pc[p] = "verify"
    /\ \/ /\ job[p].prior = NoId
          /\ Return(p) /\ UNCHANGED files
       \/ /\ job[p].prior # NoId
          /\ Goto(p, "retire") /\ UNCHANGED <<files, job>>
       \/ /\ files' = [files EXCEPT ![job[p].id] = NoFile]
          /\ Return(p)

\* The copy of the predecessor read earlier is written back as superseded.
Retire(p) ==
    /\ pc[p] = "retire"
    /\ \/ /\ files' = [files EXCEPT ![job[p].prior] =
                          WithStatus(job[p].priorMemory, "superseded")]
          /\ Return(p)
       \/ Goto(p, "unlink") /\ UNCHANGED <<files, job>>

\* The retirement failed: the new memory is unlinked again.
Unlink(p) ==
    /\ pc[p] = "unlink"
    /\ files' = [files EXCEPT ![job[p].id] = NoFile]
    /\ Return(p)

-----------------------------------------------------------------------------
(***************************************************************************)
(* forget: hide the memory, then bring back what it replaced.              *)
(***************************************************************************)

Forget(p, i, s) ==
    IF files[i] = NoFile \/ files[i].scope # s \/ files[i].status = "forgotten"
    THEN Refuse(p)
    ELSE Begin(p, "hide", i, files[i], Restorable(files, i))

Hide(p) ==
    /\ pc[p] = "hide"
    /\ \/ /\ files' = [files EXCEPT ![job[p].id] = WithStatus(job[p].memory, "forgotten")]
          /\ IF job[p].prior = NoId THEN Return(p)
             ELSE Goto(p, "restore") /\ UNCHANGED job
       \/ Return(p) /\ UNCHANGED files

\* Mutant: a failed restoration is not undone.
RestoreLeavesHidden(p) ==
    /\ pc[p] = "restore"
    /\ \/ /\ files' = [files EXCEPT ![job[p].prior] = WithStatus(job[p].priorMemory, "active")]
          /\ Return(p)
       \/ Return(p) /\ UNCHANGED files

Restore(p) ==
    /\ pc[p] = "restore"
    /\ \/ /\ files' = [files EXCEPT ![job[p].prior] = WithStatus(job[p].priorMemory, "active")]
          /\ Return(p)
       \/ Goto(p, "unhide") /\ UNCHANGED <<files, job>>

\* The restoration failed: the memory is written back as it was.
Unhide(p) ==
    /\ pc[p] = "unhide"
    /\ files' = [files EXCEPT ![job[p].id] = job[p].memory]
    /\ Return(p)

-----------------------------------------------------------------------------
(***************************************************************************)
(* Two things the code cannot undo: the end of a process, and a second     *)
(* I/O error while it undoes the first.                                    *)
(***************************************************************************)

Crash(p) == pc[p] # "idle" /\ Return(p) /\ UNCHANGED files

RollbackFails(p) ==
    /\ pc[p] \in {"verify", "unlink", "unhide"}
    /\ Return(p) /\ UNCHANGED files

Call(p) ==
    \/ \E i \in Uuid, s \in Scope, c \in Content : Remember(p, i, s, c)
    \/ \E s \in Scope, o \in Occurrence, c \in Content, k \in Key \cup {NoKey},
          target \in Id \cup {NoId}, provisional \in BOOLEAN :
             Learn(p, s, o, c, k, target, provisional)
    \/ \E i \in Id, s \in Scope : Forget(p, i, s)

Continue(p) ==
    \/ Write(p) \/ Verify(p) \/ Retire(p) \/ Unlink(p)
    \/ Hide(p) \/ Restore(p) \/ Unhide(p)

\* Every process runs; a write may fail, its undoing does not.
Next == \E p \in Proc : Lock(p) \/ Call(p) \/ Continue(p)

Spec == Init /\ [][Next]_vars

\* As above, and a process may also die or fail to undo at any step.
CrashNext == Next \/ \E p \in Proc : Crash(p) \/ RollbackFails(p)

CrashSpec == Init /\ [][CrashNext]_vars

-----------------------------------------------------------------------------
(***************************************************************************)
(* What survives every interleaving, failure and crash (CrashSpec).        *)
(***************************************************************************)

\* memory_count() is compared before the write: the lock keeps two writers
\* from passing the comparison together.
FileLimit == Cardinality(Stored(files)) <= MaxFiles

\* A memory's predecessor is always there to go back to, also while a new
\* memory is being rolled back and after a crash in the middle of learn.
LineageClosed == LineageClosedIn(files)

\* Forgotten is final: no retry of the same occurrence, correction or undo
\* brings the memory back, except the forget that is undoing itself.
ForgottenIsFinal ==
    [][\A i \in Id : HasStatus(files, i, "forgotten") =>
          \/ files'[i] = files[i]
          \/ \E p \in Proc : pc[p] = "unhide" /\ job[p].id = i]_vars

\* Nothing but its status changes in a stored memory: the copies that retire,
\* restore and undo write back are never stale.
HistoryKept ==
    [][\A i \in Id : files[i] # NoFile /\ files'[i] # NoFile =>
          files'[i] = WithStatus(files[i], files'[i].status)]_vars

\* A statement leaves recall only by being forgotten, by the rollback of its
\* own creation, or when the statement that replaces it is already active.
NeverLost ==
    [][\A i \in Id : HasStatus(files, i, "active") =>
          \/ files'[i] # NoFile /\ files'[i].status \in {"active", "forgotten"}
          \/ files'[i] = NoFile /\ \E p \in Proc : job[p] # NoJob /\ job[p].id = i
          \/ \E j \in Id : HasStatus(files', j, "active") /\ files'[j].supersedes = i]_vars

\* An inference never becomes a fact: a provisional memory is not activated,
\* replaced or restored, only forgotten.
ProvisionalStaysOut ==
    [][\A i \in Id : HasStatus(files, i, "provisional") /\ files'[i] # NoFile =>
          files'[i].status \in {"provisional", "forgotten"}]_vars

-----------------------------------------------------------------------------
(***************************************************************************)
(* Why the above holds: only the holder of the lock is in the middle of an *)
(* operation, so the copies it took are still what the files say.          *)
(***************************************************************************)
Held == \A p \in Proc : pc[p] # "idle" => lock = p

Learning == {"write", "verify", "retire", "unlink"}

Forgetting == {"hide", "restore", "unhide"}

PriorCurrent(j, st) ==
    j.prior # NoId =>
        /\ j.prior # j.id
        /\ j.memory.status = "active"
        /\ j.memory.supersedes = j.prior
        /\ j.priorMemory = files[j.prior]
        /\ HasStatus(files, j.prior, st)
        /\ files[j.prior].scope = j.memory.scope

LearnCurrent(p) ==
    pc[p] \in Learning =>
        /\ job[p] \in Job
        /\ job[p].memory.supersedes = job[p].prior
        /\ job[p].memory.status \in {"active", "provisional"}
        /\ PriorCurrent(job[p], "active")
        /\ files[job[p].id] = IF pc[p] = "write" THEN NoFile ELSE job[p].memory
        /\ \A i \in Stored(files) : files[i].supersedes # job[p].id

ForgetCurrent(p) ==
    pc[p] \in Forgetting =>
        /\ job[p] \in Job
        /\ job[p].memory.status # "forgotten"
        /\ PriorCurrent(job[p], "superseded")
        /\ files[job[p].id] = IF pc[p] = "hide" THEN job[p].memory
                              ELSE WithStatus(job[p].memory, "forgotten")

\* No process acts on a copy that has gone stale since it read the vault, not
\* even after another process died in the middle of its own operation.
JobsCurrent ==
    \A p \in Proc :
        /\ LearnCurrent(p)
        /\ ForgetCurrent(p)
        /\ pc[p] \in {"retire", "unlink", "restore", "unhide"} => job[p].prior # NoId

-----------------------------------------------------------------------------
(***************************************************************************)
(* Without a crash the files implement MemoryStore: an operation takes     *)
(* effect at its last write, and what is under way is not there yet.       *)
(***************************************************************************)
Creating(i) == \E p \in Proc : pc[p] \in {"verify", "retire", "unlink"} /\ job[p].id = i

Hiding(i) == \E p \in Proc : pc[p] \in {"restore", "unhide"} /\ job[p].id = i

Committed == [i \in Id |->
    IF Creating(i) THEN NoFile
    ELSE IF Hiding(i) THEN WithStatus(files[i], "active")
    ELSE files[i]]

Store == INSTANCE MemoryStore WITH store <- Committed

\* remember, learn and forget are atomic for every caller that takes the lock.
StoreSpec == Store!Spec

\* A chain of corrections never forks, so that forgetting its last statement
\* brings one predecessor back.
LineageLinear == Store!LineageLinear

\* A statement is out of force only because another one replaced it, also
\* after failed writes have been undone.
SupersededHasHeir == Store!SupersededHasHeir

\* workbench.md: "A new explicit statement with that key replaces the old one
\* in the same scope" - as long as no correction that names its target by id
\* carries another key: such a one leaves the active statement of its own key
\* beside it.
OneActivePerKey == Store!OneActivePerKey

\* README.md: "forgetting the latest correction restores its predecessor".  A
\* crash between the two writes of forget leaves the predecessor superseded,
\* and forgetting again finds nothing to do.
ForgettingRestores == lock = NoProc => SupersededHasHeirIn(files)
=============================================================================
