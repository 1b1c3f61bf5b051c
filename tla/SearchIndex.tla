---------------------------- MODULE SearchIndex ----------------------------
(***************************************************************************)
(* search.py: a search first brings the generated SQLite index up to date  *)
(* with the Markdown files, then queries it, then reads every hit again    *)
(* from its file.  The vault and its user change files at any moment.      *)
(*                                                                         *)
(* sync reads the index rows before its transaction begins: Python's       *)
(* sqlite3 opens one only at the first DELETE or INSERT.  A file is listed, *)
(* then its modification time and size (its stamp) are taken, then it is   *)
(* read.  Every change of a file gives it a new stamp.                     *)
(*                                                                         *)
(* "Visible" is an active memory of the searched scope.  Every query       *)
(* matches every memory.                                                   *)
(***************************************************************************)
EXTENDS Naturals, FiniteSets

CONSTANTS
    Searcher,     \* processes that search
    Path,         \* file names
    Id,           \* memory ids
    MaxStamp,     \* bound: how many times files change
    NoSearcher, NoFile

Stamp == 1 .. MaxStamp

\* What a file holds, and what the index holds of it.
File == [id : Id, stamp : Stamp, visible : BOOLEAN]

ASSUME SearchAssumption ==
    /\ MaxStamp \in Nat
    /\ NoSearcher \notin Searcher
    /\ NoFile \notin File

\* What a sync knows of the file it looks at.
Look == [path : Path, stamp : Stamp, read : File \cup {NoFile}]

\* memory_files by path, and the ids in memory_fts.
Index == [rows : [Path -> File \cup {NoFile}], fts : SUBSET Id]

Empty == [rows |-> [p \in Path |-> NoFile], fts |-> {}]

VARIABLES
    clock,    \* the last stamp given
    disk,     \* the Markdown files
    index,    \* the committed index
    txn,      \* the searcher that holds the index's write transaction
    draft,    \* the index as its transaction sees it
    pc,       \* how far each search is
    view,     \* the rows it read last: existing of a sync, the hits of a query
    todo,     \* the files it still has to look at; the hits still to read
    file,     \* the file it looks at, with the stamp taken before reading
    results,  \* the hits so far
    stable    \* auxiliary: the paths unchanged since the search began

vars == <<clock, disk, index, txn, draft, pc, view, todo, file, results, stable>>
db == <<index, txn, draft>>
search == <<pc, view, todo, file, results>>

TypeOK ==
    /\ clock \in 0 .. MaxStamp
    /\ disk \in [Path -> File \cup {NoFile}]
    /\ index \in Index /\ draft \in Index
    /\ txn \in Searcher \cup {NoSearcher}
    /\ pc \in [Searcher -> {"idle", "list", "remove", "scan", "read", "store", "query",
                            "hits", "done", "duplicate", "failed"}]
    /\ view \in [Searcher -> [Path -> File \cup {NoFile}]]
    /\ todo \in [Searcher -> SUBSET Path]
    /\ file \in [Searcher -> Look \cup {NoFile}]
    /\ results \in [Searcher -> SUBSET Path]
    /\ stable \in [Searcher -> SUBSET Path]

Init ==
    /\ clock = 0
    /\ disk = Empty.rows
    /\ index = Empty /\ draft = Empty
    /\ txn = NoSearcher
    /\ pc = [s \in Searcher |-> "idle"]
    /\ view = [s \in Searcher |-> Empty.rows]
    /\ todo = [s \in Searcher |-> {}]
    /\ file = [s \in Searcher |-> NoFile]
    /\ results = [s \in Searcher |-> {}]
    /\ stable = [s \in Searcher |-> {}]

-----------------------------------------------------------------------------
(***************************************************************************)
(* Files change: the vault and its user create, rewrite and remove them.   *)
(***************************************************************************)
OnDisk == {p \in Path : disk[p] # NoFile}

Touch(paths) ==
    /\ stable' = [s \in Searcher |-> stable[s] \ paths]
    /\ UNCHANGED <<db, search>>

Save(p, id, visible) ==
    /\ clock < MaxStamp
    /\ clock' = clock + 1
    /\ disk' = [disk EXCEPT ![p] = [id |-> id, stamp |-> clock', visible |-> visible]]
    /\ Touch({p})

Create(p, id) ==
    /\ disk[p] = NoFile
    /\ \A q \in OnDisk : disk[q].id # id
    /\ Save(p, id, TRUE)

Rewrite(p) ==
    /\ disk[p] # NoFile
    /\ Save(p, disk[p].id, ~disk[p].visible)

Remove(p) ==
    /\ disk[p] # NoFile
    /\ disk' = [disk EXCEPT ![p] = NoFile]
    /\ Touch({p}) /\ UNCHANGED clock

-----------------------------------------------------------------------------
(***************************************************************************)
(* One search.                                                             *)
(***************************************************************************)
Goto(s, step) == pc' = [pc EXCEPT ![s] = step]

\* An exception closes the connection, which rolls the transaction back.
End(s, step) ==
    /\ Goto(s, step)
    /\ txn' = IF txn = s THEN NoSearcher ELSE txn
    /\ draft' = IF txn = s THEN Empty ELSE draft
    /\ view' = [view EXCEPT ![s] = Empty.rows]
    /\ todo' = [todo EXCEPT ![s] = {}]
    /\ file' = [file EXCEPT ![s] = NoFile]
    /\ results' = [results EXCEPT ![s] = {}]
    /\ stable' = [stable EXCEPT ![s] = {}]
    /\ UNCHANGED <<clock, disk, index>>

\* Mutant: search trusts the index it finds.
StartStale(s) ==
    /\ pc[s] = "idle"
    /\ Goto(s, "query")
    /\ stable' = [stable EXCEPT ![s] = OnDisk]
    /\ UNCHANGED <<clock, disk, db, view, todo, file, results>>

\* The search begins: the rows of the index are read outside a transaction.
Start(s) ==
    /\ pc[s] = "idle"
    /\ Goto(s, "list")
    /\ view' = [view EXCEPT ![s] = index.rows]
    /\ stable' = [stable EXCEPT ![s] = OnDisk]
    /\ UNCHANGED <<clock, disk, db, todo, file, results>>

List(s) ==
    /\ pc[s] = "list"
    /\ Goto(s, "remove")
    /\ todo' = [todo EXCEPT ![s] = OnDisk]
    /\ UNCHANGED <<clock, disk, db, view, file, results, stable>>

\* The first write of a sync begins its transaction, which excludes others.
Writes(s, step, changed) ==
    /\ txn \in {s, NoSearcher}
    /\ txn' = s
    /\ draft' = changed
    /\ Goto(s, step)

Mine(s) == IF txn = s THEN draft ELSE index

Known(s) == {p \in Path : view[s][p] # NoFile}
Missing(s) == Known(s) \ todo[s]

\* Rows of files that are gone go, and leave the sync's own view.
RemoveMissing(s) ==
    /\ pc[s] = "remove"
    /\ IF Missing(s) = {}
       THEN Goto(s, "scan") /\ UNCHANGED <<txn, draft>>
       ELSE Writes(s, "scan",
               [rows |-> [p \in Path |-> IF p \in Missing(s) THEN NoFile ELSE Mine(s).rows[p]],
                fts  |-> Mine(s).fts \ {view[s][p].id : p \in Missing(s)}])
    /\ UNCHANGED <<clock, disk, index, view, todo, file, results, stable>>

\* A file whose stamp the view has is skipped; one that vanished is an error.
Stat(s, p) ==
    /\ pc[s] = "scan"
    /\ p \in todo[s]
    /\ \/ /\ disk[p] = NoFile
          /\ End(s, "failed")
       \/ /\ disk[p] # NoFile
          /\ view[s][p] # NoFile => view[s][p].stamp # disk[p].stamp
          /\ Goto(s, "read")
          /\ file' = [file EXCEPT ![s] = [path |-> p, stamp |-> disk[p].stamp, read |-> NoFile]]
          /\ UNCHANGED <<clock, disk, db, view, todo, results, stable>>
       \/ /\ disk[p] # NoFile /\ view[s][p] # NoFile
          /\ view[s][p] # NoFile => view[s][p].stamp = disk[p].stamp
          /\ todo' = [todo EXCEPT ![s] = @ \ {p}]
          /\ UNCHANGED <<clock, disk, db, pc, view, file, results, stable>>

Read(s) ==
    /\ pc[s] = "read"
    /\ IF disk[file[s].path] = NoFile
       THEN End(s, "failed")
       ELSE /\ Goto(s, "store")
            /\ file' = [file EXCEPT ![s].read = disk[file[s].path]]
            /\ UNCHANGED <<clock, disk, db, view, todo, results, stable>>

\* The index without the rows the sync saw for path p.
Cleared(s, p) ==
    IF view[s][p] = NoFile THEN Mine(s)
    ELSE [rows |-> [Mine(s).rows EXCEPT ![p] = NoFile],
          fts  |-> Mine(s).fts \ {view[s][p].id}]

\* Mutant: the row carries the stamp the file has now.
StoreStatAfter(s) ==
    LET p == file[s].path
        old == Cleared(s, p)
    IN  /\ pc[s] = "store"
        /\ IF disk[p] = NoFile \/ \E q \in Path : old.rows[q] # NoFile /\ (q = p \/ old.rows[q].id = file[s].read.id)
           THEN End(s, "duplicate")
           ELSE /\ Writes(s, "scan",
                     [rows |-> [old.rows EXCEPT ![p] = [file[s].read EXCEPT !.stamp = disk[p].stamp]],
                      fts  |-> old.fts \cup {file[s].read.id}])
                /\ todo' = [todo EXCEPT ![s] = @ \ {p}]
                /\ file' = [file EXCEPT ![s] = NoFile]
                /\ UNCHANGED <<clock, disk, index, view, results, stable>>

\* The new row replaces the one the sync saw, and carries the stamp taken
\* before the file was read.  A row with the id, or (by UNIQUE) with the path,
\* that somebody else committed meanwhile is an error.
Store(s) ==
    LET p == file[s].path
        old == Cleared(s, p)
    IN  /\ pc[s] = "store"
        /\ txn \in {s, NoSearcher}
        /\ IF \E q \in Path : old.rows[q] # NoFile /\ (q = p \/ old.rows[q].id = file[s].read.id)
           THEN End(s, "duplicate")
           ELSE /\ Writes(s, "scan",
                     [rows |-> [old.rows EXCEPT ![p] = [file[s].read EXCEPT !.stamp = file[s].stamp]],
                      fts  |-> old.fts \cup {file[s].read.id}])
                /\ todo' = [todo EXCEPT ![s] = @ \ {p}]
                /\ file' = [file EXCEPT ![s] = NoFile]
                /\ UNCHANGED <<clock, disk, index, view, results, stable>>

\* Another sync holds the write lock for five seconds.
Busy(s) ==
    /\ \/ pc[s] = "store"
       \/ pc[s] = "remove" /\ Missing(s) # {}
       \/ pc[s] = "scan" /\ todo[s] = {}
    /\ txn \notin {s, NoSearcher}
    /\ End(s, "failed")

\* Recording last_synced_at writes too, so every sync has a transaction.
Commit(s) ==
    /\ pc[s] = "scan" /\ todo[s] = {}
    /\ txn \in {s, NoSearcher}
    /\ index' = Mine(s)
    /\ txn' = NoSearcher
    /\ draft' = Empty
    /\ Goto(s, "query")
    /\ view' = [view EXCEPT ![s] = Empty.rows]
    /\ UNCHANGED <<clock, disk, todo, file, results, stable>>

Query(s) ==
    /\ pc[s] = "query"
    /\ Goto(s, "hits")
    /\ view' = [view EXCEPT ![s] = index.rows]
    /\ todo' = [todo EXCEPT ![s] =
                  {p \in Path : LET row == index.rows[p] IN
                                row # NoFile /\ (row # NoFile => row.visible /\ row.id \in index.fts)}]
    /\ UNCHANGED <<clock, disk, db, file, results, stable>>

\* Mutant: the state in the index decides.
ReadHitTrusting(s, p) ==
    /\ pc[s] = "hits" /\ p \in todo[s]
    /\ todo' = [todo EXCEPT ![s] = @ \ {p}]
    /\ results' = [results EXCEPT ![s] = @ \cup {p}]
    /\ UNCHANGED <<clock, disk, db, pc, view, file, stable>>

\* A hit is read from its file: gone or another memory is an error, and one
\* that is no longer visible is left out.
ReadHit(s, p) ==
    /\ pc[s] = "hits" /\ p \in todo[s]
    /\ IF disk[p] = NoFile \/ (disk[p] # NoFile => disk[p].id # view[s][p].id)
       THEN End(s, "failed")
       ELSE /\ todo' = [todo EXCEPT ![s] = @ \ {p}]
            /\ results' = [results EXCEPT ![s] = IF disk[p].visible THEN @ \cup {p} ELSE @]
            /\ UNCHANGED <<clock, disk, db, pc, view, file, stable>>

Return(s) ==
    /\ pc[s] = "hits" /\ todo[s] = {}
    /\ Goto(s, "done")
    /\ UNCHANGED <<clock, disk, db, view, todo, file, results, stable>>

Finish(s) == pc[s] \in {"done", "duplicate", "failed"} /\ End(s, "idle")

Crash(s) == pc[s] \notin {"idle", "done", "duplicate", "failed"} /\ End(s, "idle")

Next ==
    \/ \E p \in Path :
          \/ \E id \in Id : Create(p, id)
          \/ Rewrite(p) \/ Remove(p)
    \/ \E s \in Searcher :
          \/ Start(s) \/ List(s) \/ RemoveMissing(s) \/ Read(s) \/ Store(s) \/ Busy(s)
          \/ Commit(s) \/ Query(s) \/ Return(s) \/ Finish(s) \/ Crash(s)
          \/ \E p \in Path : Stat(s, p) \/ ReadHit(s, p)

Spec == Init /\ [][Next]_vars

-----------------------------------------------------------------------------

\* The file is skipped by a sync that reads the index now.
Current(p) ==
    LET row == index.rows[p] IN
    row # NoFile /\ (row # NoFile => row.stamp = disk[p].stamp)

\* A row whose stamp is the file's holds what the file holds: a file that is
\* skipped as unchanged never hides a change, however searches, writers and
\* crashes interleave.
StampFresh ==
    \A p \in OnDisk : Current(p) => index.rows[p] = disk[p]

\* architecture.md: "recall synchronizes the disposable index on demand from
\* canonical Markdown".  A file that is skipped as unchanged has its text in
\* the index - as long as nobody else searches.  Otherwise a sync that listed the files while a
\* memory moved to another path removes the text (by memory id) that another
\* sync indexed under the new path, and leaves the row, so that no later
\* search finds the memory until its file changes.
RowsSearchable ==
    \A p \in OnDisk : Current(p) => disk[p].id \in index.fts

\* A search never returns a memory that was inactive, or of another scope, all
\* the time it ran.
NoInactiveHit ==
    \A s \in Searcher : pc[s] = "done" =>
        \A p \in stable[s] \cap results[s] : disk[p].visible
=============================================================================
