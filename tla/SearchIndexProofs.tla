------------------------- MODULE SearchIndexProofs -------------------------
(***************************************************************************)
(* The index never passes off an old content as the current one, for every *)
(* number of searches, files and changes.  Stamps only grow, and a row     *)
(* carries a stamp that was taken before its content: whatever a row says  *)
(* of its file, it says truthfully or under another stamp.                 *)
(***************************************************************************)
EXTENDS SearchAlone, TLAPS

Truthful(p, row) ==
    row # NoFile =>
        /\ row.stamp <= clock
        /\ disk[p] # NoFile /\ row.stamp = disk[p].stamp => row = disk[p]

StampsGiven == \A p \in OnDisk : disk[p].stamp <= clock

RowsTruthful == \A p \in Path : Truthful(p, index.rows[p]) /\ Truthful(p, draft.rows[p])

\* The row a sync is about to write.
NewRow(s) == [file[s].read EXCEPT !.stamp = file[s].stamp]

LooksTruthful ==
    \A s \in Searcher :
        /\ pc[s] \in {"read", "store"} => file[s] \in Look /\ file[s].stamp <= clock
        /\ pc[s] = "store" => file[s].read \in File /\ Truthful(file[s].path, NewRow(s))

IInv == TypeOK /\ StampsGiven /\ RowsTruthful /\ LooksTruthful

LEMMA EmptyType == Empty \in Index /\ \A p \in Path : Empty.rows[p] = NoFile
  BY DEF Empty, Index

LEMMA Initially == Init => IInv
<1> SUFFICES ASSUME Init PROVE IInv
  OBVIOUS
<1>1. TypeOK
  BY EmptyType, SearchAssumption DEF Init, TypeOK, Index
<1>2. StampsGiven /\ RowsTruthful /\ LooksTruthful
  BY EmptyType DEF Init, StampsGiven, RowsTruthful, LooksTruthful, Truthful, OnDisk
<1> QED  BY <1>1, <1>2 DEF IInv

-----------------------------------------------------------------------------
(***************************************************************************)
(* Changes of the files.                                                   *)
(***************************************************************************)
LEMMA TouchType ==
    ASSUME TypeOK, NEW paths, Touch(paths)
    PROVE  stable' \in [Searcher -> SUBSET Path]
  BY DEF TypeOK, Touch

LEMMA SaveKeeps ==
    ASSUME IInv, NEW p \in Path, NEW id \in Id, NEW visible \in BOOLEAN, Save(p, id, visible)
    PROVE  IInv'
<1> USE DEF IInv, Save
<1> DEFINE new == [id |-> id, stamp |-> clock + 1, visible |-> visible]
<1>0. clock \in Nat /\ clock' = clock + 1 /\ clock' \in 1 .. MaxStamp
  BY SearchAssumption DEF TypeOK
<1>1. new \in File /\ new.stamp = clock + 1
  BY <1>0 DEF File, Stamp
<1>2. disk' = [disk EXCEPT ![p] = new]
  BY <1>0
<1> HIDE DEF new
<1>3. TypeOK'
  BY <1>0, <1>1, <1>2, TouchType, SearchAssumption DEF TypeOK, Touch, db, search
<1>4. StampsGiven'
  <2>1. \A q \in OnDisk' : q = p \/ (q \in OnDisk /\ disk'[q] = disk[q])
    BY <1>2 DEF OnDisk, TypeOK
  <2>2. \A q \in OnDisk : disk[q].stamp \in Nat
    BY DEF OnDisk, TypeOK, File, Stamp
  <2>3. disk'[p] = new
    BY <1>2 DEF TypeOK
  <2> QED  BY <1>0, <1>1, <2>1, <2>2, <2>3 DEF StampsGiven
<1>5. ASSUME NEW q \in Path, NEW row \in File, Truthful(q, row)
      PROVE  Truthful(q, row)'
  <2>1. (row.stamp \in Nat /\ row.stamp <= clock) \/ row = NoFile
    BY <1>5 DEF Truthful, File, Stamp
  <2>2. CASE q = p
    BY <1>0, <1>1, <1>2, <2>1, <2>2 DEF Truthful, TypeOK
  <2>3. CASE q # p
    BY <1>0, <1>2, <1>5, <2>1, <2>3 DEF Truthful, TypeOK
  <2> QED  BY <2>2, <2>3
<1>6. RowsTruthful'
  <2>1. index' = index /\ draft' = draft
    BY DEF Touch, db
  <2>2. ASSUME NEW q \in Path PROVE Truthful(q, index.rows[q])' /\ Truthful(q, draft.rows[q])'
    <3>1. index.rows[q] \in File \cup {NoFile} /\ draft.rows[q] \in File \cup {NoFile}
      BY DEF TypeOK, Index
    <3>2. CASE index.rows[q] = NoFile
      BY <2>1, <3>2, <3>1, <1>5 DEF RowsTruthful, Truthful
    <3>3. CASE index.rows[q] \in File
      BY <2>1, <3>3, <3>1, <1>5 DEF RowsTruthful, Truthful
    <3> QED  BY <3>1, <3>2, <3>3
  <2> QED  BY <2>2 DEF RowsTruthful
<1>7. LooksTruthful'
  <2>1. pc' = pc /\ file' = file
    BY DEF Touch, search
  <2>2. ASSUME NEW s \in Searcher, pc[s] \in {"read", "store"}
        PROVE  file[s] \in Look /\ file[s].stamp <= clock'
    BY <1>0, <2>2 DEF LooksTruthful, Look, Stamp
  <2>3. ASSUME NEW s \in Searcher, pc[s] = "store"
        PROVE  file[s].read \in File /\ Truthful(file[s].path, NewRow(s))'
    <3>1. /\ file[s] \in Look /\ file[s].read \in File /\ Truthful(file[s].path, NewRow(s))
      BY <2>3 DEF LooksTruthful
    <3>2. NewRow(s) \in File /\ file[s].path \in Path
      BY <3>1 DEF NewRow, Look, File
    <3>3. NewRow(s)' = NewRow(s)
      BY <2>1 DEF NewRow
    <3> QED  BY <1>5, <2>1, <3>1, <3>2, <3>3 DEF Truthful
  <2> QED  BY <2>1, <2>2, <2>3 DEF LooksTruthful
<1> QED  BY <1>3, <1>4, <1>6, <1>7

LEMMA RemoveKeeps == ASSUME IInv, NEW p \in Path, Remove(p) PROVE IInv'
<1> USE DEF IInv, Remove
<1>1. TypeOK'
  BY TouchType DEF TypeOK, Touch, db, search
<1>2. StampsGiven'
  BY DEF TypeOK, StampsGiven, OnDisk
<1>3. \A q \in Path : disk'[q] = NoFile \/ disk'[q] = disk[q]
  BY DEF TypeOK
<1>4. RowsTruthful' /\ LooksTruthful'
  BY <1>3 DEF TypeOK, RowsTruthful, LooksTruthful, Truthful, NewRow, Touch, db, search, Look
<1> QED  BY <1>1, <1>2, <1>4

-----------------------------------------------------------------------------
(***************************************************************************)
(* Steps of a search change no file.  The first lemma is for steps that    *)
(* leave the index and what the others look at as they are.                *)
(***************************************************************************)
LEMMA Quiet ==
    ASSUME IInv, NEW s \in Searcher, TypeOK', UNCHANGED <<clock, disk>>,
           index' = index \/ index' = draft,
           \A p \in Path : draft'.rows[p] \in {draft.rows[p], index.rows[p], NoFile},
           \A q \in Searcher \ {s} : pc'[q] = pc[q] /\ file'[q] = file[q],
           pc'[s] \notin {"read", "store"}
    PROVE  IInv'
<1>1. StampsGiven'
  BY DEF IInv, StampsGiven, OnDisk
<1>2. RowsTruthful'
  BY DEF IInv, RowsTruthful, Truthful
<1>3. LooksTruthful'
  BY DEF IInv, LooksTruthful, Truthful, NewRow
<1> QED  BY <1>1, <1>2, <1>3 DEF IInv

LEMMA EndKeeps ==
    ASSUME IInv, NEW s \in Searcher,
           NEW step \in {"idle", "duplicate", "failed"}, End(s, step)
    PROVE  IInv'
<1> USE DEF End, Goto
<1>1. TypeOK'
  BY EmptyType DEF IInv, TypeOK, Index
<1>2. /\ \A q \in Searcher \ {s} : pc'[q] = pc[q] /\ file'[q] = file[q]
      /\ pc'[s] \notin {"read", "store"}
  BY DEF IInv, TypeOK
<1>3. \A p \in Path : draft'.rows[p] \in {draft.rows[p], index.rows[p], NoFile}
  BY EmptyType
<1> QED  BY <1>1, <1>2, <1>3, Quiet

LEMMA MineType ==
    ASSUME TypeOK, NEW s \in Searcher
    PROVE  /\ Mine(s) \in Index
           /\ Mine(s).rows \in [Path -> File \cup {NoFile}] /\ Mine(s).fts \in SUBSET Id
           /\ \A p \in Path : Mine(s).rows[p] \in {draft.rows[p], index.rows[p]}
  BY DEF TypeOK, Mine, Index

\* Steps that only move a search on.
LEMMA MovesOn ==
    ASSUME IInv, NEW s \in Searcher, TypeOK', UNCHANGED <<clock, disk, index, draft, file>>,
           NEW step \in {"list", "remove", "query", "hits", "done"},
           pc' = [pc EXCEPT ![s] = step]
    PROVE  IInv'
<1>1. /\ \A q \in Searcher \ {s} : pc'[q] = pc[q] /\ file'[q] = file[q]
      /\ pc'[s] \notin {"read", "store"}
  BY DEF IInv, TypeOK
<1> QED  BY <1>1, Quiet

LEMMA SearchKeeps ==
    ASSUME IInv, NEW s \in Searcher, Start(s) \/ List(s) \/ Query(s) \/ Return(s)
    PROVE  IInv'
<1>1. CASE Start(s)
  <2>1. index.rows \in [Path -> File \cup {NoFile}]
    BY DEF IInv, TypeOK, Index
  <2>2. TypeOK'
    BY <1>1, <2>1 DEF IInv, TypeOK, Goto, Start, OnDisk, db
  <2> QED  BY <1>1, <2>2, MovesOn DEF Start, db, Goto
<1>2. CASE List(s)
  <2>1. TypeOK'
    BY <1>2 DEF IInv, TypeOK, Goto, List, OnDisk, db
  <2> QED  BY <1>2, <2>1, MovesOn DEF List, db, Goto
<1>3. CASE Query(s)
  <2>1. index.rows \in [Path -> File \cup {NoFile}]
    BY DEF IInv, TypeOK, Index
  <2>2. TypeOK'
    BY <1>3, <2>1 DEF IInv, TypeOK, Goto, Query, db
  <2> QED  BY <1>3, <2>2, MovesOn DEF Query, db, Goto
<1>4. CASE Return(s)
  <2>1. TypeOK'
    BY <1>4 DEF IInv, TypeOK, Goto, Return, db
  <2> QED  BY <1>4, <2>1, MovesOn DEF Return, db, Goto
<1> QED  BY <1>1, <1>2, <1>3, <1>4

LEMMA ReadHitKeeps == ASSUME IInv, NEW s \in Searcher, NEW p \in Path, ReadHit(s, p) PROVE IInv'
<1>1. CASE End(s, "failed")
  BY <1>1, EndKeeps
<1>2. CASE ~End(s, "failed")
  <2> DEFINE kept == IF disk[p].visible THEN results[s] \cup {p} ELSE results[s]
  <2>a. kept \in SUBSET Path
    BY DEF IInv, TypeOK
  <2>b. results' = [results EXCEPT ![s] = kept]
    BY <1>2, Zenon DEF ReadHit
  <2> HIDE DEF kept
  <2>c. /\ todo' = [todo EXCEPT ![s] = @ \ {p}]
        /\ UNCHANGED <<clock, disk, index, txn, draft, pc, view, file, stable>>
    BY <1>2 DEF ReadHit, db
  <2>1. TypeOK'
    BY <2>a, <2>b, <2>c DEF IInv, TypeOK
  <2>2. UNCHANGED <<clock, disk, index, draft, file>>
    BY <2>c
  <2>3. pc' = [pc EXCEPT ![s] = "hits"]
    BY <2>c DEF ReadHit, IInv, TypeOK
  <2> QED  BY <2>1, <2>2, <2>3, MovesOn
<1> QED  BY <1>1, <1>2

LEMMA RemoveMissingKeeps == ASSUME IInv, NEW s \in Searcher, RemoveMissing(s) PROVE IInv'
<1> USE DEF IInv, RemoveMissing, Writes, Goto
<1>0. draft' \in Index /\ \A p \in Path : draft'.rows[p] \in {draft.rows[p], index.rows[p], NoFile}
  <2>1. CASE Missing(s) = {}
    BY <2>1 DEF TypeOK
  <2>2. CASE Missing(s) # {}
    BY <2>2, MineType DEF TypeOK, Index
  <2> QED  BY <2>1, <2>2
<1>1. TypeOK'
  BY <1>0 DEF TypeOK
<1>2. /\ \A q \in Searcher \ {s} : pc'[q] = pc[q] /\ file'[q] = file[q]
      /\ pc'[s] \notin {"read", "store"}
  BY DEF TypeOK
<1> QED  BY <1>0, <1>1, <1>2, Quiet

LEMMA CommitKeeps == ASSUME IInv, NEW s \in Searcher, Commit(s) PROVE IInv'
<1> USE DEF IInv, Commit, Goto
<1>1. TypeOK'
  BY MineType, EmptyType DEF TypeOK, Index
<1>2. /\ index' = index \/ index' = draft
      /\ \A p \in Path : draft'.rows[p] \in {draft.rows[p], index.rows[p], NoFile}
      /\ \A q \in Searcher \ {s} : pc'[q] = pc[q] /\ file'[q] = file[q]
      /\ pc'[s] \notin {"read", "store"}
  BY EmptyType DEF TypeOK, Mine
<1> QED  BY <1>1, <1>2, Quiet

\* The stamp is taken: it is one that was given.
LEMMA StatKeeps == ASSUME IInv, NEW s \in Searcher, NEW p \in Path, Stat(s, p) PROVE IInv'
<1>1. CASE End(s, "failed")
  BY <1>1, EndKeeps
<1>2. CASE Goto(s, "read") /\ ~End(s, "failed")
  <2> USE <1>2 DEF IInv, Stat, Goto, db
  <2> DEFINE look == [path |-> p, stamp |-> disk[p].stamp, read |-> NoFile]
  <2>1. look \in Look /\ look.stamp <= clock
    BY DEF TypeOK, StampsGiven, OnDisk, Look, File
  <2>2. /\ file' = [file EXCEPT ![s] = look] /\ pc' = [pc EXCEPT ![s] = "read"]
        /\ UNCHANGED <<clock, disk, index, txn, draft, view, todo, results, stable>>
    BY DEF TypeOK
  <2> HIDE DEF look
  <2>3. TypeOK'
    BY <2>1, <2>2 DEF TypeOK
  <2>4. StampsGiven' /\ RowsTruthful'
    BY <2>2 DEF StampsGiven, RowsTruthful, Truthful, OnDisk
  <2>5. LooksTruthful'
    BY <2>1, <2>2 DEF TypeOK, LooksTruthful, Truthful, NewRow
  <2> QED  BY <2>3, <2>4, <2>5
<1>3. CASE UNCHANGED <<clock, disk, index, txn, draft, pc, file>> /\ ~End(s, "failed")
  <2>1. TypeOK'
    BY <1>3 DEF IInv, Stat, TypeOK, Goto, db
  <2>2. StampsGiven' /\ RowsTruthful' /\ LooksTruthful'
    BY <1>3 DEF IInv, StampsGiven, RowsTruthful, LooksTruthful, Truthful, NewRow, OnDisk
  <2> QED  BY <2>1, <2>2 DEF IInv
<1> QED  BY <1>1, <1>2, <1>3 DEF Stat, db

\* Read after the stamp: what is read is the stamp's content, or the stamp is
\* no longer the file's and never will be again.
LEMMA ReadKeeps == ASSUME IInv, NEW s \in Searcher, Read(s) PROVE IInv'
<1>1. CASE disk[file[s].path] = NoFile
  BY <1>1, EndKeeps DEF Read
<1>2. CASE disk[file[s].path] # NoFile
  <2> USE <1>2 DEF IInv, Read, Goto, db
  <2> DEFINE p == file[s].path
             look == [file[s] EXCEPT !.read = disk[p]]
  <2>0. file[s] \in Look /\ file[s].stamp <= clock /\ p \in Path
    BY DEF LooksTruthful, Look
  <2>1. disk[p] \in File
    BY <2>0 DEF TypeOK
  <2>2. /\ look \in Look /\ look.path = p /\ look.stamp = file[s].stamp /\ look.read = disk[p]
    BY <2>0, <2>1 DEF Look
  <2>3. /\ file' = [file EXCEPT ![s] = look] /\ pc' = [pc EXCEPT ![s] = "store"]
        /\ UNCHANGED <<clock, disk, index, txn, draft, view, todo, results, stable>>
    OBVIOUS
  <2>4. file'[s] = look /\ NewRow(s)' = [disk[p] EXCEPT !.stamp = file[s].stamp]
    BY <2>2, <2>3 DEF TypeOK, NewRow
  <2>5. Truthful(p, NewRow(s)')
    BY <2>0, <2>1, <2>4 DEF Truthful, File
  <2> HIDE DEF look, p
  <2>6. TypeOK'
    BY <2>2, <2>3 DEF TypeOK
  <2>7. StampsGiven' /\ RowsTruthful'
    BY <2>3 DEF StampsGiven, RowsTruthful, Truthful, OnDisk
  <2>8. LooksTruthful'
    <3>1. file'[s] \in Look /\ file'[s].stamp <= clock' /\ file'[s].read \in File
      BY <2>0, <2>1, <2>2, <2>3, <2>4
    <3>2. Truthful(file[s].path, NewRow(s))'
      BY <2>2, <2>3, <2>4, <2>5 DEF Truthful
    <3>3. ASSUME NEW q \in Searcher \ {s}
          PROVE  /\ pc'[q] = pc[q] /\ file'[q] = file[q] /\ NewRow(q)' = NewRow(q)
                 /\ Truthful(file[q].path, NewRow(q))' = Truthful(file[q].path, NewRow(q))
      BY <2>3 DEF TypeOK, NewRow, Truthful
    <3> QED  BY <2>3, <3>1, <3>2, <3>3 DEF LooksTruthful
  <2> QED  BY <2>6, <2>7, <2>8
<1> QED  BY <1>1, <1>2

LEMMA StoreKeeps == ASSUME IInv, NEW s \in Searcher, Store(s) PROVE IInv'
<1>1. CASE End(s, "duplicate")
  BY <1>1, EndKeeps
<1>2. CASE ~End(s, "duplicate")
  <2> USE <1>2 DEF IInv, Store, Writes, Goto
  <2> DEFINE p == file[s].path
             old == Cleared(s, p)
  <2>0. p \in Path /\ file[s].read \in File /\ file[s].stamp \in Stamp /\ Truthful(p, NewRow(s))
    BY DEF LooksTruthful, Look
  <2>1. NewRow(s) \in File
    BY <2>0 DEF NewRow, File
  <2>2. /\ old \in Index
        /\ \A q \in Path : old.rows[q] \in {draft.rows[q], index.rows[q], NoFile}
    BY MineType, <2>0 DEF Cleared, Index
  <2>3. /\ draft' = [rows |-> [old.rows EXCEPT ![p] = NewRow(s)], fts |-> old.fts \cup {file[s].read.id}]
        /\ pc' = [pc EXCEPT ![s] = "scan"] /\ txn' = s
        /\ todo' = [todo EXCEPT ![s] = @ \ {p}]
        /\ file' = [file EXCEPT ![s] = NoFile]
        /\ UNCHANGED <<clock, disk, index, view, results, stable>>
    BY DEF NewRow
  <2> HIDE DEF old
  <2>4. draft' \in Index
    BY <2>0, <2>1, <2>2, <2>3 DEF Index, File
  <2>5. TypeOK'
    BY <2>3, <2>4 DEF TypeOK
  <2>6. \A q \in Path : \/ draft'.rows[q] = NewRow(s) /\ q = p
                       \/ draft'.rows[q] \in {draft.rows[q], index.rows[q], NoFile}
    BY <2>2, <2>3 DEF Index
  <2>7. RowsTruthful'
    BY <2>0, <2>3, <2>6 DEF RowsTruthful, Truthful
  <2>8. StampsGiven' /\ LooksTruthful'
    BY <2>3 DEF TypeOK, StampsGiven, OnDisk, LooksTruthful, Truthful, NewRow
  <2> QED  BY <2>5, <2>7, <2>8
<1> QED  BY <1>1, <1>2

LEMMA Step == IInv /\ [Next]_vars => IInv'
<1> SUFFICES ASSUME IInv, [Next]_vars PROVE IInv'
  OBVIOUS
<1>1. CASE UNCHANGED vars
  BY <1>1 DEF vars, db, search, IInv, TypeOK, StampsGiven, RowsTruthful, LooksTruthful, Truthful, NewRow, OnDisk
<1>2. ASSUME NEW p \in Path,
             (\E id \in Id : Create(p, id)) \/ Rewrite(p) \/ Remove(p)
      PROVE  IInv'
  <2>1. ASSUME NEW id \in Id, Create(p, id) PROVE IInv'
    BY <2>1, SaveKeeps DEF Create
  <2>2. CASE Rewrite(p)
    <3>1. disk[p].id \in Id /\ (~disk[p].visible) \in BOOLEAN
      <4>1. disk[p] \in File
        BY <2>2 DEF Rewrite, IInv, TypeOK
      <4>2. disk[p].id \in Id
        BY <4>1 DEF File
      <4> QED  BY <4>2, Zenon
    <3> QED  BY <2>2, <3>1, SaveKeeps DEF Rewrite
  <2> QED  BY <1>2, <2>1, <2>2, RemoveKeeps
<1>3. ASSUME NEW s \in Searcher, Busy(s) \/ Finish(s) \/ Crash(s) PROVE IInv'
  BY <1>3, EndKeeps DEF Busy, Finish, Crash
<1>4. ASSUME NEW s \in Searcher, NEW p \in Path, Stat(s, p) \/ ReadHit(s, p) PROVE IInv'
  BY <1>4, StatKeeps, ReadHitKeeps
<1>5. ASSUME NEW s \in Searcher, Start(s) \/ List(s) \/ Query(s) \/ Return(s)
      PROVE  IInv'
  BY <1>5, SearchKeeps
<1> QED
  BY <1>1, <1>2, <1>3, <1>4, <1>5, RemoveMissingKeeps, ReadKeeps, StoreKeeps, CommitKeeps DEF Next

LEMMA Inductive == Spec => []IInv
<1> QED  BY Initially, Step, PTL DEF Spec

\* Every file, row and search is always well formed.
THEOREM TypeCorrect == Spec => []TypeOK
<1>1. IInv => TypeOK
  BY DEF IInv
<1> QED  BY <1>1, Inductive, PTL

\* A file that a sync skips as unchanged has exactly the content of its row.
THEOREM SkippedIsFresh == Spec => []StampFresh
<1>1. IInv => StampFresh
  BY DEF IInv, RowsTruthful, Truthful, StampFresh, Current, OnDisk
<1> QED  BY <1>1, Inductive, PTL

-----------------------------------------------------------------------------
(***************************************************************************)
(* A search returns what it read itself: a hit of a file that has not      *)
(* changed since the search began is still what that file says.            *)
(***************************************************************************)
HitsRead ==
    \A s \in Searcher :
        /\ pc[s] \notin {"hits", "done"} => results[s] = {}
        /\ \A p \in stable[s] \cap results[s] : disk[p] # NoFile /\ disk[p].visible

\* A changed file is no longer among the stable ones of any search.
LEMMA HitsOfChanges ==
    ASSUME TypeOK, HitsRead, NEW p \in Path, Touch({p}),
           \A q \in Path \ {p} : disk'[q] = disk[q]
    PROVE  HitsRead'
<1>1. \A s \in Searcher : stable'[s] = stable[s] \ {p} /\ stable[s] \in SUBSET Path
  BY DEF Touch, TypeOK
<1>2. pc' = pc /\ results' = results
  BY DEF Touch, search
<1> QED  BY <1>1, <1>2 DEF HitsRead

\* A search that ends has no hits.
LEMMA HitsOfEnd ==
    ASSUME TypeOK, HitsRead, NEW s \in Searcher, NEW step, End(s, step)
    PROVE  HitsRead'
  BY DEF TypeOK, HitsRead, End, Goto

\* A step that reads no hit keeps those there are, and adds none.
LEMMA HitsOfStep ==
    ASSUME TypeOK, HitsRead, NEW s \in Searcher, UNCHANGED <<disk, results>>,
           NEW step, pc' = [pc EXCEPT ![s] = step],
           step \in {"hits", "done"} \/ results[s] = {},
           stable' = stable \/ (results[s] = {} /\ \A q \in Searcher \ {s} : stable'[q] = stable[q])
    PROVE  HitsRead'
  BY DEF TypeOK, HitsRead

LEMMA HitsStep == TypeOK /\ HitsRead /\ [Next]_vars => HitsRead'
<1> SUFFICES ASSUME TypeOK, HitsRead, [Next]_vars PROVE HitsRead'
  OBVIOUS
<1>1. ASSUME NEW p \in Path, (\E id \in Id : Create(p, id)) \/ Rewrite(p) \/ Remove(p)
      PROVE  HitsRead'
  BY <1>1, HitsOfChanges DEF Create, Rewrite, Remove, Save, TypeOK
<1>2. ASSUME NEW s \in Searcher,
             \/ Busy(s) \/ Finish(s) \/ Crash(s)
             \/ Start(s) \/ List(s) \/ RemoveMissing(s) \/ Read(s) \/ Store(s)
             \/ Commit(s) \/ Query(s) \/ Return(s)
      PROVE  HitsRead'
  <2>1. CASE \E step \in {"idle", "duplicate", "failed"} : End(s, step)
    BY <2>1, HitsOfEnd
  <2>2. CASE Start(s)
    BY <2>2, HitsOfStep DEF Start, Goto, HitsRead, TypeOK
  <2>3. CASE List(s) \/ Commit(s) \/ Query(s) \/ Return(s)
    BY <2>3, HitsOfStep DEF List, Commit, Query, Return, Goto, HitsRead
  <2>4. CASE RemoveMissing(s)
    BY <2>4, HitsOfStep DEF RemoveMissing, Writes, Goto, HitsRead
  <2>5. CASE Read(s)
    BY <2>1, <2>5, HitsOfStep DEF Read, Goto, HitsRead
  <2>6. CASE Store(s)
    BY <2>1, <2>6, HitsOfStep DEF Store, Writes, Goto, HitsRead
  <2> QED  BY <1>2, <2>1, <2>2, <2>3, <2>4, <2>5, <2>6 DEF Busy, Finish, Crash
<1>3. ASSUME NEW s \in Searcher, NEW p \in Path, Stat(s, p) PROVE HitsRead'
  <2>1. CASE End(s, "failed")
    BY <2>1, HitsOfEnd
  <2>2. CASE pc' = [pc EXCEPT ![s] = "read"] /\ UNCHANGED <<disk, results, stable>>
    BY <1>3, <2>2, HitsOfStep DEF Stat, HitsRead
  <2>3. CASE UNCHANGED <<disk, pc, results, stable>>
    BY <2>3 DEF HitsRead
  <2> QED  BY <1>3, <2>1, <2>2, <2>3 DEF Stat, Goto
<1>4. ASSUME NEW s \in Searcher, NEW p \in Path, ReadHit(s, p) PROVE HitsRead'
  <2>1. CASE End(s, "failed")
    BY <2>1, HitsOfEnd
  <2>2. CASE ~End(s, "failed")
    <3>1. /\ pc[s] = "hits" /\ disk[p] # NoFile /\ UNCHANGED <<disk, pc, stable>>
          /\ \A q \in Searcher \ {s} : results'[q] = results[q]
          /\ \A q \in results'[s] : q \in results[s] \/ (q = p /\ disk[p].visible)
      BY <1>4, <2>2 DEF ReadHit, TypeOK
    <3> QED  BY <3>1 DEF HitsRead
  <2> QED  BY <2>1, <2>2
<1>5. CASE UNCHANGED vars
  BY <1>5 DEF vars, search, HitsRead
<1> QED  BY <1>1, <1>2, <1>3, <1>4, <1>5 DEF Next

\* No search returns a memory that was forgotten, superseded or of another
\* scope all the time it ran, whatever other searches did to the index.
THEOREM OnlyVisibleFound == Spec => []NoInactiveHit
<1>1. Init => HitsRead
  BY DEF Init, HitsRead
<1>2. HitsRead => NoInactiveHit
  BY DEF HitsRead, NoInactiveHit
<1> QED  BY <1>1, <1>2, HitsStep, TypeCorrect, PTL DEF Spec

-----------------------------------------------------------------------------
(***************************************************************************)
(* Recall is complete while no two searches run at the same time.  Then    *)
(* the index a sync begins with is the one it commits to, so that a row    *)
(* it skips, or writes, is still what the query sees.                      *)
(***************************************************************************)

\* No two rows have one id, and the ids with a text are those of the rows.
Consistent(ix) ==
    /\ \A p, q \in Path : ix.rows[p] # NoFile /\ ix.rows[q] # NoFile /\ p # q => ix.rows[p].id # ix.rows[q].id
    /\ \A id \in Id : id \in ix.fts <=> \E p \in Path : ix.rows[p] # NoFile /\ (ix.rows[p] # NoFile => ix.rows[p].id = id)

\* One search runs at a time, and the index it began with is consistent.
OneByOne ==
    /\ \A s \in Searcher, t \in Searcher : s \in Running /\ t \in Running => s = t
    /\ txn # NoSearcher => txn \in Searcher /\ pc[txn] \in {"scan", "read", "store"}
    /\ Consistent(index)
    /\ txn # NoSearcher => Consistent(draft)

\* What a sync knows, of the files that did not change since the search began
\* above all: their rows are up to date once it has looked at them.
Looking(s) ==
    /\ stable[s] \subseteq OnDisk
    /\ pc[s] \in {"list", "remove"} => view[s] = index.rows
    /\ pc[s] = "remove" => stable[s] \subseteq todo[s]
    /\ pc[s] \in {"scan", "read", "store"} =>
          /\ \A p \in todo[s] : Mine(s).rows[p] = view[s][p]
          /\ \A p \in stable[s] : p \in todo[s] \/ Mine(s).rows[p] = disk[p]
    /\ pc[s] \in {"read", "store"} =>
          file[s].path \in todo[s] /\ (file[s].path \in stable[s] => file[s].stamp = disk[file[s].path].stamp)

\* What it leaves to the query, the query to the hits, and these to the user.
Found(s) ==
    /\ pc[s] = "query" => \A p \in stable[s] : index.rows[p] = disk[p]
    /\ pc[s] = "hits" => \A p \in stable[s] : view[s][p] = disk[p] /\ (disk[p].visible => p \in todo[s] \cup results[s])
    /\ pc[s] = "done" => \A p \in stable[s] : disk[p].visible => p \in results[s]

Alone == OneByOne /\ \A s \in Searcher : Looking(s) /\ Found(s)

AloneInv == overlapped \/ Alone

LEMMA ConsistentEmpty == Consistent(Empty)
  BY EmptyType DEF Consistent, Empty

\* A file that changes is no longer among the stable ones.
LEMMA AloneOfChanges ==
    ASSUME TypeOK, Alone, NEW p \in Path, Touch({p}), \A q \in Path \ {p} : disk'[q] = disk[q]
    PROVE  Alone'
<1>1. \A s \in Searcher : stable'[s] = stable[s] \ {p} /\ stable[s] \in SUBSET Path
  BY DEF Touch, TypeOK
<1>2. UNCHANGED <<index, txn, draft, pc, view, todo, file, results>>
  BY DEF Touch, search, db
<1>3. OneByOne'
  BY <1>2 DEF Alone, OneByOne, Running, Consistent
<1>4. ASSUME NEW s \in Searcher PROVE Looking(s)' /\ Found(s)'
  <2>1. Looking(s) /\ Found(s)
    BY DEF Alone
  <2>2. \A q \in stable'[s] : q \in stable[s] /\ disk'[q] = disk[q]
    BY <1>1
  <2>3. \A q \in Path : Mine(s).rows[q]' = Mine(s).rows[q]
    BY <1>2 DEF Mine
  <2>4. Looking(s)'
    <3>1. stable'[s] \subseteq OnDisk'
      BY <1>1, <2>1, <2>2 DEF Looking, OnDisk
    <3>2. pc'[s] \in {"scan", "read", "store"} =>
             /\ \A q \in todo'[s] : Mine(s).rows[q]' = view'[s][q]
             /\ \A q \in stable'[s] : q \in todo'[s] \/ Mine(s).rows[q]' = disk'[q]
      <4>1. \A q \in todo[s] : q \in Path
        BY DEF TypeOK
      <4> QED  BY <1>1, <1>2, <2>1, <2>2, <2>3, <4>1 DEF Looking
    <3>3. pc'[s] \in {"read", "store"} =>
             file'[s].path \in todo'[s] /\ (file'[s].path \in stable'[s] => file'[s].stamp = disk'[file'[s].path].stamp)
      BY <1>2, <2>1, <2>2 DEF Looking
    <3>4. /\ pc'[s] \in {"list", "remove"} => view'[s] = index'.rows
          /\ pc'[s] = "remove" => stable'[s] \subseteq todo'[s]
      BY <1>2, <2>1, <2>2 DEF Looking
    <3> QED  BY <3>1, <3>2, <3>3, <3>4 DEF Looking
  <2>5. Found(s)'
    BY <1>2, <2>1, <2>2 DEF Found
  <2> QED  BY <2>4, <2>5
<1> QED  BY <1>3, <1>4 DEF Alone

\* A search that ends leaves nothing behind.
LEMMA AloneOfEnd ==
    ASSUME TypeOK, Alone, NEW s \in Searcher, NEW step \in {"idle", "duplicate", "failed"}, End(s, step)
    PROVE  Alone'
<1>1. /\ pc' = [pc EXCEPT ![s] = step] /\ UNCHANGED <<clock, disk, index>>
      /\ \/ txn = s /\ txn' = NoSearcher
         \/ txn # s /\ txn' = txn /\ draft' = draft
      /\ stable'[s] = {}
      /\ \A q \in Searcher \ {s} : /\ pc'[q] = pc[q] /\ view'[q] = view[q] /\ todo'[q] = todo[q]
                                  /\ file'[q] = file[q] /\ results'[q] = results[q] /\ stable'[q] = stable[q]
  BY DEF End, Goto, TypeOK
<1>2. \A q \in Searcher : q \in Running' => q \in Running /\ q # s
  BY <1>1 DEF Running, TypeOK
<1>3. OneByOne'
  <2>1. \A q \in Searcher, t \in Searcher : q \in Running' /\ t \in Running' => q = t
    BY <1>2 DEF Alone, OneByOne
  <2>2. txn' # NoSearcher => txn' \in Searcher /\ pc'[txn'] \in {"scan", "read", "store"}
    BY <1>1 DEF Alone, OneByOne
  <2>3. Consistent(index)'
    BY <1>1 DEF Alone, OneByOne, Consistent
  <2>4. txn' # NoSearcher => Consistent(draft)'
    BY <1>1 DEF Alone, OneByOne, Consistent
  <2> QED  BY <2>1, <2>2, <2>3, <2>4 DEF OneByOne
<1>4. ASSUME NEW q \in Searcher PROVE Looking(q)' /\ Found(q)'
  <2>1. CASE q = s
    BY <1>1, <2>1 DEF Looking, Found, TypeOK
  <2>2. CASE q # s
    <3>1. Looking(q) /\ Found(q)
      BY DEF Alone
    <3>2. Mine(q)' = Mine(q)
      BY <1>1, <2>2, SearchAssumption DEF Mine
    <3>3. OnDisk' = OnDisk
      BY <1>1 DEF OnDisk
    <3> QED  BY <1>1, <2>2, <3>1, <3>2, <3>3 DEF Looking, Found
  <2> QED  BY <2>1, <2>2
<1> QED  BY <1>3, <1>4 DEF Alone

\* A step of the only search there is: what it must keep.
LEMMA AloneOfStep ==
    ASSUME TypeOK, Alone, NEW s \in Searcher, \A q \in Running : q = s,
           UNCHANGED disk,
           \A q \in Searcher \ {s} : pc'[q] = pc[q] /\ stable'[q] = stable[q] /\ results'[q] = results[q],
           txn' # NoSearcher => txn' = s /\ pc'[s] \in {"scan", "read", "store"} /\ Consistent(draft'),
           Consistent(index'),
           Looking(s)', Found(s)'
    PROVE  Alone'
<1>1. \A q \in Searcher : q \in Running' => q = s
  BY DEF Running
<1>2. OneByOne'
  BY <1>1 DEF OneByOne, Consistent
<1>3. ASSUME NEW q \in Searcher, q # s PROVE Looking(q)' /\ Found(q)'
  <2>1. pc[q] \in {"idle", "done", "duplicate", "failed"} /\ pc'[q] = pc[q]
    BY <1>3 DEF Running
  <2>2. Looking(q) /\ Found(q) /\ OnDisk' = OnDisk
    BY DEF Alone, OnDisk
  <2> QED  BY <1>3, <2>1, <2>2 DEF Looking, Found
<1> QED  BY <1>2, <1>3 DEF Alone

\* The steps before and after the sync's look at the files.
LEMMA AloneOfStart ==
    ASSUME TypeOK, Alone, NEW s \in Searcher, Start(s), ~Overlap'
    PROVE  Alone'
<1>1. /\ pc' = [pc EXCEPT ![s] = "list"] /\ view' = [view EXCEPT ![s] = index.rows]
      /\ stable' = [stable EXCEPT ![s] = OnDisk]
      /\ UNCHANGED <<clock, disk, index, txn, draft, todo, file, results>> /\ pc[s] = "idle"
  BY DEF Start, Goto, db
<1>2. \A q \in Running : q = s
  <2>1. s \in Running' /\ \A q \in Running : q \in Running'
    BY <1>1 DEF Running, TypeOK
  <2> QED  BY <2>1 DEF Overlap
<1>3. txn' = NoSearcher
  <2>1. txn # NoSearcher => txn \in Running /\ txn # s
    BY <1>1 DEF Alone, OneByOne, Running
  <2> QED  BY <1>1, <1>2, <2>1
<1>4. Consistent(index')
  BY <1>1 DEF Alone, OneByOne
<1>5. pc'[s] = "list" /\ view'[s] = index'.rows /\ stable'[s] = OnDisk'
  BY <1>1 DEF TypeOK, OnDisk
<1>6. Looking(s)' /\ Found(s)'
  BY <1>5 DEF Looking, Found
<1>7. \A q \in Searcher \ {s} : pc'[q] = pc[q] /\ stable'[q] = stable[q] /\ results'[q] = results[q]
  BY <1>1 DEF TypeOK
<1> QED  BY <1>1, <1>2, <1>3, <1>4, <1>6, <1>7, AloneOfStep

\* A running search is the only one.
LEMMA OnlyOne ==
    ASSUME Alone, NEW s \in Searcher, pc[s] \notin {"idle", "done", "duplicate", "failed"}
    PROVE  /\ \A q \in Running : q = s
           /\ txn # NoSearcher => txn = s /\ pc[s] \in {"scan", "read", "store"}
           /\ Consistent(index) /\ Consistent(Mine(s)) /\ Looking(s) /\ Found(s)
<1>1. s \in Running /\ \A q \in Running : q \in Searcher
  BY DEF Running
<1>2. txn # NoSearcher => txn \in Running
  BY DEF Alone, OneByOne, Running
<1>3. \A q \in Running : q = s
  BY <1>1 DEF Alone, OneByOne
<1>4. txn # NoSearcher => txn = s /\ pc[s] \in {"scan", "read", "store"} /\ Consistent(draft)
  BY <1>2, <1>3 DEF Alone, OneByOne
<1>5. Consistent(index) /\ Looking(s) /\ Found(s)
  BY DEF Alone, OneByOne
<1>6. Consistent(Mine(s))
  <2>1. CASE txn = s
    BY <1>4, <2>1, SearchAssumption DEF Mine
  <2>2. CASE txn # s
    BY <1>5, <2>2 DEF Mine
  <2> QED  BY <2>1, <2>2
<1> QED  BY <1>3, <1>4, <1>5, <1>6

LEMMA AloneOfList ==
    ASSUME TypeOK, Alone, NEW s \in Searcher, List(s)
    PROVE  Alone'
<1>1. /\ pc' = [pc EXCEPT ![s] = "remove"] /\ todo' = [todo EXCEPT ![s] = OnDisk] /\ pc[s] = "list"
      /\ UNCHANGED <<clock, disk, index, txn, draft, view, file, results, stable>>
  BY DEF List, Goto, db
<1>2. pc'[s] = "remove" /\ todo'[s] = OnDisk
  BY <1>1 DEF TypeOK, OnDisk
<1>3. Looking(s)' /\ Found(s)'
  <2>1. stable'[s] \subseteq OnDisk /\ view'[s] = index'.rows /\ OnDisk' = OnDisk
    BY <1>1, OnlyOne DEF Looking, OnDisk
  <2> QED  BY <1>2, <2>1 DEF Looking, Found
<1>4. \A q \in Searcher \ {s} : pc'[q] = pc[q] /\ stable'[q] = stable[q] /\ results'[q] = results[q]
  BY <1>1 DEF TypeOK
<1>5. txn' = NoSearcher /\ Consistent(index') /\ \A q \in Running : q = s
  BY <1>1, OnlyOne
<1> QED  BY <1>1, <1>3, <1>4, <1>5, AloneOfStep

\* Rows of files that are gone: what is left is what the view has of the rest.
LEMMA AloneOfRemove ==
    ASSUME TypeOK, Alone, NEW s \in Searcher, RemoveMissing(s)
    PROVE  Alone'
<1>1. /\ pc[s] = "remove" /\ pc' = [pc EXCEPT ![s] = "scan"]
      /\ UNCHANGED <<clock, disk, index, view, todo, file, results, stable>>
  BY DEF RemoveMissing, Writes, Goto
<1>2. /\ txn = NoSearcher /\ Consistent(index) /\ Looking(s) /\ \A q \in Running : q = s
  BY <1>1, OnlyOne
<1>3. Mine(s) = index /\ view[s] = index.rows /\ stable[s] \subseteq todo[s] /\ s # NoSearcher
  BY <1>1, <1>2, SearchAssumption DEF Mine, Looking
<1>4. pc'[s] = "scan" /\ \A q \in Searcher \ {s} : pc'[q] = pc[q] /\ stable'[q] = stable[q] /\ results'[q] = results[q]
  BY <1>1 DEF TypeOK
<1>5. index \in Index /\ index.rows \in [Path -> File \cup {NoFile}] /\ index.fts \in SUBSET Id
  BY DEF TypeOK, Index
<1>6. CASE Missing(s) = {}
  <2>1. UNCHANGED <<txn, draft>>
    BY <1>6 DEF RemoveMissing
  <2>2. Mine(s)' = index
    BY <1>1, <1>2, <1>3, <2>1 DEF Mine
  <2>3. Looking(s)'
    BY <1>1, <1>2, <1>3, <1>4, <2>2 DEF Looking, OnDisk
  <2>4. Found(s)'
    BY <1>4 DEF Found
  <2>5. txn' = NoSearcher /\ Consistent(index')
    BY <1>1, <1>2, <2>1
  <2> QED  BY <1>1, <1>2, <1>4, <2>3, <2>4, <2>5, AloneOfStep
<1>7. CASE Missing(s) # {}
  <2> DEFINE gone == Missing(s)
             rows == [p \in Path |-> IF p \in gone THEN NoFile ELSE index.rows[p]]
             fts == index.fts \ {index.rows[p].id : p \in gone}
  <2>1. txn' = s /\ draft' = [rows |-> rows, fts |-> fts]
    BY <1>3, <1>7 DEF RemoveMissing, Writes
  <2>2. gone \subseteq Path /\ \A p \in gone : index.rows[p] # NoFile /\ p \notin todo[s]
    BY <1>3 DEF Missing, Known
  <2> HIDE DEF gone
  <2>3. Consistent([rows |-> rows, fts |-> fts])
    <3>1. \A p \in Path : rows[p] = IF p \in gone THEN NoFile ELSE index.rows[p]
      OBVIOUS
    <3>2. \A p, q \in Path : rows[p] # NoFile /\ rows[q] # NoFile /\ p # q => rows[p].id # rows[q].id
      BY <1>2, <3>1 DEF Consistent
    <3>3. ASSUME NEW id \in Id
          PROVE  id \in fts <=> \E p \in Path : rows[p] # NoFile /\ (rows[p] # NoFile => rows[p].id = id)
      <4>1. id \in index.fts <=> \E p \in Path : index.rows[p] # NoFile /\ index.rows[p].id = id
        BY <1>2 DEF Consistent
      <4>2. ASSUME id \in fts PROVE \E p \in Path : rows[p] # NoFile /\ rows[p].id = id
        <5>1. PICK p \in Path : index.rows[p] # NoFile /\ index.rows[p].id = id
          BY <4>1, <4>2
        <5>2. p \notin gone
          BY <4>2, <5>1
        <5> QED  BY <3>1, <5>1, <5>2
      <4>3. ASSUME NEW p \in Path, rows[p] # NoFile, rows[p].id = id PROVE id \in fts
        <5>1. p \notin gone /\ index.rows[p] # NoFile /\ index.rows[p].id = id
          BY <3>1, <4>3
        <5>2. \A q \in gone : index.rows[q].id # id
          BY <1>2, <2>2, <5>1 DEF Consistent
        <5> QED  BY <4>1, <5>1, <5>2
      <4> QED  BY <4>2, <4>3
    <3> HIDE DEF rows, fts
    <3> QED  BY <3>2, <3>3 DEF Consistent
  <2>4. \A p \in todo[s] : Mine(s)'.rows[p] = index.rows[p]
    <3>1. Mine(s)' = [rows |-> rows, fts |-> fts]
      BY <2>1 DEF Mine
    <3>2. \A p \in todo[s] : p \in Path
      BY DEF TypeOK
    <3> QED  BY <2>2, <3>1, <3>2
  <2> HIDE DEF rows, fts
  <2>5. Looking(s)'
    BY <1>1, <1>2, <1>3, <1>4, <2>4 DEF Looking, OnDisk
  <2>6. Found(s)'
    BY <1>4 DEF Found
  <2>7. txn' = s /\ Consistent(draft') /\ Consistent(index')
    BY <1>1, <1>2, <2>1, <2>3
  <2> QED  BY <1>1, <1>2, <1>4, <2>5, <2>6, <2>7, AloneOfStep
<1> QED  BY <1>6, <1>7

\* A file is skipped, or its stamp is taken.
LEMMA AloneOfStat ==
    ASSUME IInv, Alone, NEW s \in Searcher, NEW p \in Path, Stat(s, p)
    PROVE  Alone'
<1> USE DEF IInv
<1>1. pc[s] = "scan" /\ p \in todo[s]
  BY DEF Stat
<1>2. /\ \A q \in Running : q = s
      /\ txn # NoSearcher => txn = s
      /\ Consistent(index) /\ (txn # NoSearcher => Consistent(draft)) /\ Looking(s)
  BY <1>1, OnlyOne DEF Alone, OneByOne
<1>3. CASE End(s, "failed")
  BY <1>3, AloneOfEnd
<1>4. CASE ~End(s, "failed") /\ Goto(s, "read")
  <2>1. /\ disk[p] # NoFile
        /\ pc' = [pc EXCEPT ![s] = "read"]
        /\ file' = [file EXCEPT ![s] = [path |-> p, stamp |-> disk[p].stamp, read |-> NoFile]]
        /\ UNCHANGED <<clock, disk, index, txn, draft, view, todo, results, stable>>
    BY <1>1, <1>4 DEF Stat, db, Goto, TypeOK
  <2>2. pc'[s] = "read" /\ \A q \in Searcher \ {s} : pc'[q] = pc[q]
    BY <2>1 DEF TypeOK
  <2>3. file'[s].path = p /\ file'[s].stamp = disk[p].stamp
    BY <2>1 DEF TypeOK
  <2>4. Mine(s)' = Mine(s) /\ OnDisk' = OnDisk
    BY <2>1 DEF Mine, OnDisk
  <2>5. Looking(s)' /\ Found(s)'
    BY <1>1, <1>2, <2>1, <2>2, <2>3, <2>4 DEF Looking, Found
  <2>6. Consistent(index') /\ (txn' # NoSearcher => txn' = s /\ Consistent(draft'))
    BY <1>2, <2>1
  <2> QED  BY <1>2, <2>1, <2>2, <2>5, <2>6, AloneOfStep
<1>5. CASE ~End(s, "failed") /\ ~Goto(s, "read")
  <2>1. /\ disk[p] # NoFile /\ view[s][p] # NoFile /\ view[s][p].stamp = disk[p].stamp
        /\ todo' = [todo EXCEPT ![s] = @ \ {p}]
        /\ UNCHANGED <<clock, disk, index, txn, draft, pc, view, file, results, stable>>
    BY <1>5 DEF Stat, db
  <2>2. todo'[s] = todo[s] \ {p} /\ pc'[s] = "scan"
    BY <1>1, <2>1 DEF TypeOK
  <2>3. Mine(s)' = Mine(s) /\ OnDisk' = OnDisk
    BY <2>1 DEF Mine, OnDisk
  <2>4. Mine(s).rows[p] = disk[p]
    <3>1. Mine(s).rows[p] = view[s][p]
      BY <1>1, <1>2 DEF Looking
    <3>2. Truthful(p, Mine(s).rows[p])
      BY DEF RowsTruthful, Mine
    <3> QED  BY <2>1, <3>1, <3>2 DEF Truthful
  <2>5. Looking(s)' /\ Found(s)'
    BY <1>1, <1>2, <2>1, <2>2, <2>3, <2>4 DEF Looking, Found
  <2>6. Consistent(index') /\ (txn' # NoSearcher => txn' = s /\ Consistent(draft'))
    BY <1>2, <2>1
  <2> QED  BY <1>2, <2>1, <2>2, <2>5, <2>6, AloneOfStep
<1> QED  BY <1>3, <1>4, <1>5

LEMMA AloneOfRead ==
    ASSUME TypeOK, Alone, NEW s \in Searcher, Read(s)
    PROVE  Alone'
<1>1. pc[s] = "read"
  BY DEF Read
<1>2. /\ \A q \in Running : q = s
      /\ txn # NoSearcher => txn = s
      /\ Consistent(index) /\ (txn # NoSearcher => Consistent(draft)) /\ Looking(s)
  BY <1>1, OnlyOne DEF Alone, OneByOne
<1>3. CASE disk[file[s].path] = NoFile
  BY <1>3, AloneOfEnd DEF Read
<1>4. CASE disk[file[s].path] # NoFile
  <2>1. /\ pc' = [pc EXCEPT ![s] = "store"]
        /\ file' = [file EXCEPT ![s].read = disk[file[s].path]]
        /\ UNCHANGED <<clock, disk, index, txn, draft, view, todo, results, stable>>
    BY <1>4 DEF Read, db, Goto
  <2>2. pc'[s] = "store" /\ \A q \in Searcher \ {s} : pc'[q] = pc[q]
    BY <2>1 DEF TypeOK
  <2>3. file'[s] = [file[s] EXCEPT !.read = disk[file[s].path]]
    BY <2>1 DEF TypeOK
  <2>4. Mine(s)' = Mine(s) /\ OnDisk' = OnDisk
    BY <2>1 DEF Mine, OnDisk
  <2>5. file'[s].path = file[s].path /\ file'[s].stamp = file[s].stamp
    <3>1. file[s].path \in todo[s]
      BY <1>1, <1>2 DEF Looking
    <3> QED  BY <2>3
  <2>6. Looking(s)' /\ Found(s)'
    BY <1>1, <1>2, <2>1, <2>2, <2>4, <2>5 DEF Looking, Found
  <2>7. Consistent(index') /\ (txn' # NoSearcher => txn' = s /\ Consistent(draft'))
    BY <1>2, <2>1
  <2> QED  BY <1>2, <2>1, <2>2, <2>6, <2>7, AloneOfStep
<1> QED  BY <1>3, <1>4

\* The index without one of its rows, and with a row of a new id.
LEMMA ConsistentWithout ==
    ASSUME NEW ix \in Index, Consistent(ix), NEW p \in Path, ix.rows[p] # NoFile
    PROVE  Consistent([rows |-> [ix.rows EXCEPT ![p] = NoFile], fts |-> ix.fts \ {ix.rows[p].id}])
<1> DEFINE rows == [ix.rows EXCEPT ![p] = NoFile]
           fts == ix.fts \ {ix.rows[p].id}
<1>1. ix.rows \in [Path -> File \cup {NoFile}]
  BY DEF Index
<1>2. \A q \in Path : rows[q] = IF q = p THEN NoFile ELSE ix.rows[q]
  BY <1>1
<1>3. \A q, r \in Path : rows[q] # NoFile /\ rows[r] # NoFile /\ q # r => rows[q].id # rows[r].id
  BY <1>2 DEF Consistent
<1>4. ASSUME NEW id \in Id
      PROVE  id \in fts <=> \E q \in Path : rows[q] # NoFile /\ (rows[q] # NoFile => rows[q].id = id)
  <2>1. id \in ix.fts <=> \E q \in Path : ix.rows[q] # NoFile /\ ix.rows[q].id = id
    BY DEF Consistent
  <2>2. ASSUME id \in fts PROVE \E q \in Path : rows[q] # NoFile /\ rows[q].id = id
    <3>1. PICK q \in Path : ix.rows[q] # NoFile /\ ix.rows[q].id = id
      BY <2>1, <2>2
    <3>2. q # p
      BY <2>2, <3>1
    <3> QED  BY <1>2, <3>1, <3>2
  <2>3. ASSUME NEW q \in Path, rows[q] # NoFile, rows[q].id = id PROVE id \in fts
    <3>1. q # p /\ ix.rows[q] # NoFile /\ ix.rows[q].id = id
      BY <1>2, <2>3
    <3>2. ix.rows[p].id # id
      BY <3>1 DEF Consistent
    <3> QED  BY <2>1, <3>1, <3>2
  <2> QED  BY <2>2, <2>3
<1> HIDE DEF rows, fts
<1>5. Consistent([rows |-> rows, fts |-> fts])
  BY <1>3, <1>4 DEF Consistent
<1> QED  BY <1>5 DEF rows, fts

LEMMA ConsistentWith ==
    ASSUME NEW ix \in Index, Consistent(ix), NEW p \in Path, ix.rows[p] = NoFile, NEW row \in File,
           \A q \in Path : ix.rows[q] # NoFile => ix.rows[q].id # row.id
    PROVE  Consistent([rows |-> [ix.rows EXCEPT ![p] = row], fts |-> ix.fts \cup {row.id}])
<1> DEFINE rows == [ix.rows EXCEPT ![p] = row]
           fts == ix.fts \cup {row.id}
<1>1. ix.rows \in [Path -> File \cup {NoFile}] /\ row # NoFile
  BY SearchAssumption DEF Index
<1>2. \A q \in Path : rows[q] = IF q = p THEN row ELSE ix.rows[q]
  BY <1>1
<1>3. \A q, r \in Path : rows[q] # NoFile /\ rows[r] # NoFile /\ q # r => rows[q].id # rows[r].id
  BY <1>2 DEF Consistent
<1>4. ASSUME NEW id \in Id
      PROVE  id \in fts <=> \E q \in Path : rows[q] # NoFile /\ (rows[q] # NoFile => rows[q].id = id)
  <2>1. id \in ix.fts <=> \E q \in Path : ix.rows[q] # NoFile /\ ix.rows[q].id = id
    BY DEF Consistent
  <2>2. ASSUME id \in fts PROVE \E q \in Path : rows[q] # NoFile /\ rows[q].id = id
    <3>1. CASE id = row.id
      BY <1>1, <1>2, <3>1
    <3>2. CASE id # row.id
      <4>1. PICK q \in Path : ix.rows[q] # NoFile /\ ix.rows[q].id = id
        BY <2>1, <2>2, <3>2
      <4>2. rows[q] = ix.rows[q]
        BY <1>2, <4>1
      <4> QED  BY <4>1, <4>2
    <3> QED  BY <3>1, <3>2
  <2>3. ASSUME NEW q \in Path, rows[q] # NoFile, rows[q].id = id PROVE id \in fts
    BY <1>2, <2>1, <2>3
  <2> QED  BY <2>2, <2>3
<1> HIDE DEF rows, fts
<1>5. Consistent([rows |-> rows, fts |-> fts])
  BY <1>3, <1>4 DEF Consistent
<1> QED  BY <1>5 DEF rows, fts

\* The row that a sync saw goes, and the one of what it read comes, under the
\* stamp taken before: for a file that did not change that is what it is now.
LEMMA AloneOfStore ==
    ASSUME IInv, Alone, NEW s \in Searcher, Store(s)
    PROVE  Alone'
<1> USE DEF IInv
<1> DEFINE p == file[s].path
           old == Cleared(s, p)
           row == NewRow(s)
<1>1. pc[s] = "store" /\ txn \in {s, NoSearcher}
  BY DEF Store
<1>2. /\ \A q \in Running : q = s
      /\ Consistent(index) /\ Consistent(Mine(s)) /\ Looking(s)
  BY <1>1, OnlyOne
<1>3. CASE End(s, "duplicate")
  BY <1>3, AloneOfEnd
<1>4. CASE ~End(s, "duplicate")
  <2>0. p \in Path /\ file[s].read \in File /\ file[s].stamp \in Stamp /\ Truthful(p, row) /\ row \in File
        /\ row.id = file[s].read.id /\ row.stamp = file[s].stamp
    <3>1. file[s] \in Look /\ file[s].read \in File /\ Truthful(p, row)
      BY <1>1 DEF LooksTruthful
    <3>2. p \in Path /\ file[s].stamp \in Stamp
      BY <3>1 DEF Look
    <3> QED  BY <3>1, <3>2 DEF NewRow, File
  <2>1. /\ \A q \in Path : old.rows[q] # NoFile => q # p /\ old.rows[q].id # file[s].read.id
        /\ txn' = s
        /\ draft' = [rows |-> [old.rows EXCEPT ![p] = row], fts |-> old.fts \cup {file[s].read.id}]
        /\ pc' = [pc EXCEPT ![s] = "scan"]
        /\ todo' = [todo EXCEPT ![s] = @ \ {p}]
        /\ file' = [file EXCEPT ![s] = NoFile]
        /\ UNCHANGED <<clock, disk, index, view, results, stable>>
    BY <1>1, <1>4 DEF Store, Writes, Goto, NewRow
  <2>2. Mine(s) \in Index /\ Mine(s).rows \in [Path -> File \cup {NoFile}] /\ Mine(s).rows[p] = view[s][p]
    BY <1>1, <1>2, MineType DEF Looking
  <2>3. old \in Index /\ Consistent(old) /\ \A q \in Path \ {p} : old.rows[q] = Mine(s).rows[q]
    <3>1. CASE view[s][p] = NoFile
      BY <1>2, <2>2, <3>1 DEF Cleared
    <3>2. CASE view[s][p] # NoFile
      <4>1. old = [rows |-> [Mine(s).rows EXCEPT ![p] = NoFile], fts |-> Mine(s).fts \ {Mine(s).rows[p].id}]
        BY <2>2, <3>2 DEF Cleared
      <4>2. Consistent(old)
        BY <1>2, <2>0, <2>2, <3>2, <4>1, ConsistentWithout
      <4>3. old \in Index
        BY <2>0, <2>2, <4>1 DEF Index
      <4> QED  BY <2>2, <4>1, <4>2, <4>3
    <3> QED  BY <3>1, <3>2
  <2>4. old.rows[p] = NoFile /\ \A q \in Path : old.rows[q] # NoFile => old.rows[q].id # row.id
    BY <2>0, <2>1
  <2>5. draft' = [rows |-> [old.rows EXCEPT ![p] = row], fts |-> old.fts \cup {row.id}]
    BY <2>0, <2>1
  <2> HIDE DEF old, row
  <2>6. Consistent(draft')
    BY <2>0, <2>3, <2>4, <2>5, ConsistentWith
  <2>7. draft'.rows[p] = row /\ \A q \in Path \ {p} : draft'.rows[q] = Mine(s).rows[q]
    <3>1. old.rows \in [Path -> File \cup {NoFile}]
      BY <2>3 DEF Index
    <3> QED  BY <2>0, <2>3, <2>5, <3>1
  <2>8. Mine(s)' = draft' /\ OnDisk' = OnDisk
    BY <2>1 DEF Mine, OnDisk
  <2>9. pc'[s] = "scan" /\ todo'[s] = todo[s] \ {p} /\ \A q \in Searcher \ {s} : pc'[q] = pc[q]
    BY <2>1 DEF TypeOK
  <2>10. p \in stable[s] => row = disk[p]
    <3> SUFFICES ASSUME p \in stable[s] PROVE row = disk[p]
      OBVIOUS
    <3>1. file[s].stamp = disk[p].stamp /\ disk[p] # NoFile
      BY <1>1, <1>2 DEF Looking, OnDisk
    <3>2. row # NoFile
      BY <2>0, SearchAssumption
    <3> QED  BY <2>0, <3>1, <3>2 DEF Truthful
  <2>11. Looking(s)'
    <3>1. \A q \in todo'[s] : q \in Path \ {p} /\ q \in todo[s]
      BY <2>9 DEF TypeOK
    <3>2. \A q \in todo'[s] : Mine(s)'.rows[q] = view'[s][q]
      BY <1>1, <1>2, <2>1, <2>7, <2>8, <3>1 DEF Looking
    <3>3. \A q \in stable'[s] : q \in todo'[s] \/ Mine(s)'.rows[q] = disk'[q]
      <4> SUFFICES ASSUME NEW q \in stable[s], q \notin todo'[s] PROVE Mine(s)'.rows[q] = disk[q]
        BY <2>1
      <4>1. q \in Path
        BY DEF TypeOK
      <4>2. CASE q = p
        BY <2>7, <2>8, <2>10, <4>2
      <4>3. CASE q # p
        BY <1>1, <1>2, <2>7, <2>8, <2>9, <4>1, <4>3 DEF Looking
      <4> QED  BY <4>2, <4>3
    <3>4. stable'[s] \subseteq OnDisk'
      BY <1>2, <2>1, <2>8 DEF Looking
    <3> QED  BY <2>9, <3>2, <3>3, <3>4 DEF Looking
  <2>12. Found(s)'
    BY <2>9 DEF Found
  <2> QED  BY <1>2, <2>1, <2>6, <2>9, <2>11, <2>12, AloneOfStep
<1> QED  BY <1>3, <1>4

\* A sync that has looked at every file commits rows that are up to date.
LEMMA AloneOfCommit ==
    ASSUME TypeOK, Alone, NEW s \in Searcher, Commit(s)
    PROVE  Alone'
<1>1. /\ pc[s] = "scan" /\ todo[s] = {} /\ index' = Mine(s) /\ txn' = NoSearcher
      /\ pc' = [pc EXCEPT ![s] = "query"] /\ UNCHANGED <<disk, results, stable>>
  BY DEF Commit, Goto
<1>2. (\A q \in Running : q = s) /\ Consistent(Mine(s)) /\ Looking(s)
  BY <1>1, OnlyOne
<1>3. pc'[s] = "query" /\ \A q \in Searcher \ {s} : pc'[q] = pc[q]
  BY <1>1 DEF TypeOK
<1>4. Looking(s)' /\ Found(s)'
  BY <1>1, <1>2, <1>3 DEF Looking, Found, OnDisk
<1>5. Consistent(index')
  BY <1>1, <1>2
<1> QED  BY <1>1, <1>2, <1>3, <1>4, <1>5, AloneOfStep

LEMMA AloneOfQuery ==
    ASSUME TypeOK, Alone, NEW s \in Searcher, Query(s)
    PROVE  Alone'
<1>1. /\ pc[s] = "query" /\ pc' = [pc EXCEPT ![s] = "hits"] /\ view' = [view EXCEPT ![s] = index.rows]
      /\ todo' = [todo EXCEPT ![s] =
                    {p \in Path : LET row == index.rows[p] IN
                                  row # NoFile /\ (row # NoFile => row.visible /\ row.id \in index.fts)}]
      /\ UNCHANGED <<disk, index, txn, draft, results, stable>>
  BY DEF Query, Goto, db
<1>2. (\A q \in Running : q = s) /\ Consistent(index) /\ Looking(s) /\ Found(s) /\ txn = NoSearcher
  BY <1>1, OnlyOne
<1>3. pc'[s] = "hits" /\ view'[s] = index.rows /\ \A q \in Searcher \ {s} : pc'[q] = pc[q]
  BY <1>1 DEF TypeOK
<1>4. ASSUME NEW p \in stable[s] PROVE view'[s][p] = disk[p] /\ (disk[p].visible => p \in todo'[s])
  <2>1. p \in Path /\ index.rows[p] = disk[p] /\ disk[p] # NoFile
    BY <1>1, <1>2 DEF Found, Looking, OnDisk
  <2>2. disk[p].id \in Id
    BY <2>1 DEF TypeOK, File
  <2>3. disk[p].id \in index.fts
    BY <1>2, <2>1, <2>2 DEF Consistent
  <2>4. todo'[s] = {q \in Path : LET r == index.rows[q] IN
                                 r # NoFile /\ (r # NoFile => r.visible /\ r.id \in index.fts)}
    BY <1>1 DEF TypeOK
  <2> QED  BY <1>3, <2>1, <2>3, <2>4
<1>5. Looking(s)' /\ Found(s)'
  BY <1>1, <1>2, <1>3, <1>4 DEF Looking, Found, OnDisk
<1>6. Consistent(index') /\ txn' = NoSearcher
  BY <1>1, <1>2
<1> QED  BY <1>1, <1>2, <1>3, <1>5, <1>6, AloneOfStep

LEMMA AloneOfReadHit ==
    ASSUME TypeOK, Alone, NEW s \in Searcher, NEW p \in Path, ReadHit(s, p)
    PROVE  Alone'
<1>1. pc[s] = "hits" /\ p \in todo[s]
  BY DEF ReadHit
<1>2. (\A q \in Running : q = s) /\ Consistent(index) /\ Looking(s) /\ Found(s) /\ txn = NoSearcher
  BY <1>1, OnlyOne
<1>3. CASE End(s, "failed")
  BY <1>3, AloneOfEnd
<1>4. CASE ~End(s, "failed")
  <2>1. /\ todo' = [todo EXCEPT ![s] = @ \ {p}]
        /\ results' = [results EXCEPT ![s] = IF disk[p].visible THEN @ \cup {p} ELSE @]
        /\ UNCHANGED <<clock, disk, index, txn, draft, pc, view, file, stable>>
    BY <1>4 DEF ReadHit, db
  <2>2. /\ todo'[s] = todo[s] \ {p}
        /\ results[s] \subseteq results'[s] /\ (disk[p].visible => p \in results'[s])
        /\ \A q \in Searcher \ {s} : results'[q] = results[q]
    BY <2>1 DEF TypeOK
  <2>3. Looking(s)' /\ Found(s)'
    BY <1>1, <1>2, <2>1, <2>2 DEF Looking, Found, OnDisk
  <2>4. Consistent(index') /\ txn' = NoSearcher
    BY <1>2, <2>1
  <2> QED  BY <1>2, <2>1, <2>2, <2>3, <2>4, AloneOfStep
<1> QED  BY <1>3, <1>4

LEMMA AloneOfReturn ==
    ASSUME TypeOK, Alone, NEW s \in Searcher, Return(s)
    PROVE  Alone'
<1>1. /\ pc[s] = "hits" /\ todo[s] = {} /\ pc' = [pc EXCEPT ![s] = "done"]
      /\ UNCHANGED <<disk, index, txn, draft, results, stable>>
  BY DEF Return, Goto, db
<1>2. (\A q \in Running : q = s) /\ Consistent(index) /\ Looking(s) /\ Found(s) /\ txn = NoSearcher
  BY <1>1, OnlyOne
<1>3. pc'[s] = "done" /\ \A q \in Searcher \ {s} : pc'[q] = pc[q]
  BY <1>1 DEF TypeOK
<1>4. Looking(s)' /\ Found(s)'
  BY <1>1, <1>2, <1>3 DEF Looking, Found, OnDisk
<1>5. Consistent(index') /\ txn' = NoSearcher
  BY <1>1, <1>2
<1> QED  BY <1>1, <1>2, <1>3, <1>4, <1>5, AloneOfStep

LEMMA AloneStep == IInv /\ AloneInv /\ [AloneNext]_<<vars, overlapped>> => AloneInv'
<1> SUFFICES ASSUME IInv, AloneInv, [AloneNext]_<<vars, overlapped>>, ~overlapped' PROVE Alone'
  BY DEF AloneInv
<1>1. CASE UNCHANGED <<vars, overlapped>>
  <2>1. Alone /\ UNCHANGED <<clock, disk, index, txn, draft, pc, view, todo, file, results, stable>>
    BY <1>1 DEF vars, db, search, AloneInv
  <2> QED  BY <2>1 DEF Alone, OneByOne, Running, Consistent, Looking, Found, Mine, OnDisk
<1>2. CASE AloneNext
  <2>1. Alone /\ ~Overlap' /\ TypeOK
    BY <1>2 DEF AloneNext, AloneInv, IInv
  <2>2. ASSUME NEW p \in Path, (\E id \in Id : Create(p, id)) \/ Rewrite(p) \/ Remove(p)
        PROVE  Alone'
    BY <2>1, <2>2, AloneOfChanges DEF Create, Rewrite, Remove, Save, TypeOK
  <2>3. ASSUME NEW s \in Searcher, Busy(s) \/ Finish(s) \/ Crash(s) PROVE Alone'
    BY <2>1, <2>3, AloneOfEnd DEF Busy, Finish, Crash
  <2>4. ASSUME NEW s \in Searcher,
               Start(s) \/ List(s) \/ RemoveMissing(s) \/ Read(s) \/ Store(s) \/ Commit(s) \/ Query(s) \/ Return(s)
        PROVE  Alone'
    BY <2>1, <2>4, AloneOfStart, AloneOfList, AloneOfRemove, AloneOfRead, AloneOfStore, AloneOfCommit,
       AloneOfQuery, AloneOfReturn
  <2>5. ASSUME NEW s \in Searcher, NEW p \in Path, Stat(s, p) \/ ReadHit(s, p) PROVE Alone'
    BY <2>1, <2>5, AloneOfStat, AloneOfReadHit
  <2> QED  BY <1>2, <2>2, <2>3, <2>4, <2>5 DEF AloneNext, Next
<1> QED  BY <1>1, <1>2

LEMMA AloneInductive == AloneSpec => [](IInv /\ AloneInv)
<1>1. AloneInit => IInv /\ AloneInv
  <2> SUFFICES ASSUME AloneInit PROVE IInv /\ AloneInv
    OBVIOUS
  <2>1. OneByOne
    BY ConsistentEmpty DEF AloneInit, Init, OneByOne, Running
  <2>2. \A s \in Searcher : Looking(s) /\ Found(s)
    BY DEF AloneInit, Init, Looking, Found
  <2> QED  BY <2>1, <2>2, Initially DEF AloneInit, AloneInv, Alone
<1>2. IInv /\ [AloneNext]_<<vars, overlapped>> => IInv'
  BY Step DEF AloneNext, vars
<1> QED  BY <1>1, <1>2, AloneStep, PTL DEF AloneSpec

\* A search (search.py) finds every memory that was active since it began, as
\* long as no two searches have run at the same time, for any number of files
\* and whatever changed and crashed.
THEOREM AllFound == AloneSpec => []RecallComplete
<1>1. AloneInv => RecallComplete
  BY DEF AloneInv, Alone, Found, RecallComplete
<1> QED  BY <1>1, AloneInductive, PTL

\* Until then no file is skipped as unchanged while its text is missing from
\* the index: RowsSearchable, which two overlapping syncs break, needs both.
THEOREM SearchableAlone == AloneSpec => [](overlapped \/ RowsSearchable)
<1>1. IInv /\ AloneInv => overlapped \/ RowsSearchable
  <2> SUFFICES ASSUME IInv, Alone, NEW p \in OnDisk, Current(p) PROVE disk[p].id \in index.fts
    BY DEF AloneInv, RowsSearchable
  <2>1. p \in Path /\ disk[p] # NoFile /\ disk[p].id \in Id
    BY DEF OnDisk, IInv, TypeOK, File
  <2>2. index.rows[p] # NoFile /\ index.rows[p].stamp = disk[p].stamp
    BY DEF Current
  <2>3. index.rows[p] = disk[p]
    BY <2>1, <2>2 DEF IInv, RowsTruthful, Truthful
  <2> QED  BY <2>1, <2>2, <2>3 DEF Alone, OneByOne, Consistent
<1> QED  BY <1>1, AloneInductive, PTL
=============================================================================
