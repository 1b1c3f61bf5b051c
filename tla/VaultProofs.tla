---------------------------- MODULE VaultProofs ----------------------------
(***************************************************************************)
(* Proofs about Vault for any number of processes, memories and scopes,    *)
(* with crashes and failing rollbacks (CrashSpec, which allows every       *)
(* behaviour of Spec).                                                     *)
(***************************************************************************)
EXTENDS VaultUntilCrash, FiniteSetTheorems, TLAPS

LEMMA StatusType ==
    ASSUME NEW m \in Memory, NEW st \in Status
    PROVE  /\ WithStatus(m, st) \in Memory
           /\ WithStatus(m, st).status = st
           /\ WithStatus(m, st).scope = m.scope
           /\ WithStatus(m, st).supersedes = m.supersedes
  BY DEF WithStatus, Memory

LEMMA LearnId ==
    ASSUME NEW s \in Scope, NEW o \in Occurrence
    PROVE  <<s, o>> \in Id
  BY DEF Id

LEMMA PriorsType ==
    ASSUME NEW f \in Files, NEW s, NEW k, NEW target \in Id \cup {NoId}, NEW provisional,
           NEW prior \in Priors(f, s, k, target, provisional)
    PROVE  prior \in Id \cup {NoId}
  BY DEF Priors, Current, Stored

LEMMA RestorableType ==
    ASSUME NEW f \in Files, NEW i \in Id, f[i] # NoFile
    PROVE  Restorable(f, i) \in Id \cup {NoId}
  BY DEF Restorable, Files, Memory

LEMMA Put ==
    ASSUME NEW f \in Files, NEW i \in Id, NEW m \in Memory
    PROVE  LET g == [f EXCEPT ![i] = m] IN
           /\ g \in Files
           /\ g[i] = m
           /\ \A j \in Id \ {i} : g[j] = f[j]
           /\ Stored(g) = Stored(f) \cup {i}
  BY DistinctNames DEF Files, Stored

LEMMA Drop ==
    ASSUME NEW f \in Files, NEW i \in Id
    PROVE  LET g == [f EXCEPT ![i] = NoFile] IN
           /\ g \in Files
           /\ \A j \in Id \ {i} : g[j] = f[j]
           /\ Stored(g) = Stored(f) \ {i}
  BY DEF Files, Stored

\* Rewriting a stored memory keeps every predecessor, its links unchanged.
LEMMA RewriteKeepsLineage ==
    ASSUME NEW f \in Files, LineageClosedIn(f), NEW i \in Id, f[i] # NoFile, NEW m \in Memory,
           m.scope = f[i].scope, m.supersedes = f[i].supersedes
    PROVE  LET g == [f EXCEPT ![i] = m] IN
           g \in Files /\ Stored(g) = Stored(f) /\ LineageClosedIn(g)
<1> DEFINE g == [f EXCEPT ![i] = m]
<1>1. /\ g \in Files /\ g[i] = m /\ Stored(g) = Stored(f) \cup {i}
      /\ \A j \in Id \ {i} : g[j] = f[j]
  <2>1. g \in Files
    BY Put
  <2>2. g[i] = m /\ Stored(g) = Stored(f) \cup {i}
    BY Put
  <2>3. \A j \in Id \ {i} : g[j] = f[j]
    BY Put
  <2> QED  BY <2>1, <2>2, <2>3
<1>2. i \in Stored(f) /\ \A j \in Stored(f) : j \in Id
  BY DEF Stored
<1> HIDE DEF g
<1>3. Stored(g) = Stored(f)
  BY <1>1, <1>2
<1>4. \A j \in Stored(f) : g[j].scope = f[j].scope /\ g[j].supersedes = f[j].supersedes
  BY <1>1, <1>2
<1>5. LineageClosedIn(g)
  BY <1>3, <1>4 DEF LineageClosedIn
<1> QED  BY <1>1, <1>3, <1>5 DEF g

\* So does giving it another status.
LEMMA StatusKeepsLineage ==
    ASSUME NEW f \in Files, LineageClosedIn(f), NEW i \in Stored(f), NEW st \in Status
    PROVE  LET g == [f EXCEPT ![i] = WithStatus(f[i], st)] IN
           g \in Files /\ Stored(g) = Stored(f) /\ LineageClosedIn(g)
<1>1. i \in Id /\ f[i] # NoFile /\ f[i] \in Memory
  BY DEF Stored, Files
<1>2. /\ WithStatus(f[i], st) \in Memory
      /\ WithStatus(f[i], st).scope = f[i].scope
      /\ WithStatus(f[i], st).supersedes = f[i].supersedes
  BY <1>1, StatusType
<1> QED  BY <1>1, <1>2, RewriteKeepsLineage

\* A new memory whose predecessor is stored in its scope keeps every predecessor.
LEMMA AddKeepsLineage ==
    ASSUME NEW f \in Files, LineageClosedIn(f), NEW i \in Id, f[i] = NoFile, NEW m \in Memory,
           m.supersedes # NoId =>
              m.supersedes \in Stored(f) /\ f[m.supersedes].scope = m.scope
    PROVE  LineageClosedIn([f EXCEPT ![i] = m])
<1> DEFINE g == [f EXCEPT ![i] = m]
<1>1. /\ g[i] = m /\ Stored(g) = Stored(f) \cup {i}
      /\ \A j \in Id \ {i} : g[j] = f[j]
  BY Put
<1>2. i \notin Stored(f) /\ \A j \in Stored(f) : j \in Id /\ g[j] = f[j]
  BY <1>1 DEF Stored
<1> HIDE DEF g
<1>3. LineageClosedIn(g)
  BY <1>1, <1>2 DEF LineageClosedIn
<1> QED  BY <1>3 DEF g

\* Removing a memory that no other memory names keeps every predecessor.
LEMMA DropKeepsLineage ==
    ASSUME NEW f \in Files, LineageClosedIn(f), NEW i \in Id,
           \A j \in Stored(f) : f[j].supersedes # i
    PROVE  LineageClosedIn([f EXCEPT ![i] = NoFile])
<1> DEFINE g == [f EXCEPT ![i] = NoFile]
<1>1. Stored(g) = Stored(f) \ {i} /\ \A j \in Id \ {i} : g[j] = f[j]
  BY Drop
<1>2. \A j \in Stored(g) : g[j] = f[j]
  BY <1>1 DEF Stored
<1> HIDE DEF g
<1>3. LineageClosedIn(g)
  BY <1>1, <1>2 DEF LineageClosedIn
<1> QED  BY <1>3 DEF g

LEMMA BeginType ==
    ASSUME TypeOK, NEW p \in Proc, NEW step \in Step, NEW id \in Id,
           NEW memory \in Memory, NEW prior \in Id \cup {NoId},
           Begin(p, step, id, memory, prior)
    PROVE  TypeOK'
  BY DEF TypeOK, Begin, Goto, Job, Files

LEMMA ReturnType ==
    ASSUME TypeOK, NEW p \in Proc, Return(p), files' \in Files
    PROVE  TypeOK'
  BY DEF TypeOK, Return, Step

-----------------------------------------------------------------------------
(***************************************************************************)
(* The inductive invariant: only the lock holder is in an operation, its   *)
(* copies are current, and a writer that passed the limit check still has  *)
(* room.                                                                   *)
(***************************************************************************)
Finite == IsFiniteSet(Stored(files)) /\ FileLimit

RoomLeft == \A p \in Proc : pc[p] = "write" => ~Full(files)

IInv == TypeOK /\ Held /\ JobsCurrent /\ LineageClosed /\ Finite /\ RoomLeft

LEMMA OthersIdle ==
    ASSUME IInv, NEW p \in Proc, pc[p] # "idle"
    PROVE  lock = p /\ \A q \in Proc \ {p} : pc[q] = "idle"
  BY DEF IInv, Held

\* An operation that ends leaves every process idle, so nothing is stale.
LEMMA Ends ==
    ASSUME IInv, NEW p \in Proc, pc[p] # "idle", Return(p),
           files' \in Files, LineageClosed', Finite'
    PROVE  IInv'
<1>1. \A q \in Proc : pc'[q] = "idle"
  BY OthersIdle DEF Return, IInv, TypeOK
<1>2. TypeOK'
  BY ReturnType DEF IInv
<1>3. Held' /\ JobsCurrent' /\ RoomLeft'
  BY <1>1 DEF Held, JobsCurrent, RoomLeft, LearnCurrent, ForgetCurrent, Learning, Forgetting
<1> QED  BY <1>2, <1>3 DEF IInv

\* So does one that ends without a write.
LEMMA EndsUnchanged ==
    ASSUME IInv, NEW p \in Proc, pc[p] # "idle", Return(p), UNCHANGED files
    PROVE  IInv'
<1>1. files' \in Files /\ LineageClosed' /\ Finite'
  BY DEF IInv, TypeOK, LineageClosed, Finite, FileLimit
<1> QED  BY <1>1, Ends

\* Rewriting a stored memory with another status adds and loses no file.
LEMMA StatusWrite ==
    ASSUME IInv, NEW i \in Stored(files), NEW st \in Status,
           files' = [files EXCEPT ![i] = WithStatus(files[i], st)]
    PROVE  files' \in Files /\ LineageClosed' /\ Finite' /\ Stored(files') = Stored(files)
<1>1. files \in Files /\ LineageClosedIn(files)
  BY DEF IInv, TypeOK, LineageClosed
<1>2. files' \in Files /\ Stored(files') = Stored(files) /\ LineageClosedIn(files')
  BY <1>1, StatusKeepsLineage
<1> QED  BY <1>2 DEF IInv, LineageClosed, Finite, FileLimit

\* Unlinking a memory nobody names keeps the rest.
LEMMA UnlinkWrite ==
    ASSUME IInv, NEW i \in Id, \A j \in Stored(files) : files[j].supersedes # i,
           files' = [files EXCEPT ![i] = NoFile]
    PROVE  files' \in Files /\ LineageClosed' /\ Finite'
<1>1. files \in Files /\ LineageClosedIn(files)
  BY DEF IInv, TypeOK, LineageClosed
<1>2. files' \in Files /\ Stored(files') = Stored(files) \ {i}
  BY <1>1, Drop
<1>3. LineageClosedIn(files')
  BY <1>1, DropKeepsLineage
<1>4. IsFiniteSet(Stored(files)) /\ Cardinality(Stored(files)) \in Nat
  BY FS_CardinalityType DEF IInv, Finite
<1>5. /\ IsFiniteSet(Stored(files) \ {i})
      /\ Cardinality(Stored(files) \ {i}) <= Cardinality(Stored(files))
  <2>1. /\ IsFiniteSet(Stored(files) \ {i})
        /\ Cardinality(Stored(files) \ {i}) =
              IF i \in Stored(files) THEN Cardinality(Stored(files)) - 1
              ELSE Cardinality(Stored(files))
    BY <1>4, FS_RemoveElement
  <2> QED  BY <1>4, <2>1
<1>6. Finite'
  <2> DEFINE card == Cardinality(Stored(files))
             less == Cardinality(Stored(files) \ {i})
  <2>1. card \in Nat /\ less \in Nat /\ less <= card /\ card <= MaxFiles
    BY <1>4, <1>5, FS_CardinalityType DEF IInv, Finite, FileLimit
  <2>2. less <= MaxFiles
    <3> HIDE DEF card, less
    <3> QED  BY <2>1, LimitAssumption
  <2> QED  BY <1>2, <1>5, <2>2 DEF Finite, FileLimit
<1> QED  BY <1>2, <1>3, <1>6 DEF LineageClosed

-----------------------------------------------------------------------------

\* Taking the lock changes no file.
LEMMA LockStep == ASSUME IInv, NEW p \in Proc, Lock(p) PROVE IInv'
<1>1. \A q \in Proc : pc[q] = "idle"
  BY DistinctHolder DEF IInv, Held, Lock
<1>2. TypeOK'
  BY DEF Lock, IInv, TypeOK, Step
<1>3. \A q \in Proc : pc'[q] = IF q = p THEN "locked" ELSE "idle"
  BY <1>1 DEF Lock, IInv, TypeOK
<1>4. Held' /\ JobsCurrent' /\ RoomLeft'
  BY <1>3 DEF Held, JobsCurrent, RoomLeft, LearnCurrent, ForgetCurrent, Learning, Forgetting, Lock
<1>5. LineageClosed' /\ Finite'
  BY DEF Lock, IInv, LineageClosed, Finite, FileLimit
<1> QED  BY <1>2, <1>4, <1>5 DEF IInv

\* A new memory is about to be written: its id is free and nobody names it.
LEMMA BeginLearn ==
    ASSUME IInv, NEW p \in Proc, NEW id \in Id, NEW m \in Memory, NEW prior \in Id \cup {NoId},
           Begin(p, "write", id, m, prior), files[id] = NoFile, ~Full(files),
           m.supersedes = prior, m.status \in {"active", "provisional"},
           prior # NoId => /\ m.status = "active"
                           /\ HasStatus(files, prior, "active")
                           /\ files[prior].scope = m.scope
    PROVE  IInv'
<1>1. lock = p /\ \A q \in Proc \ {p} : pc[q] = "idle"
  BY OthersIdle DEF Begin
<1>2. TypeOK'
  BY BeginType DEF IInv, Step
<1>3. /\ \A q \in Proc : pc'[q] = IF q = p THEN "write" ELSE "idle"
      /\ lock' = p /\ files' = files
  BY <1>1 DEF Begin, Goto, IInv, TypeOK
<1> DEFINE j == [id |-> id, memory |-> m, prior |-> prior,
                 priorMemory |-> IF prior = NoId THEN NoFile ELSE files[prior]]
<1>4. job'[p] = j
  BY DEF Begin, IInv, TypeOK
<1>5. j \in Job
  BY <1>2, <1>4 DEF Begin, Job, IInv, TypeOK, Files
<1>6. \A i \in Stored(files) : files[i].supersedes # id
  BY DistinctNames DEF IInv, LineageClosed, LineageClosedIn, Stored
<1>7. PriorCurrent(j, "active")
  BY DEF PriorCurrent, HasStatus
<1>8. LearnCurrent(p)'
  BY <1>3, <1>4, <1>5, <1>6, <1>7 DEF LearnCurrent, PriorCurrent
<1>9. Held' /\ JobsCurrent' /\ RoomLeft'
  BY <1>3, <1>8 DEF Held, JobsCurrent, RoomLeft, LearnCurrent, ForgetCurrent, Learning, Forgetting
<1>10. LineageClosed' /\ Finite'
  BY <1>3 DEF IInv, LineageClosed, Finite, FileLimit
<1> QED  BY <1>2, <1>9, <1>10 DEF IInv

\* A stored memory is about to be forgotten.
LEMMA BeginForget ==
    ASSUME IInv, NEW p \in Proc, NEW i \in Id, files[i] # NoFile, files[i].status # "forgotten",
           Begin(p, "hide", i, files[i], Restorable(files, i))
    PROVE  IInv'
<1>1. lock = p /\ \A q \in Proc \ {p} : pc[q] = "idle"
  BY OthersIdle DEF Begin
<1>2. files[i] \in Memory /\ Restorable(files, i) \in Id \cup {NoId}
  BY RestorableType DEF IInv, TypeOK, Files
<1>3. TypeOK'
  BY <1>2, BeginType DEF IInv, Step
<1>4. /\ \A q \in Proc : pc'[q] = IF q = p THEN "hide" ELSE "idle"
      /\ lock' = p /\ files' = files
  BY <1>1 DEF Begin, Goto, IInv, TypeOK
<1> DEFINE prior == Restorable(files, i)
           j == [id |-> i, memory |-> files[i], prior |-> prior,
                 priorMemory |-> IF prior = NoId THEN NoFile ELSE files[prior]]
<1>5. job'[p] = j
  BY DEF Begin, IInv, TypeOK
<1>6. j \in Job
  BY <1>2 DEF Job, IInv, TypeOK, Files
<1>7. PriorCurrent(j, "superseded")
  BY DEF PriorCurrent, HasStatus, Restorable
<1>8. ForgetCurrent(p)'
  <2> HIDE DEF prior
  <2> QED  BY <1>4, <1>5, <1>6, <1>7 DEF ForgetCurrent, PriorCurrent
<1>9. Held' /\ JobsCurrent' /\ RoomLeft'
  BY <1>4, <1>8 DEF Held, JobsCurrent, RoomLeft, LearnCurrent, ForgetCurrent, Learning, Forgetting
<1>10. LineageClosed' /\ Finite'
  BY <1>4 DEF IInv, LineageClosed, Finite, FileLimit
<1> QED  BY <1>3, <1>9, <1>10 DEF IInv

\* Whatever learn replaces is an active memory of the same scope, and a
\* provisional statement replaces nothing.
LEMMA PriorsActive ==
    ASSUME NEW f \in Files, NEW s, NEW k, NEW target \in Id \cup {NoId}, NEW provisional \in BOOLEAN,
           target = NoId \/ ~provisional, ValidTarget(f, s, target),
           NEW prior \in Priors(f, s, k, target, provisional), prior # NoId
    PROVE  /\ ~provisional
           /\ HasStatus(f, prior, "active")
           /\ f[prior].scope = s
<1>1. CASE prior = target
  BY <1>1 DEF ValidTarget
<1>2. CASE prior # target
  BY <1>2 DEF Priors, Current, Stored, HasStatus
<1> QED  BY <1>1, <1>2

\* remember, learn and forget, from the reading of the directory to the
\* decision what to write.
LEMMA CallStep == ASSUME IInv, NEW p \in Proc, Call(p) PROVE IInv'
<1>0. ASSUME Refuse(p) PROVE IInv'
  BY <1>0, EndsUnchanged DEF Refuse
<1>1. ASSUME NEW i \in Uuid, NEW s \in Scope, NEW c \in Content, Remember(p, i, s, c)
      PROVE  IInv'
  <2>1. CASE files[i] # NoFile \/ Full(files)
    BY <1>0, <1>1, <2>1 DEF Remember
  <2>2. CASE ~(files[i] # NoFile \/ Full(files))
    <3> DEFINE m == [scope |-> s, key |-> NoKey, content |-> c,
                     status |-> "active", supersedes |-> NoId]
    <3>1. m \in Memory /\ i \in Id /\ m.supersedes = NoId /\ m.status = "active"
      BY DEF Memory, Status, Id
    <3>2. Begin(p, "write", i, m, NoId)
      BY <1>1, <2>2 DEF Remember
    <3> HIDE DEF m
    <3> QED  BY <2>2, <3>1, <3>2, BeginLearn
  <2> QED  BY <2>1, <2>2
<1>2. ASSUME NEW s \in Scope, NEW o \in Occurrence, NEW c \in Content,
             NEW k \in Key \cup {NoKey}, NEW target \in Id \cup {NoId},
             NEW provisional \in BOOLEAN,
             Learn(p, s, o, c, k, target, provisional)
      PROVE  IInv'
  <2> DEFINE id == <<s, o>>
             refused == \/ Duplicate(files, id, s, k, c, provisional)
                        \/ ~ValidTarget(files, s, target)
                        \/ Full(files)
             new(prior) == [scope |-> s, key |-> k, content |-> c,
                            status |-> IF provisional THEN "provisional" ELSE "active",
                            supersedes |-> prior]
  <2>1. CASE refused
    BY <1>0, <1>2, <2>1 DEF Learn
  <2>2. CASE ~refused
    <3>1. PICK prior \in Priors(files, s, k, target, provisional) :
             Begin(p, "write", id, new(prior), prior)
      BY <1>2, <2>2 DEF Learn
    <3>2. prior \in Id \cup {NoId}
      BY PriorsType DEF IInv, TypeOK
    <3>3. target = NoId \/ ~provisional
      BY <1>2 DEF Learn
    <3>4. prior # NoId => /\ ~provisional
                          /\ HasStatus(files, prior, "active")
                          /\ files[prior].scope = s
      BY <2>2, <3>3, PriorsActive DEF IInv, TypeOK
    <3>5. /\ new(prior) \in Memory
          /\ new(prior).supersedes = prior
          /\ new(prior).status \in {"active", "provisional"}
          /\ ~provisional => new(prior).status = "active"
          /\ new(prior).scope = s
      BY <3>2 DEF Memory, Status
    <3>6. id \in Id
      BY LearnId
    <3>7. files[id] = NoFile /\ ~Full(files)
      BY <2>2 DEF Duplicate
    <3> HIDE DEF id, new
    <3> QED  BY <3>1, <3>2, <3>4, <3>5, <3>6, <3>7, BeginLearn
  <2> QED  BY <2>1, <2>2
<1>3. ASSUME NEW i \in Id, NEW s \in Scope, Forget(p, i, s)
      PROVE  IInv'
  <2>1. CASE files[i] = NoFile \/ files[i].scope # s \/ files[i].status = "forgotten"
    BY <1>0, <1>3, <2>1 DEF Forget
  <2>2. CASE ~(files[i] = NoFile \/ files[i].scope # s \/ files[i].status = "forgotten")
    <3>1. Begin(p, "hide", i, files[i], Restorable(files, i))
      BY <1>3, <2>2 DEF Forget
    <3> QED  BY <2>2, <3>1, BeginForget
  <2> QED  BY <2>1, <2>2
<1> QED  BY <1>1, <1>2, <1>3 DEF Call

\* A step that only moves the process on keeps the copies current.
LEMMA GotoStep ==
    ASSUME IInv, NEW p \in Proc, NEW step \in {"retire", "unlink", "unhide"},
           \/ step = "retire" /\ pc[p] = "verify" /\ job[p].prior # NoId
           \/ step = "unlink" /\ pc[p] = "retire"
           \/ step = "unhide" /\ pc[p] = "restore",
           Goto(p, step), UNCHANGED <<files, job>>
    PROVE  IInv'
<1>1. lock = p /\ \A q \in Proc \ {p} : pc[q] = "idle"
  BY OthersIdle
<1>2. /\ \A q \in Proc : pc'[q] = IF q = p THEN step ELSE "idle"
      /\ lock' = p /\ files' = files /\ job' = job
  BY <1>1 DEF Goto, IInv, TypeOK
<1>3. TypeOK' /\ LineageClosed' /\ Finite'
  BY <1>2 DEF Goto, IInv, TypeOK, LineageClosed, Finite, FileLimit, Step
<1>4. job[p].prior # NoId /\ LearnCurrent(p) /\ ForgetCurrent(p)
  BY DEF IInv, JobsCurrent
<1>5. LearnCurrent(p)' /\ ForgetCurrent(p)'
  BY <1>2, <1>4 DEF LearnCurrent, ForgetCurrent, PriorCurrent, Learning, Forgetting
<1>6. Held' /\ JobsCurrent' /\ RoomLeft'
  BY <1>2, <1>4, <1>5
  DEF Held, JobsCurrent, RoomLeft, LearnCurrent, ForgetCurrent, Learning, Forgetting
<1> QED  BY <1>3, <1>6 DEF IInv

\* The new file is in place: there was room for it, and its predecessor is
\* stored.
LEMMA WriteStep == ASSUME IInv, NEW p \in Proc, Write(p) PROVE IInv'
<1>1. CASE Return(p) /\ UNCHANGED files
  BY <1>1, EndsUnchanged DEF Write
<1>2. CASE /\ files' = [files EXCEPT ![job[p].id] = job[p].memory]
           /\ Goto(p, "verify")
           /\ UNCHANGED job
  <2> DEFINE id == job[p].id
             m == job[p].memory
             prior == job[p].prior
  <2>1. lock = p /\ \A q \in Proc \ {p} : pc[q] = "idle"
    BY OthersIdle DEF Write
  <2>2. /\ \A q \in Proc : pc'[q] = IF q = p THEN "verify" ELSE "idle"
        /\ lock' = p /\ job' = job
    BY <1>2, <2>1 DEF Goto, IInv, TypeOK
  <2>3. LearnCurrent(p) /\ pc[p] = "write" /\ pc[p] \in Learning
    BY DEF Write, IInv, JobsCurrent, Learning
  <2>4. /\ id \in Id /\ m \in Memory /\ prior \in Id \cup {NoId}
        /\ files[id] = NoFile /\ m.supersedes = prior
        /\ m.status \in {"active", "provisional"}
        /\ PriorCurrent(job[p], "active")
        /\ \A i \in Stored(files) : files[i].supersedes # id
    BY <2>3 DEF LearnCurrent, Job
  <2>5. /\ files' \in Files /\ files'[id] = m /\ Stored(files') = Stored(files) \cup {id}
        /\ \A i \in Id \ {id} : files'[i] = files[i]
    <3>1. files \in Files
      BY DEF IInv, TypeOK
    <3>2. files' \in Files
      BY <1>2, <2>4, <3>1, Put
    <3>3. files'[id] = m
      BY <1>2, <2>4, <3>1, Put
    <3>4. Stored(files') = Stored(files) \cup {id}
      <4> HIDE DEF id, m
      <4>1. Stored([files EXCEPT ![id] = m]) = Stored(files) \cup {id}
        BY <2>4, <3>1, Put
      <4>2. files' = [files EXCEPT ![id] = m]
        BY <1>2 DEF id, m
      <4> QED  BY <4>1, <4>2
    <3>5. \A i \in Id \ {id} : files'[i] = files[i]
      BY <1>2, <2>4, <3>1, Put
    <3> QED  BY <3>2, <3>3, <3>4, <3>5
  <2>6. LineageClosed'
    <3>1. prior # NoId => prior \in Stored(files) /\ files[prior].scope = m.scope
      BY <2>4 DEF PriorCurrent, HasStatus, Stored
    <3>2. files \in Files /\ LineageClosedIn(files)
      BY DEF IInv, TypeOK, LineageClosed
    <3> QED  BY <1>2, <2>4, <3>1, <3>2, AddKeepsLineage DEF LineageClosed
  <2>7. Finite'
    <3> DEFINE card == Cardinality(Stored(files))
               more == Cardinality(Stored(files'))
    <3>1. IsFiniteSet(Stored(files)) /\ card \in Nat /\ ~(card >= MaxFiles)
      BY <2>3, FS_CardinalityType DEF IInv, Finite, RoomLeft, Full
    <3>2. IsFiniteSet(Stored(files')) /\ (more = card \/ more = card + 1)
      BY <2>5, <3>1, FS_AddElement
    <3>3. more <= MaxFiles
      <4> HIDE DEF card, more
      <4> QED  BY <3>1, <3>2, LimitAssumption
    <3> QED  BY <3>2, <3>3 DEF Finite, FileLimit
  <2>8. PriorCurrent(job[p], "active")'
    BY <2>2, <2>4, <2>5 DEF PriorCurrent, HasStatus
  <2>9. \A i \in Stored(files') : files'[i].supersedes # id
    BY <2>4, <2>5, DistinctNames DEF Stored, PriorCurrent
  <2>10. LearnCurrent(p)'
    <3>1. job[p] \in Job
      BY <2>3 DEF LearnCurrent
    <3> QED  BY <2>2, <2>4, <2>5, <2>8, <2>9, <3>1 DEF LearnCurrent
  <2>11. Held' /\ JobsCurrent' /\ RoomLeft'
    BY <2>2, <2>10 DEF Held, JobsCurrent, RoomLeft, LearnCurrent, ForgetCurrent, Learning, Forgetting
  <2>12. TypeOK'
    BY <1>2, <2>5 DEF Goto, IInv, TypeOK, Step
  <2> QED  BY <2>6, <2>7, <2>11, <2>12 DEF IInv
<1> QED  BY <1>1, <1>2 DEF Write

\* The new memory is unlinked: it is stored as written and nobody names it.
LEMMA RollbackNew ==
    ASSUME IInv, NEW p \in Proc, pc[p] \in {"verify", "unlink"}, Return(p),
           files' = [files EXCEPT ![job[p].id] = NoFile]
    PROVE  IInv'
<1>1. /\ job[p] \in Job
      /\ \A i \in Stored(files) : files[i].supersedes # job[p].id
  BY DEF IInv, JobsCurrent, LearnCurrent, Learning
<1>2. files' \in Files /\ LineageClosed' /\ Finite'
  BY <1>1, UnlinkWrite DEF Job
<1> QED  BY <1>2, Ends

\* The copy of the predecessor is written back with another status.
LEMMA PriorWrite ==
    ASSUME IInv, NEW p \in Proc, pc[p] \in {"retire", "restore"}, NEW st \in Status,
           files' = [files EXCEPT ![job[p].prior] = WithStatus(job[p].priorMemory, st)],
           Return(p)
    PROVE  IInv'
<1>1. job[p] \in Job /\ job[p].prior # NoId
  BY DEF IInv, JobsCurrent, LearnCurrent, ForgetCurrent, Learning, Forgetting
<1>2. job[p].priorMemory = files[job[p].prior] /\ files[job[p].prior] # NoFile
  BY <1>1 DEF IInv, JobsCurrent, LearnCurrent, ForgetCurrent, Learning, Forgetting,
              PriorCurrent, HasStatus
<1>3. job[p].prior \in Stored(files)
  BY <1>1, <1>2 DEF Job, Stored
<1>4. files' \in Files /\ LineageClosed' /\ Finite'
  BY <1>2, <1>3, StatusWrite
<1> QED  BY <1>4, Ends

\* The memory is hidden; when it had replaced another, that one comes next.
LEMMA HideStep == ASSUME IInv, NEW p \in Proc, Hide(p) PROVE IInv'
<1> DEFINE id == job[p].id
           m == job[p].memory
<1>1. CASE Return(p) /\ UNCHANGED files
  BY <1>1, EndsUnchanged DEF Hide
<1>2. CASE files' = [files EXCEPT ![id] = WithStatus(m, "forgotten")]
  <2>1. ForgetCurrent(p) /\ pc[p] = "hide" /\ pc[p] \in Forgetting
    BY DEF Hide, IInv, JobsCurrent, Forgetting
  <2>2. /\ job[p] \in Job /\ id \in Id /\ m \in Memory
        /\ files[id] = m /\ id \in Stored(files)
        /\ m.status # "forgotten" /\ PriorCurrent(job[p], "superseded")
    BY <2>1, DistinctNames DEF ForgetCurrent, Job, Stored
  <2>3. files' \in Files /\ LineageClosed' /\ Finite'
    BY <1>2, <2>2, StatusWrite DEF Status
  <2>4. CASE Return(p)
    BY <2>1, <2>3, <2>4, Ends
  <2>5. CASE job[p].prior # NoId /\ Goto(p, "restore") /\ UNCHANGED job
    <3>1. lock = p /\ \A q \in Proc \ {p} : pc[q] = "idle"
      BY OthersIdle, <2>1
    <3>2. /\ \A q \in Proc : pc'[q] = IF q = p THEN "restore" ELSE "idle"
          /\ lock' = p /\ job' = job
      BY <2>5, <3>1 DEF Goto, IInv, TypeOK
    <3>3. files'[id] = WithStatus(m, "forgotten") /\ \A i \in Id \ {id} : files'[i] = files[i]
      BY <1>2, <2>2 DEF IInv, TypeOK, Files
    <3>4. PriorCurrent(job[p], "superseded")'
      BY <2>2, <3>2, <3>3 DEF PriorCurrent, HasStatus, Job
    <3>5. ForgetCurrent(p)'
      BY <2>2, <3>2, <3>3, <3>4 DEF ForgetCurrent
    <3>6. Held' /\ JobsCurrent' /\ RoomLeft'
      BY <2>5, <3>2, <3>5
      DEF Held, JobsCurrent, RoomLeft, LearnCurrent, ForgetCurrent, Learning, Forgetting
    <3>7. TypeOK'
      BY <2>3, <2>5 DEF Goto, IInv, TypeOK, Step
    <3> QED  BY <2>3, <3>6, <3>7 DEF IInv
  <2> QED  BY <1>2, <2>1, <2>4, <2>5 DEF Hide
<1> QED  BY <1>1, <1>2 DEF Hide

\* A failed restoration writes the memory back as it was.
LEMMA UnhideStep == ASSUME IInv, NEW p \in Proc, Unhide(p) PROVE IInv'
<1> DEFINE id == job[p].id
           m == job[p].memory
<1>1. /\ job[p] \in Job /\ id \in Id /\ m \in Memory
      /\ files[id] = WithStatus(m, "forgotten")
  BY DEF Unhide, IInv, JobsCurrent, ForgetCurrent, Forgetting, Job
<1>2. files[id] \in Memory /\ m.scope = files[id].scope /\ m.supersedes = files[id].supersedes
  BY <1>1, StatusType DEF Status
<1>3. files[id] # NoFile /\ files \in Files /\ LineageClosedIn(files)
  BY <1>2, DistinctNames DEF IInv, TypeOK, LineageClosed
<1>4. files' \in Files /\ Stored(files') = Stored(files) /\ LineageClosedIn(files')
  <2> HIDE DEF id, m
  <2>1. files' = [files EXCEPT ![id] = m]
    BY DEF Unhide, id, m
  <2> QED  BY <1>1, <1>2, <1>3, <2>1, RewriteKeepsLineage
<1>5. LineageClosed' /\ Finite'
  BY <1>4 DEF IInv, LineageClosed, Finite, FileLimit
<1> QED  BY <1>4, <1>5, Ends DEF Unhide

LEMMA IInvInit == Init => IInv
<1> SUFFICES ASSUME Init PROVE IInv
  OBVIOUS
<1>1. TypeOK
  BY DEF Init, TypeOK, Step, Files, NoMemories
<1>2. Stored(files) = {}
  BY DEF Init, Stored, NoMemories
<1>3. Finite /\ LineageClosed
  BY <1>2, FS_EmptySet, LimitAssumption DEF Finite, FileLimit, LineageClosed, LineageClosedIn
<1>4. Held /\ JobsCurrent /\ RoomLeft
  BY DEF Init, Held, JobsCurrent, RoomLeft, LearnCurrent, ForgetCurrent, Learning, Forgetting
<1> QED  BY <1>1, <1>3, <1>4 DEF IInv

LEMMA IInvStep == IInv /\ [CrashNext]_vars => IInv'
<1> SUFFICES ASSUME IInv, [CrashNext]_vars PROVE IInv'
  OBVIOUS
<1>1. ASSUME NEW p \in Proc, Lock(p) PROVE IInv'
  BY <1>1, LockStep
<1>2. ASSUME NEW p \in Proc, Call(p) PROVE IInv'
  BY <1>2, CallStep
<1>3. ASSUME NEW p \in Proc, Write(p) PROVE IInv'
  BY <1>3, WriteStep
<1>4. ASSUME NEW p \in Proc, Verify(p) PROVE IInv'
  <2>1. CASE Return(p) /\ UNCHANGED files
    BY <1>4, <2>1, EndsUnchanged DEF Verify
  <2>2. CASE job[p].prior # NoId /\ Goto(p, "retire") /\ UNCHANGED <<files, job>>
    BY <1>4, <2>2, GotoStep DEF Verify
  <2>3. CASE files' = [files EXCEPT ![job[p].id] = NoFile] /\ Return(p)
    BY <1>4, <2>3, RollbackNew DEF Verify
  <2> QED  BY <1>4, <2>1, <2>2, <2>3 DEF Verify
<1>5. ASSUME NEW p \in Proc, Retire(p) PROVE IInv'
  <2>1. CASE /\ files' = [files EXCEPT ![job[p].prior] = WithStatus(job[p].priorMemory, "superseded")]
             /\ Return(p)
    BY <1>5, <2>1, PriorWrite DEF Retire, Status
  <2>2. CASE Goto(p, "unlink") /\ UNCHANGED <<files, job>>
    BY <1>5, <2>2, GotoStep DEF Retire
  <2> QED  BY <1>5, <2>1, <2>2 DEF Retire
<1>6. ASSUME NEW p \in Proc, Unlink(p) PROVE IInv'
  BY <1>6, RollbackNew DEF Unlink
<1>7. ASSUME NEW p \in Proc, Hide(p) PROVE IInv'
  BY <1>7, HideStep
<1>8. ASSUME NEW p \in Proc, Restore(p) PROVE IInv'
  <2>1. CASE /\ files' = [files EXCEPT ![job[p].prior] = WithStatus(job[p].priorMemory, "active")]
             /\ Return(p)
    BY <1>8, <2>1, PriorWrite DEF Restore, Status
  <2>2. CASE Goto(p, "unhide") /\ UNCHANGED <<files, job>>
    BY <1>8, <2>2, GotoStep DEF Restore
  <2> QED  BY <1>8, <2>1, <2>2 DEF Restore
<1>9. ASSUME NEW p \in Proc, Unhide(p) PROVE IInv'
  BY <1>9, UnhideStep
<1>10. ASSUME NEW p \in Proc, Crash(p) \/ RollbackFails(p) PROVE IInv'
  BY <1>10, EndsUnchanged DEF Crash, RollbackFails
<1>11. CASE UNCHANGED vars
  BY <1>11 DEF vars, IInv, TypeOK, Held, JobsCurrent, LineageClosed, Finite, FileLimit, RoomLeft,
               LearnCurrent, ForgetCurrent, PriorCurrent, Learning, Forgetting, HasStatus
<1> QED
  BY <1>1, <1>2, <1>3, <1>4, <1>5, <1>6, <1>7, <1>8, <1>9, <1>10, <1>11
  DEF CrashNext, Next, Continue

-----------------------------------------------------------------------------

THEOREM Inductive == CrashSpec => []IInv
  BY IInvInit, IInvStep, PTL DEF CrashSpec

\* Type correctness: every file parses as a memory, and every process is at
\* a known step of its operation with a well-formed job.
THEOREM TypeCorrect == CrashSpec => []TypeOK
<1>1. IInv => TypeOK
  BY DEF IInv
<1> QED  BY <1>1, Inductive, PTL

\* Whatever a process copied under the lock is still true when it writes it
\* back, for any number of processes that may die at any step.
THEOREM CopiesCurrent == CrashSpec => []JobsCurrent
<1>1. IInv => JobsCurrent
  BY DEF IInv
<1> QED  BY <1>1, Inductive, PTL

\* The predecessor of every memory stays stored in its scope: no rollback,
\* failed rollback or crash leaves a correction without its history.
THEOREM HistoryClosed == CrashSpec => []LineageClosed
<1>1. IInv => LineageClosed
  BY DEF IInv
<1> QED  BY <1>1, Inductive, PTL

\* The vault never holds more than MAX_MEMORY_FILES memories, although the
\* comparison and the write are separate steps.
THEOREM LimitKept == CrashSpec => []FileLimit
<1>1. IInv => FileLimit
  BY DEF IInv, Finite
<1> QED  BY <1>1, Inductive, PTL

-----------------------------------------------------------------------------
(***************************************************************************)
(* What a step can do to the files.  Every result about single steps and   *)
(* the implementation of MemoryStore start from these six kinds of write.  *)
(***************************************************************************)

\* The new memory, under an id that was free.
Creates(p) ==
    /\ pc[p] = "write" /\ job[p] \in Job
    /\ files[job[p].id] = NoFile
    /\ files' = [files EXCEPT ![job[p].id] = job[p].memory]

\* The new memory is taken back.
Unlinks(p) ==
    /\ pc[p] \in {"verify", "unlink"} /\ job[p] \in Job
    /\ files[job[p].id] = job[p].memory
    /\ files' = [files EXCEPT ![job[p].id] = NoFile]

\* The predecessor, active until now, is superseded by the new memory.
Retires(p) ==
    /\ pc[p] = "retire" /\ job[p] \in Job
    /\ job[p].prior \in Id \ {job[p].id}
    /\ HasStatus(files, job[p].prior, "active")
    /\ files[job[p].id] = job[p].memory
    /\ job[p].memory.status = "active"
    /\ job[p].memory.supersedes = job[p].prior
    /\ files' = [files EXCEPT ![job[p].prior] = WithStatus(files[job[p].prior], "superseded")]

\* A memory is forgotten.
Hides(p) ==
    /\ pc[p] = "hide" /\ job[p] \in Job
    /\ files[job[p].id] = job[p].memory
    /\ job[p].memory.status # "forgotten"
    /\ files' = [files EXCEPT ![job[p].id] = WithStatus(files[job[p].id], "forgotten")]

\* Its predecessor, superseded until now, comes back.
Restores(p) ==
    /\ pc[p] = "restore" /\ job[p] \in Job
    /\ job[p].prior \in Id \ {job[p].id}
    /\ HasStatus(files, job[p].prior, "superseded")
    /\ files' = [files EXCEPT ![job[p].prior] = WithStatus(files[job[p].prior], "active")]

\* Or forgetting is undone: the memory is again as it was.
Unhides(p) ==
    /\ pc[p] = "unhide" /\ job[p] \in Job
    /\ files[job[p].id] = WithStatus(job[p].memory, "forgotten")
    /\ job[p].memory.status = "active"
    /\ files' = [files EXCEPT ![job[p].id] = job[p].memory]

FilesWritten(p) ==
    Creates(p) \/ Unlinks(p) \/ Retires(p) \/ Hides(p) \/ Restores(p) \/ Unhides(p)

LEMMA FilesStep ==
    ASSUME IInv, [CrashNext]_vars
    PROVE  UNCHANGED files \/ \E p \in Proc : FilesWritten(p)
<1>0. ASSUME NEW p \in Proc
      PROVE  /\ LearnCurrent(p) /\ ForgetCurrent(p)
             /\ pc[p] \in {"retire", "unlink", "restore", "unhide"} => job[p].prior # NoId
  BY DEF IInv, JobsCurrent
<1>1. ASSUME NEW p \in Proc, Lock(p) \/ Call(p) PROVE UNCHANGED files
  <2>1. ASSUME NEW i, NEW s, NEW c, Remember(p, i, s, c) PROVE UNCHANGED files
    BY <2>1 DEF Remember, Refuse, Begin
  <2>2. ASSUME NEW s, NEW o, NEW c, NEW k, NEW target, NEW provisional,
               Learn(p, s, o, c, k, target, provisional)
        PROVE  UNCHANGED files
    BY <2>2 DEF Learn, Refuse, Begin
  <2>3. ASSUME NEW i, NEW s, Forget(p, i, s) PROVE UNCHANGED files
    BY <2>3 DEF Forget, Refuse, Begin
  <2> QED  BY <1>1, <2>1, <2>2, <2>3 DEF Lock, Call
<1>2. ASSUME NEW p \in Proc, Write(p) PROVE UNCHANGED files \/ Creates(p)
  BY <1>0, <1>2 DEF Write, Creates, LearnCurrent, Learning
<1>3. ASSUME NEW p \in Proc, Verify(p) \/ Unlink(p) PROVE UNCHANGED files \/ Unlinks(p)
  BY <1>0, <1>3 DEF Verify, Unlink, Unlinks, LearnCurrent, Learning
<1>4. ASSUME NEW p \in Proc, Retire(p) PROVE UNCHANGED files \/ Retires(p)
  BY <1>0, <1>4 DEF Retire, Retires, LearnCurrent, Learning, PriorCurrent, Job
<1>5. ASSUME NEW p \in Proc, Hide(p) PROVE UNCHANGED files \/ Hides(p)
  BY <1>0, <1>5 DEF Hide, Hides, ForgetCurrent, Forgetting
<1>6. ASSUME NEW p \in Proc, Restore(p) PROVE UNCHANGED files \/ Restores(p)
  BY <1>0, <1>6 DEF Restore, Restores, ForgetCurrent, Forgetting, PriorCurrent, Job
<1>7. ASSUME NEW p \in Proc, Unhide(p) PROVE Unhides(p)
  BY <1>0, <1>7 DEF Unhide, Unhides, ForgetCurrent, Forgetting, PriorCurrent, Job
<1>8. ASSUME NEW p \in Proc, Crash(p) \/ RollbackFails(p) PROVE UNCHANGED files
  BY <1>8 DEF Crash, RollbackFails
<1>9. CASE UNCHANGED vars
  BY <1>9 DEF vars
<1> QED
  BY <1>1, <1>2, <1>3, <1>4, <1>5, <1>6, <1>7, <1>8, <1>9
  DEF CrashNext, Next, Continue, FilesWritten

\* One status is written over another, and the old one can be written back.
LEMMA StatusTwice ==
    ASSUME NEW m \in Memory, NEW st \in Status
    PROVE  /\ WithStatus(WithStatus(m, st), m.status) = m
           /\ WithStatus(m, m.status) = m
  BY DEF WithStatus, Memory

LEMMA ForgottenStep ==
    ASSUME IInv, [CrashNext]_vars, NEW i \in Id, HasStatus(files, i, "forgotten")
    PROVE  \/ files'[i] = files[i]
           \/ \E p \in Proc : pc[p] = "unhide" /\ job[p].id = i
<1>1. CASE UNCHANGED files
  BY <1>1
<1>2. ASSUME NEW p \in Proc, FilesWritten(p)
      PROVE  files'[i] = files[i] \/ (pc[p] = "unhide" /\ job[p].id = i)
  <2>1. files \in Files /\ files[i] # NoFile /\ files[i].status = "forgotten"
    BY DEF IInv, TypeOK, HasStatus
  <2>2. CASE Creates(p) \/ Hides(p)
    BY <2>1, <2>2 DEF Creates, Hides, Files, Job
  <2>3. CASE Unlinks(p)
    <3>1. LearnCurrent(p)
      BY DEF IInv, JobsCurrent
    <3>2. job[p].memory.status # "forgotten"
      BY <2>3, <3>1 DEF Unlinks, LearnCurrent, Learning
    <3> QED  BY <2>1, <2>3, <3>2 DEF Unlinks, Files, Job
  <2>4. CASE Retires(p) \/ Restores(p)
    BY <2>1, <2>4 DEF Retires, Restores, Files, Job, HasStatus
  <2>5. CASE Unhides(p)
    BY <2>1, <2>5 DEF Unhides, Files, Job
  <2> QED  BY <1>2, <2>2, <2>3, <2>4, <2>5 DEF FilesWritten
<1> QED  BY <1>1, <1>2, FilesStep

LEMMA HistoryStep ==
    ASSUME IInv, [CrashNext]_vars, NEW i \in Id, files[i] # NoFile, files'[i] # NoFile
    PROVE  files'[i] = WithStatus(files[i], files'[i].status)
<1>0. files \in Files /\ files[i] \in Memory
  BY DEF IInv, TypeOK, Files
<1>1. CASE files'[i] = files[i]
  BY <1>0, <1>1, StatusTwice DEF Memory
<1>2. ASSUME NEW p \in Proc, FilesWritten(p), files'[i] # files[i]
      PROVE  files'[i] = WithStatus(files[i], files'[i].status)
  <2>1. CASE Creates(p) \/ Unlinks(p)
    BY <1>0, <1>2, <2>1 DEF Creates, Unlinks, Files, Job
  <2>2. CASE Retires(p) \/ Hides(p) \/ Restores(p)
    <3>1. PICK st \in Status : files'[i] = WithStatus(files[i], st)
      BY <1>0, <1>2, <2>2 DEF Retires, Hides, Restores, Files, Job, Status
    <3> QED  BY <1>0, <3>1, StatusType
  <2>3. CASE Unhides(p)
    <3>1. /\ files[i] = WithStatus(job[p].memory, "forgotten")
          /\ files'[i] = job[p].memory /\ job[p].memory \in Memory
      BY <1>0, <1>2, <2>3 DEF Unhides, Files, Job
    <3> QED  BY <3>1, StatusTwice DEF Status
  <2> QED  BY <1>2, <2>1, <2>2, <2>3 DEF FilesWritten
<1> QED  BY <1>1, <1>2, FilesStep

LEMMA ActiveStep ==
    ASSUME IInv, [CrashNext]_vars, NEW i \in Id, HasStatus(files, i, "active")
    PROVE  \/ files'[i] # NoFile /\ files'[i].status \in {"active", "forgotten"}
           \/ files'[i] = NoFile /\ \E p \in Proc : job[p] # NoJob /\ job[p].id = i
           \/ \E j \in Id : HasStatus(files', j, "active") /\ files'[j].supersedes = i
<1>0. files \in Files /\ files[i] \in Memory /\ files[i] # NoFile /\ files[i].status = "active"
  BY DEF IInv, TypeOK, Files, HasStatus
<1>1. CASE files'[i] = files[i]
  BY <1>0, <1>1
<1>2. ASSUME NEW p \in Proc, FilesWritten(p), files'[i] # files[i]
      PROVE  \/ files'[i] # NoFile /\ files'[i].status \in {"active", "forgotten"}
             \/ files'[i] = NoFile /\ job[p] # NoJob /\ job[p].id = i
             \/ \E j \in Id : HasStatus(files', j, "active") /\ files'[j].supersedes = i
  <2>1. CASE Creates(p) \/ Restores(p) \/ Unhides(p)
    <3>1. WithStatus(job[p].memory, "forgotten").status # "active"
      BY <2>1, StatusType DEF Creates, Restores, Unhides, Job, Status
    <3> QED  BY <1>0, <1>2, <2>1, <3>1 DEF Creates, Restores, Unhides, Files, Job, HasStatus
  <2>2. CASE Unlinks(p)
    BY <1>0, <1>2, <2>2, DistinctJob DEF Unlinks, Files, Job
  <2>3. CASE Hides(p)
    <3>1. files'[i] = WithStatus(files[i], "forgotten")
      BY <1>0, <1>2, <2>3 DEF Hides, Files, Job
    <3> QED  BY <1>0, <3>1, StatusType, DistinctNames DEF Status
  <2>4. CASE Retires(p)
    <3>1. job[p].prior = i /\ job[p].id \in Id \ {i} /\ files'[job[p].id] = job[p].memory
      BY <1>0, <1>2, <2>4 DEF Retires, Files, Job
    <3>2. job[p].memory # NoFile
      BY <2>4, DistinctNames DEF Retires, Job
    <3> QED  BY <2>4, <3>1, <3>2 DEF Retires, HasStatus
  <2> QED  BY <1>2, <2>1, <2>2, <2>3, <2>4 DEF FilesWritten
<1> QED  BY <1>1, <1>2, FilesStep

LEMMA ProvisionalStep ==
    ASSUME IInv, [CrashNext]_vars, NEW i \in Id, HasStatus(files, i, "provisional"),
           files'[i] # NoFile
    PROVE  files'[i].status \in {"provisional", "forgotten"}
<1>0. files \in Files /\ files[i] \in Memory /\ files[i] # NoFile /\ files[i].status = "provisional"
  BY DEF IInv, TypeOK, Files, HasStatus
<1>1. CASE files'[i] = files[i]
  BY <1>0, <1>1
<1>2. ASSUME NEW p \in Proc, FilesWritten(p), files'[i] # files[i]
      PROVE  files'[i].status \in {"provisional", "forgotten"}
  <2>1. CASE Creates(p) \/ Unlinks(p) \/ Retires(p) \/ Restores(p) \/ Unhides(p)
    <3>1. WithStatus(job[p].memory, "forgotten").status = "forgotten"
      BY <2>1, StatusType DEF Creates, Unlinks, Retires, Restores, Unhides, Job, Status
    <3> QED  BY <1>0, <1>2, <2>1, <3>1
             DEF Creates, Unlinks, Retires, Restores, Unhides, Files, Job, HasStatus
  <2>2. CASE Hides(p)
    <3>1. files'[i] = WithStatus(files[i], "forgotten")
      BY <1>0, <1>2, <2>2 DEF Hides, Files, Job
    <3> QED  BY <1>0, <3>1, StatusType DEF Status
  <2> QED  BY <1>2, <2>1, <2>2 DEF FilesWritten
<1> QED  BY <1>1, <1>2, FilesStep

\* Forgetting is final for every interleaving and crash: only the forget that
\* is undoing itself brings a forgotten memory back.
THEOREM ForgettingIsFinal == CrashSpec => ForgottenIsFinal
<1>1. IInv /\ [CrashNext]_vars =>
         [\A i \in Id : HasStatus(files, i, "forgotten") =>
             \/ files'[i] = files[i]
             \/ \E p \in Proc : pc[p] = "unhide" /\ job[p].id = i]_vars
  BY ForgottenStep
<1> QED  BY <1>1, Inductive, PTL DEF CrashSpec, ForgottenIsFinal

\* No process writes back a stale copy: a stored memory changes its status only.
THEOREM ContentKept == CrashSpec => HistoryKept
<1>1. IInv /\ [CrashNext]_vars =>
         [\A i \in Id : files[i] # NoFile /\ files'[i] # NoFile =>
             files'[i] = WithStatus(files[i], files'[i].status)]_vars
  BY HistoryStep
<1> QED  BY <1>1, Inductive, PTL DEF CrashSpec, HistoryKept

\* An active statement leaves recall only forgotten, taken back by the learn
\* that was making it, or replaced by an active one that names it.
THEOREM StatementsKept == CrashSpec => NeverLost
<1>1. IInv /\ [CrashNext]_vars =>
         [\A i \in Id : HasStatus(files, i, "active") =>
             \/ files'[i] # NoFile /\ files'[i].status \in {"active", "forgotten"}
             \/ files'[i] = NoFile /\ \E p \in Proc : job[p] # NoJob /\ job[p].id = i
             \/ \E j \in Id : HasStatus(files', j, "active") /\ files'[j].supersedes = i]_vars
  BY ActiveStep
<1> QED  BY <1>1, Inductive, PTL DEF CrashSpec, NeverLost

\* No step turns a provisional memory into one in force.
THEOREM InferencesStayOut == CrashSpec => ProvisionalStaysOut
<1>1. IInv /\ [CrashNext]_vars =>
         [\A i \in Id : HasStatus(files, i, "provisional") /\ files'[i] # NoFile =>
             files'[i].status \in {"provisional", "forgotten"}]_vars
  BY ProvisionalStep
<1> QED  BY <1>1, Inductive, PTL DEF CrashSpec, ProvisionalStaysOut

-----------------------------------------------------------------------------
(***************************************************************************)
(* What remember, learn and forget keep true of the chains of corrections, *)
(* as facts about the files before (f) and after (g) one of them.          *)
(***************************************************************************)

\* An inference replaces nothing.
InferencesAlone(f) ==
    \A i \in Stored(f) : f[i].status = "provisional" => f[i].supersedes = NoId

Sound(f) ==
    /\ LineageClosedIn(f)
    /\ LineageLinearIn(f)
    /\ SupersededHasHeirIn(f)
    /\ InferencesAlone(f)
    /\ KeyLocalIn(f) => OneActivePerKeyIn(f)

\* g is f with one new memory and what it replaced superseded.
Learned(f, g, id) ==
    LET prior == g[id].supersedes IN
    /\ id \in Id /\ f[id] = NoFile /\ g[id] \in Memory
    /\ g[id].status \in {"active", "provisional"}
    /\ g[id].status = "provisional" => prior = NoId
    /\ prior # NoId => /\ HasStatus(f, prior, "active")
                       /\ f[prior].scope = g[id].scope
                       /\ g[prior] = WithStatus(f[prior], "superseded")
    /\ prior = NoId /\ g[id].status = "active" /\ g[id].key # NoKey
           => Current(f, g[id].scope, g[id].key) = {}
    /\ \A i \in Id \ {id, prior} : g[i] = f[i]

\* g is f with one memory forgotten and what it had replaced restored.
Forgot(f, g, x) ==
    LET r == Restorable(f, x) IN
    /\ x \in Stored(f) /\ f[x].status # "forgotten"
    /\ g[x] = WithStatus(f[x], "forgotten")
    /\ r # NoId => g[r] = WithStatus(f[r], "active")
    /\ \A i \in Id \ {x, r} : g[i] = f[i]

\* How the fields of the memories change when one is learned.
LEMMA LearnedFields ==
    ASSUME NEW f \in Files, NEW g \in Files, NEW id, Learned(f, g, id)
    PROVE  /\ Stored(g) = Stored(f) \cup {id} /\ id \notin Stored(f)
           /\ g[id].supersedes # id
           /\ \A i \in Stored(f) :
                 /\ i \in Id /\ f[i] \in Memory
                 /\ g[i].scope = f[i].scope /\ g[i].key = f[i].key
                 /\ g[i].supersedes = f[i].supersedes
                 /\ g[i].status = IF i = g[id].supersedes THEN "superseded" ELSE f[i].status
<1> DEFINE prior == g[id].supersedes
<1>1. /\ id \in Id /\ f[id] = NoFile /\ g[id] \in Memory
      /\ prior # NoId => prior \in Stored(f) /\ g[prior] = WithStatus(f[prior], "superseded")
      /\ prior # id
      /\ \A i \in Id \ {id, prior} : g[i] = f[i]
  BY DistinctNames DEF Learned, Stored, HasStatus, Memory
<1>2. \A i \in Stored(f) : i \in Id /\ f[i] \in Memory /\ f[i] # NoFile
  BY DEF Stored, Files
<1>3. prior # NoId => /\ g[prior] \in Memory /\ g[prior].scope = f[prior].scope
                      /\ g[prior].key = f[prior].key
                      /\ g[prior].supersedes = f[prior].supersedes
                      /\ g[prior].status = "superseded"
  BY <1>1, <1>2 DEF WithStatus, Memory, Status
<1>4. prior # NoId \/ prior \notin Id
  BY DistinctNames
<1> HIDE DEF prior
<1>5. Stored(g) = Stored(f) \cup {id} /\ id \notin Stored(f)
  BY <1>1, <1>2, <1>3, <1>4, DistinctNames DEF Stored
<1>6. ASSUME NEW i \in Stored(f)
      PROVE  /\ i \in Id /\ f[i] \in Memory
             /\ g[i].scope = f[i].scope /\ g[i].key = f[i].key
             /\ g[i].supersedes = f[i].supersedes
             /\ g[i].status = IF i = prior THEN "superseded" ELSE f[i].status
  BY <1>1, <1>2, <1>3, <1>4, <1>5
<1> QED  BY <1>1, <1>5, <1>6 DEF prior

\* And when one is forgotten.
LEMMA ForgotFields ==
    ASSUME NEW f \in Files, NEW g \in Files, NEW x, Forgot(f, g, x)
    PROVE  LET r == Restorable(f, x) IN
           /\ Stored(g) = Stored(f) /\ x \in Stored(f)
           /\ r # NoId => /\ r \in Stored(f) \ {x} /\ f[r].status = "superseded"
                          /\ f[x].status = "active" /\ f[x].supersedes = r
                          /\ f[r].scope = f[x].scope
           /\ \A i \in Stored(f) :
                 /\ i \in Id /\ f[i] \in Memory
                 /\ g[i].scope = f[i].scope /\ g[i].key = f[i].key
                 /\ g[i].supersedes = f[i].supersedes
                 /\ g[i].status = IF i = x THEN "forgotten"
                                  ELSE IF i = r THEN "active" ELSE f[i].status
<1> DEFINE r == Restorable(f, x)
<1>1. /\ x \in Stored(f) /\ g[x] = WithStatus(f[x], "forgotten")
      /\ r # NoId => g[r] = WithStatus(f[r], "active")
      /\ \A i \in Id \ {x, r} : g[i] = f[i]
  BY DEF Forgot
<1>2. \A i \in Stored(f) : i \in Id /\ f[i] \in Memory /\ f[i] # NoFile
  BY DEF Stored, Files
<1>3. r # NoId => /\ r \in Stored(f) \ {x} /\ f[r].status = "superseded"
                  /\ f[x].status = "active" /\ f[x].supersedes = r
                  /\ f[r].scope = f[x].scope
  BY <1>1, <1>2 DEF Restorable, HasStatus, Stored, Memory
<1> HIDE DEF r
<1>4. /\ g[x] \in Memory /\ g[x].scope = f[x].scope /\ g[x].key = f[x].key
      /\ g[x].supersedes = f[x].supersedes /\ g[x].status = "forgotten"
  BY <1>1, <1>2 DEF WithStatus, Memory, Status
<1>5. r # NoId => /\ g[r] \in Memory /\ g[r].scope = f[r].scope /\ g[r].key = f[r].key
                  /\ g[r].supersedes = f[r].supersedes /\ g[r].status = "active"
  BY <1>1, <1>2, <1>3 DEF WithStatus, Memory, Status
<1>6. r # NoId \/ r \notin Id
  BY DistinctNames
<1>7. Stored(g) = Stored(f)
  BY <1>1, <1>2, <1>3, <1>4, <1>5, <1>6, DistinctNames DEF Stored
<1>8. ASSUME NEW i \in Stored(f)
      PROVE  /\ i \in Id /\ f[i] \in Memory
             /\ g[i].scope = f[i].scope /\ g[i].key = f[i].key
             /\ g[i].supersedes = f[i].supersedes
             /\ g[i].status = IF i = x THEN "forgotten"
                              ELSE IF i = r THEN "active" ELSE f[i].status
  BY <1>1, <1>2, <1>3, <1>4, <1>5, <1>6
<1> QED  BY <1>1, <1>3, <1>7, <1>8 DEF r

\* Learning keeps the chains sound.
LEMMA LearnSound ==
    ASSUME NEW f \in Files, NEW g \in Files, Sound(f), NEW id, Learned(f, g, id)
    PROVE  Sound(g)
<1> DEFINE prior == g[id].supersedes
<1>1. /\ Stored(g) = Stored(f) \cup {id} /\ id \notin Stored(f) /\ prior # id
      /\ \A i \in Stored(f) :
            /\ i \in Id /\ f[i] \in Memory
            /\ g[i].scope = f[i].scope /\ g[i].key = f[i].key
            /\ g[i].supersedes = f[i].supersedes
            /\ g[i].status = IF i = prior THEN "superseded" ELSE f[i].status
  BY LearnedFields
<1>2. /\ g[id].status \in {"active", "provisional"}
      /\ g[id].status = "provisional" => prior = NoId
      /\ prior # NoId => prior \in Stored(f) /\ f[prior].status = "active"
                         /\ f[prior].scope = g[id].scope
      /\ prior = NoId /\ g[id].status = "active" /\ g[id].key # NoKey
            => Current(f, g[id].scope, g[id].key) = {}
  BY DistinctNames DEF Learned, Stored, HasStatus, Memory
<1>3. NoId \notin Stored(g) /\ g[id].supersedes = prior
  BY DistinctNames DEF Stored
<1>4. \A i \in Stored(f) : f[i].supersedes # id
  BY <1>1, <1>3 DEF Sound, LineageClosedIn
<1> HIDE DEF prior
<1>5. LineageClosedIn(g)
  BY <1>1, <1>2, <1>3 DEF Sound, LineageClosedIn
<1>6. LineageLinearIn(g)
  <2> SUFFICES ASSUME NEW i \in Stored(g), g[i].status # "forgotten", g[i].supersedes # NoId
               PROVE  /\ g[g[i].supersedes].status \in {"superseded", "forgotten"}
                      /\ \A j \in Stored(g) \ {i} :
                            g[j].supersedes = g[i].supersedes => g[j].status = "forgotten"
    BY DEF LineageLinearIn
  <2>1. \A j \in Stored(f) : f[j].supersedes = prior /\ prior # NoId => f[j].status = "forgotten"
    BY <1>2 DEF Sound, LineageLinearIn
  <2>2. CASE i = id
    BY <1>1, <1>2, <1>3, <2>1, <2>2
  <2>3. CASE i # id
    <3>1. i \in Stored(f) /\ f[i].supersedes # prior
      BY <1>1, <1>2, <2>1, <2>3
    <3>2. f[i].status # "forgotten" /\ f[i].supersedes \in Stored(f)
      BY <1>1, <1>2, <1>3, <3>1 DEF Sound, LineageClosedIn
    <3>3. /\ f[f[i].supersedes].status \in {"superseded", "forgotten"}
          /\ \A j \in Stored(f) \ {i} :
                f[j].supersedes = f[i].supersedes => f[j].status = "forgotten"
      BY <1>1, <3>1, <3>2 DEF Sound, LineageLinearIn
    <3> QED  BY <1>1, <1>2, <1>3, <3>1, <3>2, <3>3
  <2> QED  BY <2>2, <2>3
<1>7. SupersededHasHeirIn(g)
  <2> SUFFICES ASSUME NEW q \in Stored(g), g[q].status = "superseded"
               PROVE  \E i \in Stored(g) :
                         /\ g[i].supersedes = q
                         /\ g[i].status # "forgotten" \/ \E j \in Stored(g) : g[j].supersedes = i
    BY DEF SupersededHasHeirIn
  <2>1. CASE q = prior
    <3>1. id \in Stored(g) /\ g[id].supersedes = q /\ g[id].status # "forgotten"
      BY <1>1, <1>2, <1>3, <2>1
    <3> QED  BY <3>1
  <2>2. CASE q # prior
    <3>1. q \in Stored(f) /\ f[q].status = "superseded"
      BY <1>1, <1>2, <2>2
    <3>2. PICK i \in Stored(f) :
             /\ f[i].supersedes = q
             /\ f[i].status # "forgotten" \/ \E j \in Stored(f) : f[j].supersedes = i
      BY <3>1 DEF Sound, SupersededHasHeirIn
    <3>3. i \in Stored(g) /\ g[i].supersedes = q
      BY <1>1, <3>2
    <3>4. CASE f[i].status # "forgotten"
      <4>1. g[i].status # "forgotten"
        BY <1>1, <3>4
      <4> QED  BY <3>3, <4>1
    <3>5. CASE \E j \in Stored(f) : f[j].supersedes = i
      <4>1. \E j \in Stored(g) : g[j].supersedes = i
        BY <1>1, <3>5
      <4> QED  BY <3>3, <4>1
    <3> QED  BY <3>2, <3>4, <3>5
  <2> QED  BY <2>1, <2>2
<1>8. InferencesAlone(g)
  BY <1>1, <1>2, <1>3 DEF Sound, InferencesAlone
<1>9. ASSUME KeyLocalIn(g) PROVE OneActivePerKeyIn(g)
  <2>1. KeyLocalIn(f)
    <3> SUFFICES ASSUME NEW i \in Stored(f), f[i].supersedes # NoId
                 PROVE  f[f[i].supersedes].key = f[i].key
      BY DEF KeyLocalIn
    <3>1. f[i].supersedes \in Stored(f)
      BY DEF Sound, LineageClosedIn
    <3>2. g[g[i].supersedes].key = g[i].key
      BY <1>1, <1>9 DEF KeyLocalIn
    <3> QED  BY <1>1, <3>1, <3>2
  <2>2. prior # NoId => f[prior].key = g[id].key
    BY <1>1, <1>2, <1>3, <1>9 DEF KeyLocalIn
  <2> SUFFICES ASSUME NEW s \in Scope, NEW k \in Key,
                      NEW i \in Current(g, s, k), NEW j \in Current(g, s, k)
               PROVE  i = j
    BY DEF OneActivePerKeyIn
  <2>3. \A n \in Current(g, s, k) \ {id} : n \in Current(f, s, k) /\ n # prior
    BY <1>1, <1>2 DEF Current
  <2>4. \A m, n \in Current(f, s, k) : m = n
    BY <2>1 DEF Sound, OneActivePerKeyIn
  <2>5. ASSUME id \in Current(g, s, k) PROVE Current(g, s, k) \ {id} = {}
    <3>1. g[id].scope = s /\ g[id].key = k /\ g[id].status = "active" /\ k # NoKey
      BY <2>5, DistinctNames DEF Current
    <3>2. CASE prior = NoId
      BY <1>2, <2>3, <3>1, <3>2
    <3>3. CASE prior # NoId
      <4>1. prior \in Current(f, s, k)
        BY <1>2, <2>2, <3>1, <3>3 DEF Current
      <4> QED  BY <2>3, <2>4, <4>1
    <3> QED  BY <3>2, <3>3
  <2> QED  BY <2>3, <2>4, <2>5
<1> QED  BY <1>5, <1>6, <1>7, <1>8, <1>9 DEF Sound

\* So does forgetting.
LEMMA ForgetSound ==
    ASSUME NEW f \in Files, NEW g \in Files, Sound(f), NEW x, Forgot(f, g, x)
    PROVE  Sound(g)
<1> DEFINE r == Restorable(f, x)
<1>1. /\ Stored(g) = Stored(f) /\ x \in Stored(f)
      /\ r # NoId => /\ r \in Stored(f) \ {x} /\ f[r].status = "superseded"
                     /\ f[x].status = "active" /\ f[x].supersedes = r
                     /\ f[r].scope = f[x].scope
      /\ \A i \in Stored(f) :
            /\ i \in Id /\ f[i] \in Memory
            /\ g[i].scope = f[i].scope /\ g[i].key = f[i].key
            /\ g[i].supersedes = f[i].supersedes
            /\ g[i].status = IF i = x THEN "forgotten"
                             ELSE IF i = r THEN "active" ELSE f[i].status
  BY ForgotFields
<1>2. NoId \notin Stored(f) /\ f[x].status # "forgotten"
  BY DistinctNames DEF Stored, Forgot
<1>3. f[x].status = "active" /\ f[x].supersedes # NoId
      /\ HasStatus(f, f[x].supersedes, "superseded") => r = f[x].supersedes
  BY DEF Restorable, Sound, LineageClosedIn, Forgot
<1> HIDE DEF r
<1>4. LineageClosedIn(g)
  BY <1>1 DEF Sound, LineageClosedIn
<1>5. LineageLinearIn(g)
  <2> SUFFICES ASSUME NEW i \in Stored(f), g[i].status # "forgotten", f[i].supersedes # NoId
               PROVE  /\ g[f[i].supersedes].status \in {"superseded", "forgotten"}
                      /\ \A j \in Stored(f) \ {i} :
                            f[j].supersedes = f[i].supersedes => g[j].status = "forgotten"
    BY <1>1 DEF LineageLinearIn
  <2>1. i # x /\ f[i].status # "forgotten" /\ f[i].supersedes \in Stored(f)
    BY <1>1, <1>2 DEF Sound, LineageClosedIn
  <2>2. /\ f[f[i].supersedes].status \in {"superseded", "forgotten"}
        /\ \A j \in Stored(f) \ {i} :
              f[j].supersedes = f[i].supersedes => f[j].status = "forgotten"
    BY <1>1, <2>1 DEF Sound, LineageLinearIn
  <2>3. f[i].supersedes # r
    BY <1>1, <1>2, <2>1, <2>2
  <2> QED  BY <1>1, <1>2, <2>1, <2>2, <2>3
<1>6. SupersededHasHeirIn(g)
  <2> SUFFICES ASSUME NEW q \in Stored(f), g[q].status = "superseded"
               PROVE  \E i \in Stored(f) :
                         /\ f[i].supersedes = q
                         /\ g[i].status # "forgotten" \/ \E j \in Stored(f) : f[j].supersedes = i
    BY <1>1 DEF SupersededHasHeirIn
  <2>1. f[q].status = "superseded" /\ q # r /\ q # x
    BY <1>1
  <2>2. PICK i \in Stored(f) :
           /\ f[i].supersedes = q
           /\ f[i].status # "forgotten" \/ \E j \in Stored(f) : f[j].supersedes = i
    BY <2>1 DEF Sound, SupersededHasHeirIn
  <2>3. CASE i # x
    <3>1. f[i].status # "forgotten" => g[i].status # "forgotten"
      BY <1>1, <2>3
    <3> QED  BY <2>2, <3>1
  <2>4. CASE i = x
    <3>1. q # NoId /\ HasStatus(f, q, "superseded")
      BY <1>2, <2>1, DistinctNames DEF HasStatus, Stored
    <3>2. f[x].status # "active"
      BY <1>3, <2>1, <2>2, <2>4, <3>1
    <3>3. f[x].status # "provisional"
      BY <2>2, <2>4, <3>1 DEF Sound, InferencesAlone
    <3>4. f[x].status = "superseded"
      BY <1>1, <1>2, <3>2, <3>3 DEF Memory, Status
    <3>5. \E j \in Stored(f) : f[j].supersedes = x
      BY <1>1, <3>4 DEF Sound, SupersededHasHeirIn
    <3> QED  BY <2>2, <2>4, <3>5
  <2> QED  BY <2>3, <2>4
<1>7. InferencesAlone(g)
  BY <1>1 DEF Sound, InferencesAlone
<1>8. ASSUME KeyLocalIn(g) PROVE OneActivePerKeyIn(g)
  <2>1. KeyLocalIn(f)
    <3> SUFFICES ASSUME NEW i \in Stored(f), f[i].supersedes # NoId
                 PROVE  f[f[i].supersedes].key = f[i].key
      BY DEF KeyLocalIn
    <3>1. f[i].supersedes \in Stored(f)
      BY DEF Sound, LineageClosedIn
    <3>2. g[g[i].supersedes].key = g[i].key
      BY <1>1, <1>8 DEF KeyLocalIn
    <3> QED  BY <1>1, <3>1, <3>2
  <2>2. r # NoId => f[r].key = f[x].key
    BY <1>1, <2>1 DEF KeyLocalIn
  <2> SUFFICES ASSUME NEW s \in Scope, NEW k \in Key,
                      NEW i \in Current(g, s, k), NEW j \in Current(g, s, k)
               PROVE  i = j
    BY DEF OneActivePerKeyIn
  <2>3. \A n \in Current(g, s, k) : n = r \/ n \in Current(f, s, k) \ {x}
    BY <1>1 DEF Current
  <2>4. \A m, n \in Current(f, s, k) : m = n
    BY <2>1 DEF Sound, OneActivePerKeyIn
  <2>5. r \in Current(g, s, k) => x \in Current(f, s, k)
    BY <1>1, <1>2, <2>2 DEF Current
  <2> QED  BY <2>3, <2>4, <2>5
<1> QED  BY <1>4, <1>5, <1>6, <1>7, <1>8 DEF Sound

-----------------------------------------------------------------------------
(***************************************************************************)
(* Why remember, learn and forget are atomic: what a process decided under *)
(* the lock is still the right decision when its last write takes effect,  *)
(* because the committed files have not changed since.                     *)
(***************************************************************************)

\* m may be stored under id in f: there is room, and it is not a duplicate
\* and replaces what learn would choose.
Fits(f, id, m) ==
    /\ ~Full(f)
    /\ \/ id \in Uuid /\ m.key = NoKey /\ m.status = "active" /\ m.supersedes = NoId
       \/ \E o \in Occurrence :
             /\ id = <<m.scope, o>>
             /\ ~Duplicate(f, id, m.scope, m.key, m.content, m.status = "provisional")
             /\ m.supersedes = NoId /\ m.status = "active" /\ m.key # NoKey
                   => Current(f, m.scope, m.key) = {}

Planned ==
    \A p \in Proc :
        /\ pc[p] \in Learning => Fits(Committed, job[p].id, job[p].memory)
        /\ pc[p] \in Forgetting => job[p].prior = Restorable(Committed, job[p].id)

\* The committed files while a process is at a step with the memory id.
View(f, step, id) ==
    [i \in Id |-> IF step \in {"verify", "retire", "unlink"} /\ id = i THEN NoFile
                  ELSE IF step \in {"restore", "unhide"} /\ id = i
                       THEN WithStatus(f[i], "active")
                  ELSE f[i]]

LEMMA CommittedView ==
    ASSUME NEW p \in Proc, \A q \in Proc \ {p} : pc[q] = "idle" /\ pc'[q] = "idle"
    PROVE  /\ Committed = View(files, pc[p], job[p].id)
           /\ Committed' = View(files', pc'[p], job'[p].id)
<1>1. \A i \in Id : /\ Creating(i) <=> pc[p] \in {"verify", "retire", "unlink"} /\ job[p].id = i
                    /\ Hiding(i) <=> pc[p] \in {"restore", "unhide"} /\ job[p].id = i
  BY DEF Creating, Hiding
<1>2. \A i \in Id : /\ Creating(i)' <=> pc'[p] \in {"verify", "retire", "unlink"} /\ job'[p].id = i
                    /\ Hiding(i)' <=> pc'[p] \in {"restore", "unhide"} /\ job'[p].id = i
  BY DEF Creating, Hiding
<1>3. Committed = View(files, pc[p], job[p].id)
  BY <1>1 DEF Committed, View
<1>4. Committed' = View(files', pc'[p], job'[p].id)
  BY <1>2 DEF Committed, View
<1> QED  BY <1>3, <1>4

LEMMA ViewPlain ==
    ASSUME NEW f \in Files, NEW step \in {"idle", "locked", "write", "hide"}, NEW id
    PROVE  View(f, step, id) = f
  BY DEF View, Files

LEMMA ViewCreating ==
    ASSUME NEW f \in Files, NEW step \in {"verify", "retire", "unlink"}, NEW id
    PROVE  View(f, step, id) = [f EXCEPT ![id] = NoFile]
  BY DEF View, Files

LEMMA ViewHiding ==
    ASSUME NEW f \in Files, NEW step \in {"restore", "unhide"}, NEW id
    PROVE  View(f, step, id) = [f EXCEPT ![id] = WithStatus(f[id], "active")]
  BY DEF View, Files

\* What is committed while the holder of the lock is at each step.
LEMMA CommittedNow ==
    ASSUME IInv, NEW p \in Proc, pc[p] # "idle"
    PROVE  /\ Committed \in Files
           /\ pc[p] \in {"locked", "write", "hide"} => Committed = files
           /\ pc[p] \in {"verify", "retire", "unlink"} =>
                 Committed = [files EXCEPT ![job[p].id] = NoFile]
           /\ pc[p] \in {"restore", "unhide"} =>
                 /\ Committed = [files EXCEPT ![job[p].id] = job[p].memory]
                 /\ job[p].memory.status = "active"
<1>1. files \in Files /\ \A q \in Proc \ {p} : pc[q] = "idle"
  BY OthersIdle DEF IInv, TypeOK
<1>2. Committed = View(files, pc[p], job[p].id)
  <2>1. \A i \in Id : /\ Creating(i) <=> pc[p] \in {"verify", "retire", "unlink"} /\ job[p].id = i
                      /\ Hiding(i) <=> pc[p] \in {"restore", "unhide"} /\ job[p].id = i
    BY <1>1 DEF Creating, Hiding
  <2> QED  BY <2>1 DEF Committed, View
<1>3. CASE pc[p] \in {"locked", "write", "hide"}
  BY <1>1, <1>2, <1>3, ViewPlain
<1>4. CASE pc[p] \in {"verify", "retire", "unlink"}
  <2>1. Committed = [files EXCEPT ![job[p].id] = NoFile]
    BY <1>1, <1>2, <1>4, ViewCreating
  <2>2. Committed \in Files
    BY <1>1, <2>1 DEF Files
  <2> QED  BY <1>4, <2>1, <2>2
<1>5. CASE pc[p] \in {"restore", "unhide"}
  <2>1. /\ job[p] \in Job /\ job[p].memory.status = "active"
        /\ files[job[p].id] = WithStatus(job[p].memory, "forgotten")
    BY <1>5 DEF IInv, JobsCurrent, ForgetCurrent, Forgetting, PriorCurrent
  <2>2. job[p].memory \in Memory /\ job[p].id \in Id
    BY <2>1 DEF Job
  <2>3. WithStatus(files[job[p].id], "active") = job[p].memory
    BY <2>1, <2>2, StatusTwice DEF Status
  <2>4. Committed = [files EXCEPT ![job[p].id] = job[p].memory]
    <3>1. View(files, pc[p], job[p].id) =
             [files EXCEPT ![job[p].id] = WithStatus(files[job[p].id], "active")]
      BY <1>1, <1>5, ViewHiding
    <3> QED  BY <1>2, <2>3, <3>1
  <2>5. Committed \in Files
    BY <1>1, <2>2, <2>4 DEF Files
  <2> QED  BY <1>5, <2>1, <2>4, <2>5
<1>6. pc[p] \in Step
  BY DEF IInv, TypeOK
<1> QED  BY <1>3, <1>4, <1>5, <1>6 DEF Step

-----------------------------------------------------------------------------

\* A learn, or a forget, takes effect.
LearnCommits(p) ==
    /\ Committed' \in Files
    /\ Learned(Committed, Committed', job[p].id)
    /\ Fits(Committed, job[p].id, Committed'[job[p].id])

ForgetCommits(p) ==
    /\ Committed' \in Files
    /\ Forgot(Committed, Committed', job[p].id)

\* Nothing is planned when an operation has ended.
LEMMA PlannedEnds ==
    ASSUME IInv, NEW p \in Proc, pc[p] # "idle", Return(p)
    PROVE  Planned' /\ (files' \in Files => Committed' = files')
<1>1. \A q \in Proc : pc'[q] = "idle"
  BY OthersIdle DEF Return, IInv, TypeOK
<1>2. Planned'
  BY <1>1 DEF Planned, Learning, Forgetting
<1>3. ASSUME files' \in Files PROVE Committed' = files'
  <2>1. \A i \in Id : ~Creating(i)' /\ ~Hiding(i)'
    BY <1>1 DEF Creating, Hiding
  <2>2. Committed' = [i \in Id |-> files'[i]]
    BY <2>1 DEF Committed
  <2> QED  BY <1>3, <2>2 DEF Files
<1> QED  BY <1>2, <1>3

\* A plan stays right while what is committed stays the same.
LEMMA PlannedStays ==
    ASSUME IInv, Planned, NEW p \in Proc, NEW step \in Step,
           \/ pc[p] \in Learning /\ step \in Learning
           \/ pc[p] \in Forgetting /\ step \in Forgetting,
           Goto(p, step), job' = job, Committed' = Committed
    PROVE  Planned'
<1>1. \A q \in Proc : pc'[q] = IF q = p THEN step ELSE "idle"
  BY OthersIdle DEF Goto, IInv, TypeOK, Learning, Forgetting
<1>2. /\ pc[p] \in Learning => Fits(Committed, job[p].id, job[p].memory)
      /\ pc[p] \in Forgetting => job[p].prior = Restorable(Committed, job[p].id)
  BY DEF Planned
<1>3. Learning \cap Forgetting = {} /\ "idle" \notin Learning \cup Forgetting
  BY DEF Learning, Forgetting
<1> QED  BY <1>1, <1>2, <1>3 DEF Planned

\* A call that has just decided commits nothing, and its plan is right.
LEMMA PlannedBegin ==
    ASSUME IInv, NEW p \in Proc, NEW step \in {"write", "hide"}, NEW id \in Id, NEW m, NEW prior,
           Begin(p, step, id, m, prior),
           step = "write" => Fits(files, id, m),
           step = "hide" => prior = Restorable(files, id)
    PROVE  Planned' /\ Committed' = Committed
<1>1. \A q \in Proc : pc'[q] = IF q = p THEN step ELSE "idle"
  BY OthersIdle DEF Begin, Goto, IInv, TypeOK
<1>2. job'[p].id = id /\ job'[p].memory = m /\ job'[p].prior = prior /\ files' = files
  BY DEF Begin, IInv, TypeOK
<1>3. Committed = files
  BY CommittedNow DEF Begin
<1>4. \A i \in Id : ~Creating(i)' /\ ~Hiding(i)'
  BY <1>1 DEF Creating, Hiding
<1>5. Committed' = files
  <2>1. Committed' = [i \in Id |-> files'[i]]
    BY <1>4 DEF Committed
  <2> QED  BY <1>2, <2>1 DEF IInv, TypeOK, Files
<1>6. Planned'
  BY <1>1, <1>2, <1>5 DEF Planned, Learning, Forgetting
<1> QED  BY <1>3, <1>5, <1>6

\* What a call decides from the files fits the files.
LEMMA LearnFits ==
    ASSUME NEW f \in Files, NEW s \in Scope, NEW o \in Occurrence, NEW c \in Content,
           NEW k \in Key \cup {NoKey}, NEW target \in Id \cup {NoId}, NEW provisional \in BOOLEAN,
           ~Duplicate(f, <<s, o>>, s, k, c, provisional), ~Full(f),
           NEW prior \in Priors(f, s, k, target, provisional)
    PROVE  Fits(f, <<s, o>>,
                [scope |-> s, key |-> k, content |-> c,
                 status |-> IF provisional THEN "provisional" ELSE "active",
                 supersedes |-> prior])
<1> DEFINE m == [scope |-> s, key |-> k, content |-> c,
                 status |-> IF provisional THEN "provisional" ELSE "active",
                 supersedes |-> prior]
<1>1. /\ m.scope = s /\ m.key = k /\ m.content = c /\ m.supersedes = prior
      /\ m.status = IF provisional THEN "provisional" ELSE "active"
  OBVIOUS
<1>2. ~Duplicate(f, <<s, o>>, s, k, c, m.status = "provisional")
  <2>1. CASE provisional
    BY <1>1, <2>1 DEF Duplicate
  <2>2. CASE ~provisional
    BY <1>1, <2>2 DEF Duplicate
  <2> QED  BY <2>1, <2>2
<1>3. prior = NoId /\ ~provisional /\ k # NoKey => Current(f, s, k) = {}
  BY DistinctNames DEF Priors, Current, Stored
<1> HIDE DEF m
<1>4. Fits(f, <<s, o>>, m)
  BY <1>1, <1>2, <1>3 DEF Fits
<1> QED  BY <1>4 DEF m

LEMMA CallPlans ==
    ASSUME IInv, NEW p \in Proc, Call(p)
    PROVE  Planned' /\ Committed' = Committed
<1>0. ASSUME Refuse(p) PROVE Planned' /\ Committed' = Committed
  <2>1. pc[p] = "locked" /\ pc[p] # "idle" /\ Return(p) /\ files' = files /\ files \in Files
    BY <1>0 DEF Refuse, IInv, TypeOK
  <2> QED  BY <2>1, PlannedEnds, CommittedNow
<1>1. ASSUME NEW i \in Uuid, NEW s \in Scope, NEW c \in Content, Remember(p, i, s, c)
      PROVE  Planned' /\ Committed' = Committed
  <2> DEFINE m == [scope |-> s, key |-> NoKey, content |-> c,
                   status |-> "active", supersedes |-> NoId]
  <2>1. CASE files[i] # NoFile \/ Full(files)
    BY <1>0, <1>1, <2>1 DEF Remember
  <2>2. CASE ~(files[i] # NoFile \/ Full(files))
    <3>1. i \in Id /\ Fits(files, i, m)
      BY <2>2 DEF Fits, Id
    <3>2. Begin(p, "write", i, m, NoId)
      BY <1>1, <2>2 DEF Remember
    <3> HIDE DEF m
    <3> QED  BY <3>1, <3>2, PlannedBegin
  <2> QED  BY <2>1, <2>2
<1>2. ASSUME NEW s \in Scope, NEW o \in Occurrence, NEW c \in Content,
             NEW k \in Key \cup {NoKey}, NEW target \in Id \cup {NoId},
             NEW provisional \in BOOLEAN,
             Learn(p, s, o, c, k, target, provisional)
      PROVE  Planned' /\ Committed' = Committed
  <2> DEFINE id == <<s, o>>
             refused == \/ Duplicate(files, id, s, k, c, provisional)
                        \/ ~ValidTarget(files, s, target)
                        \/ Full(files)
             new(prior) == [scope |-> s, key |-> k, content |-> c,
                            status |-> IF provisional THEN "provisional" ELSE "active",
                            supersedes |-> prior]
  <2>1. CASE refused
    BY <1>0, <1>2, <2>1 DEF Learn
  <2>2. CASE ~refused
    <3>1. PICK prior \in Priors(files, s, k, target, provisional) :
             Begin(p, "write", id, new(prior), prior)
      BY <1>2, <2>2 DEF Learn
    <3>2. Fits(files, id, new(prior))
      BY <2>2, LearnFits DEF IInv, TypeOK
    <3>3. id \in Id
      BY LearnId
    <3> HIDE DEF id, new
    <3> QED  BY <3>1, <3>2, <3>3, PlannedBegin
  <2> QED  BY <2>1, <2>2
<1>3. ASSUME NEW i \in Id, NEW s \in Scope, Forget(p, i, s)
      PROVE  Planned' /\ Committed' = Committed
  <2>1. CASE files[i] = NoFile \/ files[i].scope # s \/ files[i].status = "forgotten"
    BY <1>0, <1>3, <2>1 DEF Forget
  <2>2. CASE ~(files[i] = NoFile \/ files[i].scope # s \/ files[i].status = "forgotten")
    <3>1. Begin(p, "hide", i, files[i], Restorable(files, i))
      BY <1>3, <2>2 DEF Forget
    <3> QED  BY <3>1, PlannedBegin
  <2> QED  BY <2>1, <2>2
<1> QED  BY <1>1, <1>2, <1>3 DEF Call

\* While one process goes from step to step, the committed files change with
\* its steps and its writes only.
LEMMA GotoView ==
    ASSUME IInv, NEW p \in Proc, pc[p] # "idle", NEW step, Goto(p, step), job' = job
    PROVE  /\ Committed = View(files, pc[p], job[p].id)
           /\ Committed' = View(files', step, job[p].id)
<1>1. \A q \in Proc \ {p} : pc[q] = "idle" /\ pc'[q] = "idle"
  BY OthersIdle DEF Goto, IInv, TypeOK
<1>2. pc'[p] = step
  BY DEF Goto, IInv, TypeOK
<1> QED  BY <1>1, <1>2, CommittedView

LEMMA WritePlans ==
    ASSUME IInv, Planned, NEW p \in Proc, Write(p)
    PROVE  Planned' /\ Committed' = Committed
<1>0. pc[p] = "write" /\ pc[p] # "idle" /\ pc[p] \in Learning /\ files \in Files
  BY DEF Write, Learning, IInv, TypeOK
<1>1. CASE Return(p) /\ UNCHANGED files
  BY <1>0, <1>1, PlannedEnds, CommittedNow
<1>2. CASE /\ files' = [files EXCEPT ![job[p].id] = job[p].memory]
           /\ Goto(p, "verify")
           /\ UNCHANGED job
  <2>1. job[p] \in Job /\ files[job[p].id] = NoFile
    BY <1>0 DEF IInv, JobsCurrent, LearnCurrent
  <2>2. files' \in Files /\ [files' EXCEPT ![job[p].id] = NoFile] = files
    BY <1>0, <1>2, <2>1 DEF Files, Job
  <2>3. Committed' = [files' EXCEPT ![job[p].id] = NoFile]
    <3>1. Committed' = View(files', "verify", job[p].id)
      BY <1>0, <1>2, GotoView
    <3> QED  BY <2>2, <3>1, ViewCreating
  <2>4. Committed' = Committed
    BY <1>0, <2>2, <2>3, CommittedNow
  <2> QED  BY <1>0, <1>2, <2>4, PlannedStays DEF Learning, Step
<1> QED  BY <1>1, <1>2 DEF Write

\* Taking a new memory back leaves what is committed.
LEMMA UnlinkPlans ==
    ASSUME IInv, NEW p \in Proc, pc[p] \in {"verify", "unlink"}, Return(p),
           files' = [files EXCEPT ![job[p].id] = NoFile]
    PROVE  Planned' /\ Committed' = Committed
<1>1. files' \in Files
  BY DEF IInv, TypeOK, Files
<1> QED  BY <1>1, PlannedEnds, CommittedNow

\* learn takes effect with the last of its writes.
LEMMA VerifyCommits ==
    ASSUME IInv, Planned, NEW p \in Proc, pc[p] = "verify", job[p].prior = NoId,
           Return(p), UNCHANGED files
    PROVE  Planned' /\ LearnCommits(p)
<1> DEFINE id == job[p].id
           m == job[p].memory
<1>1. /\ job[p] \in Job /\ m.supersedes = NoId /\ m.status \in {"active", "provisional"}
      /\ files[id] = m
  BY DEF IInv, JobsCurrent, LearnCurrent, Learning
<1>2. id \in Id /\ m \in Memory /\ files \in Files
  BY <1>1 DEF Job, IInv, TypeOK
<1>3. Fits(Committed, id, m)
  BY DEF Planned, Learning
<1>4. Planned' /\ Committed' = files /\ Committed = [files EXCEPT ![id] = NoFile]
  BY <1>2, PlannedEnds, CommittedNow
<1>5. m.status = "active" /\ m.key # NoKey => Current(Committed, m.scope, m.key) = {}
  BY <1>1, <1>3 DEF Fits
<1> HIDE DEF id, m
<1>6. Committed'[id] = m /\ Committed[id] = NoFile /\ \A i \in Id \ {id} : Committed'[i] = Committed[i]
  BY <1>1, <1>2, <1>4 DEF Files, id, m
<1>7. Learned(Committed, Committed', id)
  BY <1>1, <1>2, <1>5, <1>6 DEF Learned
<1> QED  BY <1>2, <1>3, <1>4, <1>6, <1>7 DEF LearnCommits, id

LEMMA RetireCommits ==
    ASSUME IInv, Planned, NEW p \in Proc, Retires(p), Return(p)
    PROVE  Planned' /\ LearnCommits(p)
<1> DEFINE id == job[p].id
           m == job[p].memory
           prior == job[p].prior
<1>1. /\ job[p] \in Job /\ prior \in Id \ {id} /\ HasStatus(files, prior, "active")
      /\ files[id] = m /\ m.status = "active" /\ m.supersedes = prior
      /\ files' = [files EXCEPT ![prior] = WithStatus(files[prior], "superseded")]
      /\ pc[p] = "retire"
  BY DEF Retires
<1>2. id \in Id /\ m \in Memory /\ files \in Files /\ files[prior] \in Memory /\ prior # NoId
  BY <1>1, DistinctNames DEF Job, IInv, TypeOK, Files, HasStatus
<1>3. files[prior].scope = m.scope
  BY <1>1, <1>2 DEF IInv, JobsCurrent, LearnCurrent, PriorCurrent, Learning
<1>4. Fits(Committed, id, m)
  BY <1>1 DEF Planned, Learning
<1>5. files' \in Files
  BY <1>1, <1>2, StatusType DEF Files, Status
<1>6. Planned' /\ Committed' = files' /\ Committed = [files EXCEPT ![id] = NoFile]
  BY <1>1, <1>5, PlannedEnds, CommittedNow
<1> HIDE DEF id, m, prior
<1>7. /\ Committed'[id] = m /\ Committed[id] = NoFile /\ Committed[prior] = files[prior]
      /\ Committed'[prior] = WithStatus(Committed[prior], "superseded")
      /\ \A i \in Id \ {id, prior} : Committed'[i] = Committed[i]
  BY <1>1, <1>2, <1>6 DEF Files
<1>8. Learned(Committed, Committed', id)
  BY <1>1, <1>2, <1>3, <1>7 DEF Learned, HasStatus
<1> QED  BY <1>4, <1>5, <1>6, <1>7, <1>8 DEF LearnCommits, id

\* forget too.
LEMMA HidePlans ==
    ASSUME IInv, Planned, NEW p \in Proc, Hide(p)
    PROVE  Planned' /\ (Committed' = Committed \/ ForgetCommits(p))
<1> DEFINE id == job[p].id
           m == job[p].memory
<1>0. pc[p] = "hide" /\ pc[p] # "idle" /\ pc[p] \in Forgetting /\ files \in Files
  BY DEF Hide, Forgetting, IInv, TypeOK
<1>1. Committed = files
  BY <1>0, CommittedNow
<1>2. /\ job[p] \in Job /\ id \in Id /\ m \in Memory /\ files[id] = m /\ m.status # "forgotten"
      /\ PriorCurrent(job[p], "superseded")
  BY <1>0 DEF IInv, JobsCurrent, ForgetCurrent, Job
<1>3. CASE Return(p) /\ UNCHANGED files
  BY <1>0, <1>1, <1>3, PlannedEnds
<1>4. CASE files' = [files EXCEPT ![id] = WithStatus(m, "forgotten")]
  <2>1. WithStatus(m, "forgotten") \in Memory
    BY <1>2, StatusType DEF Status
  <2>2. files' \in Files /\ files'[id] = WithStatus(m, "forgotten")
        /\ \A i \in Id \ {id} : files'[i] = files[i]
    BY <1>0, <1>2, <1>4, <2>1 DEF Files
  <2>3. CASE job[p].prior = NoId /\ Return(p)
    <3>1. Planned' /\ Committed' = files'
      BY <1>0, <2>2, <2>3, PlannedEnds
    <3>2. Restorable(Committed, id) = NoId
      BY <1>0, <2>3 DEF Planned
    <3>3. Forgot(Committed, Committed', id)
      BY <1>1, <1>2, <2>2, <3>1, <3>2, DistinctNames DEF Forgot, Stored
    <3> QED  BY <2>2, <3>1, <3>3 DEF ForgetCommits
  <2>4. CASE job[p].prior # NoId /\ Goto(p, "restore") /\ UNCHANGED job
    <3>1. m.status = "active"
      BY <1>2, <2>4 DEF PriorCurrent
    <3>2. WithStatus(files'[id], "active") = m
      BY <1>2, <2>2, <3>1, StatusTwice DEF Status
    <3>3. Committed' = View(files', "restore", id)
      BY <1>0, <2>4, GotoView
    <3>4. View(files', "restore", id) = [files' EXCEPT ![id] = WithStatus(files'[id], "active")]
      BY <2>2, ViewHiding
    <3>5. Committed' = [files' EXCEPT ![id] = m]
      BY <3>2, <3>3, <3>4
    <3>6. Committed' = Committed
      BY <1>0, <1>1, <1>2, <2>2, <3>5 DEF Files
    <3> QED  BY <1>0, <2>4, <3>6, PlannedStays DEF Forgetting, Step
  <2> QED  BY <1>3, <1>4, <2>3, <2>4 DEF Hide
<1> QED  BY <1>3, <1>4 DEF Hide

LEMMA RestoreCommits ==
    ASSUME IInv, Planned, NEW p \in Proc, Restores(p), Return(p)
    PROVE  Planned' /\ ForgetCommits(p)
<1> DEFINE id == job[p].id
           m == job[p].memory
           prior == job[p].prior
<1>1. /\ job[p] \in Job /\ prior \in Id \ {id} /\ HasStatus(files, prior, "superseded")
      /\ files' = [files EXCEPT ![prior] = WithStatus(files[prior], "active")]
      /\ pc[p] = "restore" /\ pc[p] \in Forgetting
  BY DEF Restores, Forgetting
<1>2. id \in Id /\ m \in Memory /\ files \in Files /\ files[prior] \in Memory /\ prior # NoId
  BY <1>1, DistinctNames DEF Job, IInv, TypeOK, Files, HasStatus
<1>3. files[id] = WithStatus(m, "forgotten") /\ m.status # "forgotten"
  BY <1>1 DEF IInv, JobsCurrent, ForgetCurrent
<1>4. Restorable(Committed, id) = prior
  BY <1>1 DEF Planned
<1>5. files' \in Files
  BY <1>1, <1>2, StatusType DEF Files, Status
<1>6. Planned' /\ Committed' = files' /\ Committed = [files EXCEPT ![id] = m]
  BY <1>1, <1>5, PlannedEnds, CommittedNow
<1> HIDE DEF id, m, prior
<1>7. /\ Committed[id] = m /\ m # NoFile
      /\ Committed'[id] = WithStatus(Committed[id], "forgotten")
      /\ Committed'[prior] = WithStatus(Committed[prior], "active")
      /\ \A i \in Id \ {id, prior} : Committed'[i] = Committed[i]
  BY <1>1, <1>2, <1>3, <1>6, DistinctNames DEF Files
<1>8. Forgot(Committed, Committed', id)
  BY <1>2, <1>3, <1>4, <1>7 DEF Forgot, Stored
<1> QED  BY <1>5, <1>6, <1>8 DEF ForgetCommits, id

LEMMA UnhidePlans ==
    ASSUME IInv, NEW p \in Proc, Unhide(p)
    PROVE  Planned' /\ Committed' = Committed
<1>1. pc[p] = "unhide" /\ Return(p) /\ files' = [files EXCEPT ![job[p].id] = job[p].memory]
  BY DEF Unhide
<1>2. files' \in Files
  BY <1>1 DEF IInv, TypeOK, JobsCurrent, ForgetCurrent, Forgetting, Job, Files
<1> QED  BY <1>1, <1>2, PlannedEnds, CommittedNow

\* A step that moves on without a write commits nothing.
LEMMA GotoPlans ==
    ASSUME IInv, Planned, NEW p \in Proc, NEW step \in Step,
           \/ pc[p] \in {"verify", "retire"} /\ step \in {"retire", "unlink"}
           \/ pc[p] = "restore" /\ step = "unhide",
           Goto(p, step), UNCHANGED <<files, job>>
    PROVE  Planned' /\ Committed' = Committed
<1>1. /\ Committed = View(files, pc[p], job[p].id)
      /\ Committed' = View(files, step, job[p].id)
  BY GotoView
<1>2. Committed' = Committed
  BY <1>1 DEF View
<1> QED  BY <1>2, PlannedStays DEF Learning, Forgetting

LEMMA PlannedInit == Init => Planned /\ Committed = NoMemories
<1> SUFFICES ASSUME Init PROVE Planned /\ Committed = NoMemories
  OBVIOUS
<1>1. Planned
  BY DEF Init, Planned, Learning, Forgetting
<1>2. \A i \in Id : ~Creating(i) /\ ~Hiding(i)
  BY DEF Init, Creating, Hiding
<1>3. Committed = [i \in Id |-> files[i]]
  BY <1>2 DEF Committed
<1> QED  BY <1>1, <1>3 DEF Init, NoMemories

\* A step commits nothing, or one whole learn, remember or forget.
LEMMA CommitStep ==
    ASSUME IInv, Planned, Next
    PROVE  /\ Planned'
           /\ \/ Committed' = Committed
              \/ \E p \in Proc : pc[p] # "idle" /\ (LearnCommits(p) \/ ForgetCommits(p))
<1>0. ASSUME NEW p \in Proc
      PROVE  pc[p] \in {"retire", "unlink", "restore", "unhide"} => job[p].prior # NoId
  BY DEF IInv, JobsCurrent
<1>1. ASSUME NEW p \in Proc, Lock(p) PROVE Planned' /\ Committed' = Committed
  <2>1. \A q \in Proc : pc[q] = "idle" /\ pc'[q] = IF q = p THEN "locked" ELSE "idle"
    BY <1>1, DistinctHolder DEF IInv, TypeOK, Held, Lock
  <2>2. Planned'
    BY <2>1 DEF Planned, Learning, Forgetting
  <2>3. /\ Committed = View(files, "idle", job[p].id)
        /\ Committed' = View(files', "locked", job'[p].id)
    <3>1. /\ Committed = View(files, pc[p], job[p].id)
          /\ Committed' = View(files', pc'[p], job'[p].id)
      BY <2>1, CommittedView
    <3> QED  BY <2>1, <3>1
  <2> QED  BY <1>1, <2>2, <2>3, ViewPlain DEF Lock, IInv, TypeOK
<1>2. ASSUME NEW p \in Proc, Call(p) PROVE Planned' /\ Committed' = Committed
  BY <1>2, CallPlans
<1>3. ASSUME NEW p \in Proc, Write(p) PROVE Planned' /\ Committed' = Committed
  BY <1>3, WritePlans
<1>4. ASSUME NEW p \in Proc, Verify(p)
      PROVE  Planned' /\ (Committed' = Committed \/ LearnCommits(p))
  <2>1. CASE job[p].prior = NoId /\ Return(p) /\ UNCHANGED files
    BY <1>4, <2>1, VerifyCommits DEF Verify
  <2>2. CASE Goto(p, "retire") /\ UNCHANGED <<files, job>>
    BY <1>4, <2>2, GotoPlans DEF Verify, Step
  <2>3. CASE files' = [files EXCEPT ![job[p].id] = NoFile] /\ Return(p)
    BY <1>4, <2>3, UnlinkPlans DEF Verify
  <2> QED  BY <1>4, <2>1, <2>2, <2>3 DEF Verify
<1>5. ASSUME NEW p \in Proc, Retire(p)
      PROVE  Planned' /\ (Committed' = Committed \/ LearnCommits(p))
  <2>1. CASE /\ files' = [files EXCEPT ![job[p].prior] = WithStatus(job[p].priorMemory, "superseded")]
             /\ Return(p)
    <3>1. pc[p] = "retire" /\ job[p].prior # NoId /\ LearnCurrent(p)
      BY <1>0, <1>5 DEF Retire, IInv, JobsCurrent
    <3>2. Retires(p)
      BY <2>1, <3>1 DEF Retires, LearnCurrent, Learning, PriorCurrent, Job
    <3> QED  BY <2>1, <3>2, RetireCommits
  <2>2. CASE Goto(p, "unlink") /\ UNCHANGED <<files, job>>
    BY <1>5, <2>2, GotoPlans DEF Retire, Step
  <2> QED  BY <1>5, <2>1, <2>2 DEF Retire
<1>6. ASSUME NEW p \in Proc, Unlink(p) PROVE Planned' /\ Committed' = Committed
  BY <1>6, UnlinkPlans DEF Unlink
<1>7. ASSUME NEW p \in Proc, Hide(p)
      PROVE  Planned' /\ (Committed' = Committed \/ ForgetCommits(p))
  BY <1>7, HidePlans
<1>8. ASSUME NEW p \in Proc, Restore(p)
      PROVE  Planned' /\ (Committed' = Committed \/ ForgetCommits(p))
  <2>1. CASE /\ files' = [files EXCEPT ![job[p].prior] = WithStatus(job[p].priorMemory, "active")]
             /\ Return(p)
    <3>1. pc[p] = "restore" /\ job[p].prior # NoId /\ ForgetCurrent(p)
      BY <1>0, <1>8 DEF Restore, IInv, JobsCurrent
    <3>2. Restores(p)
      BY <2>1, <3>1 DEF Restores, ForgetCurrent, Forgetting, PriorCurrent, Job
    <3> QED  BY <2>1, <3>2, RestoreCommits
  <2>2. CASE Goto(p, "unhide") /\ UNCHANGED <<files, job>>
    BY <1>8, <2>2, GotoPlans DEF Restore, Step
  <2> QED  BY <1>8, <2>1, <2>2 DEF Restore
<1>9. ASSUME NEW p \in Proc, Unhide(p) PROVE Planned' /\ Committed' = Committed
  BY <1>9, UnhidePlans
<1>10. ASSUME NEW p \in Proc, Continue(p) PROVE pc[p] # "idle"
  BY <1>10 DEF Continue, Write, Verify, Retire, Unlink, Hide, Restore, Unhide
<1> QED
  BY <1>1, <1>2, <1>3, <1>4, <1>5, <1>6, <1>7, <1>8, <1>9, <1>10 DEF Next, Continue

\* A crash ends the plan; a stutter keeps it.
LEMMA PlannedStep == ASSUME IInv, Planned, [CrashNext]_vars PROVE Planned'
<1>1. CASE Next
  BY <1>1, CommitStep
<1>2. ASSUME NEW p \in Proc, Crash(p) \/ RollbackFails(p) PROVE Planned'
  BY <1>2, PlannedEnds DEF Crash, RollbackFails
<1>3. CASE UNCHANGED vars
  BY <1>3 DEF vars, Planned, Committed, Creating, Hiding
<1> QED  BY <1>1, <1>2, <1>3 DEF CrashNext

-----------------------------------------------------------------------------
(***************************************************************************)
(* The steps of MemoryStore.  Its operators on files are those of          *)
(* MemoryFiles: an instance gives them other names.                        *)
(***************************************************************************)
LEMMA StoreOperators ==
    /\ \A f : Store!Full(f) = Full(f)
    /\ \A f, id, s, k, c, provisional :
          Store!Duplicate(f, id, s, k, c, provisional) = Duplicate(f, id, s, k, c, provisional)
    /\ \A f, s, target : Store!ValidTarget(f, s, target) = ValidTarget(f, s, target)
    /\ \A f, s, k, target, provisional :
          Store!Priors(f, s, k, target, provisional) = Priors(f, s, k, target, provisional)
    /\ \A f, i : Store!Restorable(f, i) = Restorable(f, i)
    /\ \A m, st : Store!WithStatus(m, st) = WithStatus(m, st)
    /\ Store!Id = Id /\ Store!NoMemories = NoMemories
<1>1. \A f : Store!Full(f) = Full(f)
  BY DEF Store!Full, Full, Store!Stored, Stored, Store!Id, Id, Store!Cardinality, Cardinality
<1>2. \A f, id, s, k, c, provisional :
         Store!Duplicate(f, id, s, k, c, provisional) = Duplicate(f, id, s, k, c, provisional)
  BY DEF Store!Duplicate, Duplicate, Store!Stored, Stored, Store!Id, Id
<1>3. \A f, s, target : Store!ValidTarget(f, s, target) = ValidTarget(f, s, target)
  BY DEF Store!ValidTarget, ValidTarget, Store!HasStatus, HasStatus
<1>4. \A f, s, k, target, provisional :
         Store!Priors(f, s, k, target, provisional) = Priors(f, s, k, target, provisional)
  BY DEF Store!Priors, Priors, Store!Current, Current, Store!Stored, Stored, Store!Id, Id
<1>5. \A f, i : Store!Restorable(f, i) = Restorable(f, i)
  BY DEF Store!Restorable, Restorable, Store!HasStatus, HasStatus
<1>6. \A m, st : Store!WithStatus(m, st) = WithStatus(m, st)
  BY DEF Store!WithStatus, WithStatus
<1>7. Store!Id = Id /\ Store!NoMemories = NoMemories
  BY DEF Store!Id, Id, Store!NoMemories, NoMemories
<1> QED  BY <1>1, <1>2, <1>3, <1>4, <1>5, <1>6, <1>7

LEMMA StoreLearns ==
    ASSUME Committed \in Files, NEW p \in Proc, LearnCommits(p)
    PROVE  Store!Next
<1> DEFINE id == job[p].id
           m == Committed'[id]
           prior == m.supersedes
<1>1. /\ id \in Id /\ Committed[id] = NoFile /\ m \in Memory
      /\ m.status \in {"active", "provisional"}
      /\ m.status = "provisional" => prior = NoId
      /\ prior # NoId => /\ HasStatus(Committed, prior, "active")
                         /\ Committed[prior].scope = m.scope
                         /\ Committed'[prior] = WithStatus(Committed[prior], "superseded")
      /\ \A i \in Id \ {id, prior} : Committed'[i] = Committed[i]
      /\ Fits(Committed, id, m)
      /\ Committed' \in Files
  BY DEF LearnCommits, Learned
<1>2. /\ m.scope \in Scope /\ m.key \in Key \cup {NoKey} /\ m.content \in Content
      /\ prior \in Id \cup {NoId}
      /\ m = [scope |-> m.scope, key |-> m.key, content |-> m.content,
              status |-> m.status, supersedes |-> prior]
  BY <1>1 DEF Memory
<1> HIDE DEF id, m, prior
<1>3. CASE id \in Uuid /\ m.key = NoKey /\ m.status = "active" /\ prior = NoId
  <2>1. Committed' = [Committed EXCEPT ![id] = m]
    <3>1. \A i \in Id \ {id} : Committed'[i] = Committed[i] /\ i # NoId
      BY <1>1, <1>3, DistinctNames
    <3>2. Committed'[id] = m
      BY DEF m, id
    <3> QED  BY <1>1, <3>1, <3>2 DEF Files
  <2>2. Store!Remember(id, m.scope, m.content)
    BY <1>1, <1>2, <1>3, <2>1, StoreOperators DEF Store!Remember, Fits
  <2> QED  BY <1>2, <1>3, <2>2 DEF Store!Next
<1>4. CASE \E o \in Occurrence :
              /\ id = <<m.scope, o>>
              /\ ~Duplicate(Committed, id, m.scope, m.key, m.content, m.status = "provisional")
              /\ prior = NoId /\ m.status = "active" /\ m.key # NoKey
                    => Current(Committed, m.scope, m.key) = {}
  <2>1. PICK o \in Occurrence :
              /\ id = <<m.scope, o>>
              /\ ~Duplicate(Committed, id, m.scope, m.key, m.content, m.status = "provisional")
              /\ prior = NoId /\ m.status = "active" /\ m.key # NoKey
                    => Current(Committed, m.scope, m.key) = {}
    BY <1>4
  <2>2. PICK provisional \in BOOLEAN :
              /\ provisional <=> m.status = "provisional"
              /\ ~Duplicate(Committed, id, m.scope, m.key, m.content, provisional)
    <3>1. CASE m.status = "provisional"
      BY <2>1, <3>1 DEF Duplicate
    <3>2. CASE m.status # "provisional"
      BY <2>1, <3>2 DEF Duplicate
    <3> QED  BY <3>1, <3>2
  <2>3. prior = NoId \/ ~provisional
    BY <1>1, <2>2
  <2>4. ValidTarget(Committed, m.scope, prior) /\ ~Full(Committed)
    BY <1>1 DEF ValidTarget, Fits
  <2>5. prior \in Priors(Committed, m.scope, m.key, prior, provisional)
    BY <1>1, <2>1, <2>2 DEF Priors
  <2>6. m = [scope |-> m.scope, key |-> m.key, content |-> m.content,
             status |-> IF provisional THEN "provisional" ELSE "active",
             supersedes |-> prior]
    BY <1>1, <1>2, <2>2
  <2>7. Committed' = [i \in Id |-> IF i = id THEN m
                                   ELSE IF i = prior THEN WithStatus(Committed[i], "superseded")
                                   ELSE Committed[i]]
    <3>1. Committed'[id] = m
      BY DEF m, id
    <3>2. \A i \in Id : i = prior => prior # NoId
      BY DistinctNames
    <3> QED  BY <1>1, <3>1, <3>2 DEF Files
  <2>8. Store!Learn(m.scope, o, m.content, m.key, prior, provisional)
    BY <2>1, <2>2, <2>3, <2>4, <2>5, <2>6, <2>7, StoreOperators DEF Store!Learn
  <2> QED  BY <1>2, <2>8, StoreOperators DEF Store!Next
<1>5. prior = m.supersedes
  BY DEF prior
<1> QED  BY <1>1, <1>3, <1>4, <1>5 DEF Fits

LEMMA StoreForgets ==
    ASSUME Committed \in Files, NEW p \in Proc, ForgetCommits(p)
    PROVE  Store!Next
<1> DEFINE x == job[p].id
           r == Restorable(Committed, x)
<1>1. /\ x \in Id /\ Committed[x] # NoFile /\ Committed[x].status # "forgotten"
      /\ Committed'[x] = WithStatus(Committed[x], "forgotten")
      /\ r # NoId => Committed'[r] = WithStatus(Committed[r], "active")
      /\ \A i \in Id \ {x, r} : Committed'[i] = Committed[i]
      /\ Committed' \in Files
  BY DEF ForgetCommits, Forgot, Stored
<1> HIDE DEF x, r
<1>2. Committed' = [j \in Id |-> IF j = x THEN WithStatus(Committed[j], "forgotten")
                                 ELSE IF j = r THEN WithStatus(Committed[j], "active")
                                 ELSE Committed[j]]
  BY <1>1, DistinctNames DEF Files
<1>3. Store!Forget(x)
  BY <1>1, <1>2, StoreOperators DEF Store!Forget, r
<1> QED  BY <1>1, <1>3, StoreOperators DEF Store!Next

\* Every step is a step of MemoryStore, or changes nothing that is committed.
LEMMA AtomicStep ==
    ASSUME IInv, Planned, Next
    PROVE  Committed' = Committed \/ Store!Next
<1>1. ASSUME NEW p \in Proc, pc[p] # "idle", LearnCommits(p) \/ ForgetCommits(p)
      PROVE  Store!Next
  <2>1. Committed \in Files
    BY <1>1, CommittedNow
  <2> QED  BY <1>1, <2>1, StoreLearns, StoreForgets
<1> QED  BY <1>1, CommitStep

LEMMA StoreInit == Init => Store!Init
  BY PlannedInit, StoreOperators DEF Store!Init

\* What is committed stays sound, as long as no process dies.
LEMMA SoundStep ==
    ASSUME IInv, Planned, Next, Sound(Committed)
    PROVE  Sound(Committed')
<1>1. ASSUME NEW p \in Proc, pc[p] # "idle", LearnCommits(p) \/ ForgetCommits(p)
      PROVE  Sound(Committed')
  <2>1. Committed \in Files
    BY <1>1, CommittedNow
  <2>2. CASE LearnCommits(p)
    BY <2>1, <2>2, LearnSound DEF LearnCommits
  <2>3. CASE ForgetCommits(p)
    BY <2>1, <2>3, ForgetSound DEF ForgetCommits
  <2> QED  BY <1>1, <2>2, <2>3
<1> QED  BY <1>1, CommitStep

LEMMA SoundInit == Sound(NoMemories)
<1>1. Stored(NoMemories) = {}
  BY DEF Stored, NoMemories
<1>2. \A s, k : Current(NoMemories, s, k) = {}
  BY <1>1 DEF Current
<1> QED
  BY <1>1, <1>2 DEF Sound, LineageClosedIn, LineageLinearIn, SupersededHasHeirIn,
                    InferencesAlone, OneActivePerKeyIn

LEMMA SoundStore ==
    ASSUME Sound(Committed)
    PROVE  LineageLinear /\ SupersededHasHeir /\ OneActivePerKey
<1>1. Store!Stored(Committed) = Stored(Committed)
  BY DEF Store!Stored, Stored, Store!Id, Id
<1>2. LineageLinear
  BY <1>1 DEF LineageLinear, Store!LineageLinear, Store!LineageLinearIn, Sound, LineageLinearIn
<1>3. SupersededHasHeir
  BY <1>1 DEF SupersededHasHeir, Store!SupersededHasHeir, Store!SupersededHasHeirIn, Sound,
              SupersededHasHeirIn
<1>4. OneActivePerKey
  <2>1. Store!KeyLocalIn(Committed) => KeyLocalIn(Committed)
    BY <1>1 DEF Store!KeyLocalIn, KeyLocalIn
  <2>2. OneActivePerKeyIn(Committed) => Store!OneActivePerKeyIn(Committed)
    BY <1>1 DEF Store!OneActivePerKeyIn, OneActivePerKeyIn, Store!Current, Current
  <2> QED  BY <2>1, <2>2 DEF OneActivePerKey, Store!OneActivePerKey, Sound
<1> QED  BY <1>2, <1>3, <1>4

-----------------------------------------------------------------------------

\* Until a process dies: what is planned is right and what is committed sound.
AInv == IInv /\ Planned /\ (crashed = TRUE \/ Sound(Committed))

LEMMA AInvStep == AInv /\ [UntilCrashNext]_<<vars, crashed>> => AInv'
<1> SUFFICES ASSUME AInv, [UntilCrashNext]_<<vars, crashed>> PROVE AInv'
  OBVIOUS
<1>1. IInv' /\ Planned'
  <2>1. [CrashNext]_vars
    BY DEF UntilCrashNext, CrashNext
  <2> QED  BY <2>1, IInvStep, PlannedStep DEF AInv
<1>2. CASE Next /\ UNCHANGED crashed
  BY <1>1, <1>2, SoundStep DEF AInv
<1>3. CASE crashed' = TRUE
  BY <1>1, <1>3 DEF AInv
<1>4. CASE UNCHANGED <<vars, crashed>>
  BY <1>1, <1>4 DEF AInv, vars, Committed, Creating, Hiding
<1> QED  BY <1>2, <1>3, <1>4 DEF UntilCrashNext

LEMMA AInvariant == UntilCrashSpec => []AInv
<1>1. UntilCrashInit => AInv
  BY IInvInit, PlannedInit, SoundInit DEF UntilCrashInit, AInv
<1> QED  BY <1>1, AInvStep, PTL DEF UntilCrashSpec

\* remember, learn and forget are indivisible for every caller that takes the
\* lock: their writes, failures and rollbacks one file at a time implement
\* MemoryStore.
THEOREM Atomic == Spec => StoreSpec
<1>1. Init => IInv /\ Planned /\ Store!Init
  BY IInvInit, PlannedInit, StoreInit
<1>2. IInv /\ Planned /\ [Next]_vars => IInv' /\ Planned'
  BY IInvStep, PlannedStep DEF CrashNext
<1>3. IInv /\ Planned /\ [Next]_vars => [Store!Next]_Committed
  BY AtomicStep DEF vars, Committed, Creating, Hiding
<1> QED  BY <1>1, <1>2, <1>3, PTL DEF Spec, StoreSpec, Store!Spec

\* With processes that die, they are indivisible up to the first that does.
THEOREM AtomicBeforeCrash == UntilCrashSpec => AtomicUntilCrash
<1>1. UntilCrashInit => Store!Init
  BY StoreInit DEF UntilCrashInit
<1>2. AInv /\ [UntilCrashNext]_<<vars, crashed>> =>
         [UNCHANGED Committed \/ crashed' \/ Store!Next]_vars
  BY AtomicStep DEF AInv, UntilCrashNext
<1> QED  BY <1>1, <1>2, AInvariant, PTL DEF UntilCrashSpec, AtomicUntilCrash

\* Up to then no chain of corrections forks, every superseded statement has an
\* heir, and a key has one statement in force as long as corrections keep to
\* their key.
THEOREM LineageBeforeCrash == UntilCrashSpec => []LineageUntilCrash
<1>1. AInv => LineageUntilCrash
  BY SoundStore DEF AInv, LineageUntilCrash
<1> QED  BY <1>1, AInvariant, PTL
=============================================================================
