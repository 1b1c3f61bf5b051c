-------------------------- MODULE ProposalsProofs --------------------------
(***************************************************************************)
(* What holds of proposals for every number of processes and proposals,    *)
(* and of the consolidations that make them for every vault.               *)
(* The inductive invariant says that only the lock holder is deciding, that *)
(* the proposal it decides is still pending, and that a saved one has its   *)
(* memory.                                                                 *)
(***************************************************************************)
EXTENDS Proposals, Cleanup, FiniteSetTheorems, TLAPS

Deciding == {"locked", "accepting", "saved", "rejecting"}

\* Only the lock holder decides.
HolderDecides == \A p \in Proc : pc[p] \in Deciding => lock = p

\* What the holder read under the lock still holds.
JobPending ==
    \A p \in Proc : pc[p] \in {"accepting", "saved", "rejecting"} =>
        job[p] \in Proposal /\ status[job[p]] = "pending"

JobSaved == \A p \in Proc : pc[p] = "saved" => memory[job[p]] # "none"

IInv == TypeOK /\ HolderDecides /\ JobPending /\ JobSaved /\ AcceptedIsSaved

\* A step of another process, or of nobody, cannot be at the same time as a
\* decision, so the decision's own part of the invariant carries over.
LEMMA OneDecides ==
    ASSUME IInv, NEW p \in Proc, NEW q \in Proc, pc[p] \in Deciding, pc[q] \in Deciding
    PROVE  p = q
  BY DEF IInv, HolderDecides

LEMMA Initially == Init => IInv
<1> SUFFICES ASSUME Init PROVE IInv
  OBVIOUS
<1>1. TypeOK
  BY DEF Init, TypeOK
<1>2. HolderDecides /\ JobPending /\ JobSaved
  BY DEF Init, HolderDecides, JobPending, JobSaved, Deciding
<1>3. AcceptedIsSaved
  BY DEF Init, AcceptedIsSaved
<1> QED  BY <1>1, <1>2, <1>3 DEF IInv

LEMMA Stuttering == IInv /\ UNCHANGED vars => IInv'
  BY DEF IInv, vars, TypeOK, HolderDecides, JobPending, JobSaved, AcceptedIsSaved

\* Proposing touches no decision.
LEMMA ProposeKeeps ==
    ASSUME IInv, NEW p \in Proc, NEW x \in Proposal, Propose(p, x)
    PROVE  IInv'
<1>1. TypeOK' /\ AcceptedIsSaved'
  BY DEF Propose, TypeOK, AcceptedIsSaved, IInv
<1>2. HolderDecides'
  BY DEF Propose, TypeOK, HolderDecides, Deciding, IInv
<1>3. JobPending' /\ JobSaved'
  BY DEF Propose, TypeOK, JobPending, JobSaved, IInv
<1> QED  BY <1>1, <1>2, <1>3 DEF IInv

LEMMA ProcessKeeps ==
    ASSUME IInv, NEW p \in Proc, Count(p) \/ Lock(p) \/ Crash(p)
    PROVE  IInv'
<1> USE ProposalsAssumption DEF IInv
<1>1. CASE Count(p)
  BY <1>1 DEF Count, TypeOK, HolderDecides, JobPending, JobSaved, AcceptedIsSaved, Deciding
<1>2. CASE Lock(p)
  <2>1. \A q \in Proc : pc[q] \notin Deciding
    BY <1>2 DEF Lock, HolderDecides
  <2> QED
    BY <1>2, <2>1 DEF Lock, TypeOK, HolderDecides, JobPending, JobSaved, AcceptedIsSaved, Deciding
<1>3. CASE Crash(p)
  BY <1>3 DEF Crash, TypeOK, HolderDecides, JobPending, JobSaved, AcceptedIsSaved, Deciding
<1> QED  BY <1>1, <1>2, <1>3

\* The steps of a decision.
LEMMA OnlyDecider ==
    ASSUME IInv, NEW p \in Proc, pc[p] \in Deciding
    PROVE  \A q \in Proc \ {p} : pc[q] \notin Deciding
  BY OneDecides

LEMMA DecideKeeps ==
    ASSUME IInv, NEW p \in Proc, NEW x \in Proposal, NEW accept \in BOOLEAN, Decide(p, x, accept)
    PROVE  IInv'
<1> USE DEF IInv
<1>0. \A q \in Proc \ {p} : pc[q] \notin Deciding
  BY OnlyDecider DEF Decide, Deciding
<1>1. TypeOK' /\ AcceptedIsSaved'
  BY ProposalsAssumption DEF Decide, Return, TypeOK, AcceptedIsSaved
<1>2. HolderDecides'
  BY <1>0 DEF Decide, Return, TypeOK, HolderDecides, Deciding
<1>3. JobPending' /\ JobSaved'
  BY <1>0 DEF Decide, Return, TypeOK, JobPending, JobSaved, Deciding
<1> QED  BY <1>1, <1>2, <1>3

LEMMA RememberKeeps ==
    ASSUME IInv, NEW p \in Proc, Remember(p)
    PROVE  IInv'
<1> USE DEF IInv
<1>0. job[p] \in Proposal /\ \A q \in Proc \ {p} : pc[q] \notin Deciding
  BY OnlyDecider DEF Remember, JobPending, Deciding
<1>1. TypeOK' /\ AcceptedIsSaved'
  BY <1>0, ProposalsAssumption DEF Remember, Return, TypeOK, AcceptedIsSaved
<1>2. HolderDecides'
  BY <1>0 DEF Remember, Return, TypeOK, HolderDecides, Deciding
<1>3. JobPending' /\ JobSaved'
  BY <1>0 DEF Remember, Return, TypeOK, JobPending, JobSaved, Deciding
<1> QED  BY <1>1, <1>2, <1>3

LEMMA WriteDecisionKeeps ==
    ASSUME IInv, NEW p \in Proc, WriteDecision(p)
    PROVE  IInv'
<1> USE DEF IInv
<1>0. job[p] \in Proposal /\ \A q \in Proc \ {p} : pc[q] \notin Deciding
  BY OnlyDecider DEF WriteDecision, JobPending, Deciding
<1>1. TypeOK'
  BY <1>0, ProposalsAssumption DEF WriteDecision, Return, TypeOK
<1>2. AcceptedIsSaved'
  BY <1>0 DEF WriteDecision, TypeOK, JobSaved, AcceptedIsSaved
<1>3. \A q \in Proc : pc'[q] \notin Deciding
  BY <1>0 DEF WriteDecision, Return, TypeOK, Deciding
<1>4. HolderDecides' /\ JobPending' /\ JobSaved'
  BY <1>3 DEF HolderDecides, JobPending, JobSaved, Deciding
<1> QED  BY <1>1, <1>2, <1>4

\* People forget memories and remove decided files.
LEMMA PeopleKeep ==
    ASSUME IInv, NEW x \in Proposal, Forget(x) \/ Remove(x)
    PROVE  IInv'
<1> USE DEF IInv
<1>1. CASE Forget(x)
  BY <1>1 DEF Forget, TypeOK, HolderDecides, JobPending, JobSaved, AcceptedIsSaved
<1>2. CASE Remove(x)
  BY <1>2 DEF Remove, TypeOK, HolderDecides, JobPending, JobSaved, AcceptedIsSaved
<1> QED  BY <1>1, <1>2

LEMMA Step == IInv /\ [Next]_vars => IInv'
<1> SUFFICES ASSUME IInv, [Next]_vars PROVE IInv'
  OBVIOUS
<1>1. CASE UNCHANGED vars
  BY <1>1, Stuttering
<1>2. CASE \E x \in Proposal : Forget(x) \/ Remove(x)
  BY <1>2, PeopleKeep
<1>3. ASSUME NEW p \in Proc, NEW x \in Proposal, Propose(p, x)
      PROVE  IInv'
  BY <1>3, ProposeKeeps
<1>4. ASSUME NEW p \in Proc, NEW x \in Proposal, NEW accept \in BOOLEAN, Decide(p, x, accept)
      PROVE  IInv'
  BY <1>4, DecideKeeps
<1>5. ASSUME NEW p \in Proc,
             Count(p) \/ Lock(p) \/ Crash(p) \/ Remember(p) \/ WriteDecision(p)
      PROVE  IInv'
  BY <1>5, ProcessKeeps, RememberKeeps, WriteDecisionKeeps
<1> QED  BY <1>1, <1>2, <1>3, <1>4, <1>5 DEF Next

LEMMA Inductive == Spec => []IInv
<1> QED  BY Initially, Step, PTL DEF Spec

-----------------------------------------------------------------------------

\* Every proposal file and process is always in a state the code knows.
THEOREM TypeCorrect == Spec => []TypeOK
<1>1. IInv => TypeOK
  BY DEF IInv
<1> QED  BY <1>1, Inductive, PTL

\* An accepted proposal has its memory, whatever fails or dies on the way.
THEOREM AcceptedSaved == Spec => []AcceptedIsSaved
<1>1. IInv => AcceptedIsSaved
  BY DEF IInv
<1> QED  BY <1>1, Inductive, PTL

\* A decision is never replaced by another: a decision in progress is always
\* about a proposal that is still pending.
THEOREM Decided == Spec => DecidedOnce
<1> DEFINE Kept == \A x \in Proposal : status[x] \in {"accepted", "rejected"} =>
                      status'[x] \in {status[x], "absent"}
<1>1. IInv /\ [Next]_vars => [Kept]_vars
  <2> SUFFICES ASSUME IInv, Next PROVE Kept
    OBVIOUS
  <2>1. ASSUME NEW p \in Proc, WriteDecision(p) PROVE Kept
    <3>1. job[p] \in Proposal /\ status[job[p]] = "pending"
      BY <2>1 DEF WriteDecision, IInv, JobPending
    <3> QED  BY <2>1, <3>1 DEF WriteDecision, IInv, TypeOK
  <2>2. ASSUME NEW p \in Proc, NEW x \in Proposal, Propose(p, x) PROVE Kept
    BY <2>2 DEF Propose, IInv, TypeOK
  <2>3. ASSUME NEW x \in Proposal, Remove(x) PROVE Kept
    BY <2>3 DEF Remove, IInv, TypeOK
  <2>4. ASSUME UNCHANGED status PROVE Kept
    BY <2>4
  <2> QED
    BY <2>1, <2>2, <2>3, <2>4 DEF Next, Count, Lock, Decide, Remember, Crash, Forget
<1> QED  BY <1>1, Inductive, PTL DEF Spec, DecidedOnce

\* A memory appears only while its own pending proposal is being accepted.
THEOREM SavedOnlyByAcceptance == Spec => SavedByAcceptance
<1> DEFINE Accepting == \A x \in Proposal : memory[x] = "none" /\ memory'[x] # "none" =>
              status[x] = "pending" /\ \E p \in Proc : lock = p /\ job[p] = x
<1>1. IInv /\ [Next]_vars => [Accepting]_vars
  <2> SUFFICES ASSUME IInv, Next PROVE Accepting
    OBVIOUS
  <2>1. ASSUME NEW p \in Proc, Remember(p) PROVE Accepting
    <3>1. /\ job[p] \in Proposal /\ status[job[p]] = "pending"
          /\ lock = p
      BY <2>1 DEF Remember, IInv, JobPending, HolderDecides, Deciding
    <3> QED  BY <2>1, <3>1 DEF Remember, IInv, TypeOK
  <2>2. ASSUME NEW x \in Proposal, Forget(x) PROVE Accepting
    BY <2>2 DEF Forget, IInv, TypeOK
  <2>3. ASSUME UNCHANGED memory PROVE Accepting
    BY <2>3
  <2> QED
    BY <2>1, <2>2, <2>3 DEF Next, Count, Propose, Lock, Decide, WriteDecision, Crash, Remove
<1> QED  BY <1>1, Inductive, PTL DEF Spec, SavedByAcceptance
-----------------------------------------------------------------------------
(***************************************************************************)
(* How far the cap can be exceeded: a process that has counted may add a   *)
(* file, so files and counted processes are bounded together.              *)
(***************************************************************************)
Counted == {p \in Proc : pc[p] = "counted"}

OverInv ==
    /\ IsFiniteSet(Present)
    /\ Cardinality(Present) + Cardinality(Counted) < MaxProposals + Cardinality(Proc)

LEMMA CountedFinite == IsFiniteSet(Counted) /\ Cardinality(Counted) <= Cardinality(Proc)
<1>1. Counted \subseteq Proc
  BY DEF Counted
<1> QED  BY <1>1, ProcAssumption, FS_Subset

LEMMA CardinalTypes ==
    ASSUME IsFiniteSet(Present)
    PROVE  Cardinality(Present) \in Nat /\ Cardinality(Counted) \in Nat /\ Cardinality(Proc) \in Nat
  BY CountedFinite, ProcAssumption, FS_CardinalityType

\* Fewer files or fewer that have counted is no problem.
LEMMA OverFewer ==
    ASSUME TypeOK, OverInv, Present' \subseteq Present, Counted' \subseteq Counted
    PROVE  OverInv'
<1>1. IsFiniteSet(Present') /\ Cardinality(Present') <= Cardinality(Present)
  BY FS_Subset DEF OverInv
<1>2. IsFiniteSet(Counted') /\ Cardinality(Counted') <= Cardinality(Counted)
  BY CountedFinite, FS_Subset
<1>3. /\ Cardinality(Present) \in Nat /\ Cardinality(Counted) \in Nat /\ Cardinality(Proc) \in Nat
      /\ Cardinality(Present') \in Nat /\ Cardinality(Counted') \in Nat
  BY <1>1, <1>2, CardinalTypes, FS_CardinalityType DEF OverInv
<1> QED  BY <1>1, <1>2, <1>3, ProposalsAssumption DEF OverInv

LEMMA OverStep == IInv /\ OverInv /\ [Next]_vars => OverInv'
<1> SUFFICES ASSUME IInv, OverInv, [Next]_vars PROVE OverInv'
  OBVIOUS
<1> TypeOK /\ JobPending
  BY DEF IInv
<1>0. /\ Cardinality(Present) \in Nat /\ Cardinality(Counted) \in Nat /\ Cardinality(Proc) \in Nat
      /\ IsFiniteSet(Present) /\ IsFiniteSet(Counted) /\ MaxProposals \in Nat
      /\ Cardinality(Present) + Cardinality(Counted) < MaxProposals + Cardinality(Proc)
  BY CardinalTypes, CountedFinite, ProposalsAssumption DEF OverInv
<1>1. ASSUME NEW p \in Proc, Count(p) PROVE OverInv'
  <2>1. Counted' = Counted \cup {p} /\ p \notin Counted /\ Present' = Present
    BY <1>1 DEF Count, Counted, TypeOK, Present
  <2>2. Counted' \subseteq Proc
    BY <2>1 DEF Counted
  <2>3. Cardinality(Counted') \in Nat /\ Cardinality(Counted') <= Cardinality(Proc)
    BY <2>2, ProcAssumption, FS_Subset, FS_CardinalityType
  <2>4. Cardinality(Present) < MaxProposals
    BY <1>1 DEF Count
  <2>5. IsFiniteSet(Present') /\ Cardinality(Present') = Cardinality(Present)
    BY <1>0, <2>1
  <2>6. Cardinality(Present') + Cardinality(Counted') < MaxProposals + Cardinality(Proc)
    <3> HIDE DEF Present, Counted
    <3> QED  BY <1>0, <2>3, <2>4, <2>5
  <2> QED  BY <2>5, <2>6 DEF OverInv
<1>2. ASSUME NEW p \in Proc, NEW x \in Proposal, Propose(p, x) PROVE OverInv'
  <2>1. /\ Counted' = Counted \ {p} /\ p \in Counted
        /\ Present' = Present \cup {x} /\ x \notin Present
    BY <1>2 DEF Propose, Counted, TypeOK, Present
  <2>2. Cardinality(Counted') = Cardinality(Counted) - 1
    BY <1>0, <2>1, FS_RemoveElement
  <2>3. IsFiniteSet(Present') /\ Cardinality(Present') = Cardinality(Present) + 1
    BY <1>0, <2>1, FS_AddElement
  <2> QED  BY <1>0, <2>2, <2>3 DEF OverInv
<1>3. ASSUME NEW p \in Proc,
             \/ Lock(p) \/ Remember(p) \/ WriteDecision(p) \/ Crash(p)
             \/ \E x \in Proposal, accept \in BOOLEAN : Decide(p, x, accept)
      PROVE  OverInv'
  <2>1. Counted' \subseteq Counted
    BY <1>3 DEF Lock, Decide, Remember, WriteDecision, Crash, Return, Counted, TypeOK
  <2>2. Present' \subseteq Present
    <3>1. CASE WriteDecision(p)
      <4>1. PICK st \in {"accepted", "rejected"} :
               status' = status \/ status' = [status EXCEPT ![job[p]] = st]
        BY <3>1 DEF WriteDecision
      <4>2. job[p] \in Proposal /\ status[job[p]] = "pending"
        BY <3>1 DEF WriteDecision, JobPending
      <4> QED  BY <4>1, <4>2 DEF TypeOK, Present
    <3>2. CASE UNCHANGED status
      BY <3>2 DEF Present
    <3> QED  BY <1>3, <3>1, <3>2 DEF Lock, Decide, Remember, Crash
  <2> QED  BY <2>1, <2>2, OverFewer
<1>4. ASSUME NEW x \in Proposal, Forget(x) \/ Remove(x) PROVE OverInv'
  <2>1. Present' \subseteq Present /\ Counted' \subseteq Counted
    BY <1>4 DEF Forget, Remove, TypeOK, Present, Counted
  <2> QED  BY <2>1, OverFewer
<1>5. CASE UNCHANGED vars
  <2>1. Present' \subseteq Present /\ Counted' \subseteq Counted
    BY <1>5 DEF vars, Present, Counted
  <2> QED  BY <2>1, OverFewer
<1> QED  BY <1>1, <1>2, <1>3, <1>4, <1>5 DEF Next

\* Proposers that counted together exceed the cap by less than one file for
\* each process, however often they come back and die.
THEOREM OverLimitSmall == Spec => []OverLimitBounded
<1>1. Init => OverInv
  <2> SUFFICES ASSUME Init PROVE OverInv
    OBVIOUS
  <2>1. Present = {} /\ Counted = {}
    BY DEF Init, Present, Counted
  <2>2. Cardinality(Proc) \in Nat /\ Cardinality(Proc) # 0
    BY ProcAssumption, FS_CardinalityType, FS_EmptySet
  <2> QED  BY <2>1, <2>2, FS_EmptySet, ProposalsAssumption DEF OverInv
<1>2. OverInv => OverLimitBounded
  BY CardinalTypes, ProposalsAssumption DEF OverInv, OverLimitBounded
<1> QED  BY <1>1, <1>2, OverStep, Inductive, PTL DEF Spec

-----------------------------------------------------------------------------
(***************************************************************************)
(* Cleaning up takes nothing out of recall.  A row is a copy of a memory   *)
(* whose text and ancestry never change; what can change is whether it is  *)
(* in force, and then it is retracted.                                     *)
(***************************************************************************)
LEMMA StatusChanged ==
    ASSUME NEW m \in Memory, NEW st \in Status
    PROVE  /\ WithStatus(m, st) \in Memory /\ WithStatus(m, st).status = st
           /\ WithStatus(m, st).scope = m.scope /\ WithStatus(m, st).content = m.content
           /\ WithStatus(m, st).key = m.key /\ WithStatus(m, st).supersedes = m.supersedes
  BY DEF WithStatus, Memory

\* The store of a cleanup speaks of the same files.
LEMMA StoreNames ==
    /\ \A f, s, k, target, provisional :
          Store!Priors(f, s, k, target, provisional) = Priors(f, s, k, target, provisional)
    /\ \A f, id, s, k, c, provisional :
          Store!Duplicate(f, id, s, k, c, provisional) = Duplicate(f, id, s, k, c, provisional)
    /\ \A f, i : Store!Restorable(f, i) = Restorable(f, i)
    /\ \A m, st : Store!WithStatus(m, st) = WithStatus(m, st)
    /\ Store!Id = Id /\ Store!NoMemories = NoMemories /\ Store!Files = Files
<1>1. \A f, s, k, target, provisional :
          Store!Priors(f, s, k, target, provisional) = Priors(f, s, k, target, provisional)
  BY DEF Store!Priors, Priors, Store!Current, Current, Store!Stored, Stored, Store!Id, Id
<1>2. \A f, i : Store!Restorable(f, i) = Restorable(f, i)
  BY DEF Store!Restorable, Restorable, Store!HasStatus, HasStatus
<1>3. \A m, st : Store!WithStatus(m, st) = WithStatus(m, st)
  BY DEF Store!WithStatus, WithStatus
<1>4. Store!Id = Id /\ Store!NoMemories = NoMemories /\ Store!Files = Files
  BY DEF Store!Id, Id, Store!NoMemories, NoMemories, Store!Files, Files, Store!Memory, Memory,
         Store!Status, Status
<1>5. \A f, id, s, k, c, provisional :
         Store!Duplicate(f, id, s, k, c, provisional) = Duplicate(f, id, s, k, c, provisional)
  BY DEF Store!Duplicate, Duplicate, Store!Stored, Stored, Store!Id, Id
<1> QED  BY <1>1, <1>2, <1>3, <1>4, <1>5

\* What was stored stays stored, and only its status can change.
Lasting ==
    \A i \in Stored(store) :
        /\ i \in Stored(store') /\ store'[i].scope = store[i].scope
        /\ store'[i].content = store[i].content

LEMMA ForgetLasts ==
    ASSUME store \in Files, NEW i \in Id, Store!Forget(i)
    PROVE  /\ store' \in Files /\ Lasting
           /\ store[i] # NoFile /\ store'[i].status = "forgotten"
           /\ \A j \in Id \ {i, Restorable(store, i)} : store'[j] = store[j]
<1> DEFINE r == Restorable(store, i)
<1>1. /\ store[i] # NoFile
      /\ store' = [j \in Id |-> IF j = i THEN WithStatus(store[j], "forgotten")
                                ELSE IF j = r THEN WithStatus(store[j], "active")
                                ELSE store[j]]
  BY StoreNames DEF Store!Forget
<1>2. r \in Id => HasStatus(store, r, "superseded")
  BY DistinctNames DEF Restorable
<1> HIDE DEF r
<1>3. \A j \in Id : store[j] # NoFile => store[j] \in Memory
  BY DEF Files
<1>4. {"forgotten", "active"} \subseteq Status
  BY DEF Status
<1>5. store' \in Files
  BY <1>1, <1>2, <1>3, <1>4, StatusChanged DEF Files, HasStatus
<1>6. Lasting
  BY <1>1, <1>3, <1>4, StatusChanged, DistinctNames DEF Lasting, Stored
<1>7. store'[i].status = "forgotten"
  BY <1>1, <1>3, <1>4, StatusChanged
<1>8. \A j \in Id \ {i, r} : store'[j] = store[j]
  BY <1>1
<1> QED  BY <1>1, <1>5, <1>6, <1>7, <1>8 DEF r

LEMMA LearnLasts ==
    ASSUME store \in Files, NEW s \in Scope, NEW o \in Occurrence, NEW c \in Content,
           NEW k \in Key \cup {NoKey}, NEW target \in Id \cup {NoId}, NEW provisional \in BOOLEAN,
           Store!Learn(s, o, c, k, target, provisional)
    PROVE  store' \in Files /\ Lasting
<1> DEFINE id == <<s, o>>
           new(prior) == [scope |-> s, key |-> k, content |-> c,
                          status |-> IF provisional THEN "provisional" ELSE "active",
                          supersedes |-> prior]
<1>1. /\ store[id] = NoFile /\ ValidTarget(store, s, target)
      /\ \E prior \in Priors(store, s, k, target, provisional) :
            store' = [i \in Id |-> IF i = id THEN new(prior)
                                   ELSE IF i = prior THEN WithStatus(store[i], "superseded")
                                   ELSE store[i]]
  <2>1. ~Duplicate(store, id, s, k, c, provisional)
    BY StoreNames DEF Store!Learn
  <2>2. ValidTarget(store, s, target)
    BY DEF Store!Learn, Store!ValidTarget, ValidTarget, Store!HasStatus, HasStatus
  <2> QED  BY <2>1, <2>2, StoreNames DEF Store!Learn, Duplicate
<1>2. PICK prior \in Priors(store, s, k, target, provisional) :
         store' = [i \in Id |-> IF i = id THEN new(prior)
                                ELSE IF i = prior THEN WithStatus(store[i], "superseded")
                                ELSE store[i]]
  BY <1>1
<1>3. prior \in Id => store[prior] # NoFile
  BY <1>1, DistinctNames DEF Priors, Current, Stored, ValidTarget, HasStatus
<1>4. prior \in Id \cup {NoId}
  BY DEF Priors, Current, Stored
<1>5. new(prior) \in Memory
  BY <1>4 DEF Memory, Status
<1>6. id \in Id
  BY DEF Id
<1>7. \A j \in Id : store[j] # NoFile => store[j] \in Memory
  BY DEF Files
<1>8. "superseded" \in Status
  BY DEF Status
<1> HIDE DEF new, id
<1>9. store' \in Files
  BY <1>2, <1>3, <1>5, <1>7, <1>8, StatusChanged DEF Files
<1>10. Lasting
  BY <1>1, <1>2, <1>7, <1>8, StatusChanged, DistinctNames DEF Lasting, Stored
<1> QED  BY <1>9, <1>10

LEMMA StoreLasts ==
    ASSUME store \in Files, Store!Next
    PROVE  store' \in Files /\ Lasting
<1>1. ASSUME NEW i \in Uuid, NEW s \in Scope, NEW c \in Content, Store!Remember(i, s, c)
      PROVE  store' \in Files /\ Lasting
  <2> DEFINE new == [scope |-> s, key |-> NoKey, content |-> c,
                     status |-> "active", supersedes |-> NoId]
  <2>1. store[i] = NoFile /\ store' = [store EXCEPT ![i] = new]
    BY <1>1 DEF Store!Remember
  <2>2. new \in Memory /\ i \in Id
    BY DEF Memory, Status, Id
  <2> HIDE DEF new
  <2>3. store' \in Files
    BY <2>1, <2>2 DEF Files
  <2>4. \A j \in Stored(store) : store'[j] = store[j]
    BY <2>1 DEF Files, Stored
  <2>5. Lasting
    BY <2>4 DEF Lasting, Stored
  <2> QED  BY <2>3, <2>5
<1>2. ASSUME NEW s \in Scope, NEW o \in Occurrence, NEW c \in Content,
             NEW k \in Key \cup {NoKey}, NEW target \in Id \cup {NoId}, NEW provisional \in BOOLEAN,
             Store!Learn(s, o, c, k, target, provisional)
      PROVE  store' \in Files /\ Lasting
  BY <1>2, LearnLasts
<1>3. ASSUME NEW i \in Id, Store!Forget(i)
      PROVE  store' \in Files /\ Lasting
  BY <1>3, ForgetLasts
<1> QED  BY <1>1, <1>2, <1>3, StoreNames DEF Store!Next

-----------------------------------------------------------------------------
\* The statement of a memory: what it says, and where.
Statement(i) == <<store[i].scope, store[i].content>>

\* A row that is not in force any more has been retracted since the list.
RowsTrue ==
    \A i \in pass.rows \cup pass.kept :
        /\ i \in Stored(store) /\ store[i].scope = pass.scope
        /\ store[i].status = "active" \/ Statement(i) \in retracted

\* Every text seen is that of a row that was kept.
SeenKept == \A c \in pass.seen : \E j \in pass.kept : store[j].content = c

CInv == /\ CleanupTypeOK /\ store \in Files
        /\ RowsTrue /\ SeenKept /\ pass.rows \cap pass.kept = {}

LEMMA PassFields ==
    ASSUME CleanupTypeOK, NEW i
    PROVE  LET examined == [pass EXCEPT !.rows = @ \ {i}]
               kept == [pass EXCEPT !.rows = @ \ {i}, !.kept = @ \cup {i},
                                    !.seen = @ \cup {store[i].content}]
           IN /\ examined.at = pass.at /\ examined.scope = pass.scope /\ examined.seen = pass.seen
              /\ examined.rows = pass.rows \ {i} /\ examined.kept = pass.kept
              /\ kept.at = pass.at /\ kept.scope = pass.scope
              /\ kept.seen = pass.seen \cup {store[i].content}
              /\ kept.rows = pass.rows \ {i} /\ kept.kept = pass.kept \cup {i}
  BY DEF CleanupTypeOK

\* A list starts a pass of memories in force.
LEMMA ListKeeps == ASSUME CInv, NEW s \in Scope, List(s) PROVE CInv'
<1>1. PICK rows \in SUBSET Active(s) :
         pass' = [at |-> "cleaning", scope |-> s, rows |-> rows, seen |-> {}, kept |-> {}]
  BY DEF List
<1>2. store' = store /\ retracted' = {} /\ proposed' = proposed
  BY DEF List
<1>3. pass'.rows = rows /\ pass'.kept = {} /\ pass'.seen = {} /\ pass'.scope = s
  BY <1>1
<1>4. rows \subseteq Id
  BY DEF Active, Stored
<1>5. CleanupTypeOK'
  BY <1>1, <1>2, <1>4 DEF CInv, CleanupTypeOK, Store!TypeOK
<1>6. RowsTrue'
  BY <1>2, <1>3 DEF RowsTrue, Active, Stored
<1> QED  BY <1>2, <1>3, <1>5, <1>6 DEF CInv, SeenKept

\* The end of a pass, whichever it is.
LEMMA EndKeeps ==
    ASSUME CInv, pass' = NoPass, store' = store, retracted' = retracted,
           proposed' \subseteq SUBSET Id
    PROVE  CInv'
<1>1. pass'.rows = {} /\ pass'.kept = {} /\ pass'.seen = {}
  BY DEF NoPass
<1>2. NoPass.scope = Global
  BY DEF NoPass
<1>3. pass' \in [at : {"idle", "cleaning"}, scope : Scope, rows : SUBSET Id,
                 seen : SUBSET Content, kept : SUBSET Id]
  BY GlobalAssumption DEF NoPass
<1> QED  BY <1>1, <1>3 DEF CInv, CleanupTypeOK, Store!TypeOK, RowsTrue, SeenKept

\* The memory a pass forgets says what a kept one says, and no kept one comes
\* back or goes with it.
LEMMA ExamineRedundant ==
    ASSUME CInv, NEW i \in Id, Examine(i), Redundant(i)
    PROVE  /\ CInv'
           /\ \A j \in Id \ {i} : store'[j] = store[j]
           /\ Lasting /\ (store'[i].status = "active" => store[i].status = "active")
<1>1. /\ pass' = [pass EXCEPT !.rows = @ \ {i}] /\ i \in pass.rows
      /\ retracted' = retracted /\ proposed' = proposed
      /\ Store!Forget(i) \/ (store[i].status = "forgotten" /\ store' = store)
  BY DEF Examine
<1>2. Restorable(store, i) = NoId
  BY DEF Restorable, Redundant
<1>3. /\ store' \in Files /\ Lasting /\ (store'[i].status = "active" => store[i].status = "active")
      /\ \A j \in Id \ {i} : store'[j] = store[j]
  <2>1. CASE Store!Forget(i)
    <3>1. Id \ {i, Restorable(store, i)} = Id \ {i}
      BY <1>2, DistinctNames
    <3> QED  BY <2>1, <3>1, ForgetLasts DEF CInv
  <2>2. CASE store' = store
    BY <2>2 DEF CInv, Lasting
  <2> QED  BY <1>1, <2>1, <2>2
<1>4. /\ pass'.scope = pass.scope /\ pass'.seen = pass.seen
      /\ pass'.rows = pass.rows \ {i} /\ pass'.kept = pass.kept
  BY <1>1 DEF CInv, CleanupTypeOK
<1>5. CleanupTypeOK'
  BY <1>1, <1>3, StoreNames DEF CInv, CleanupTypeOK, Store!TypeOK
<1>6. i \notin pass.kept /\ pass.rows \cup pass.kept \subseteq Id
  BY <1>1 DEF CInv, CleanupTypeOK
<1>7. RowsTrue'
  BY <1>1, <1>3, <1>4, <1>6 DEF CInv, RowsTrue, Stored, Statement
<1>8. SeenKept'
  BY <1>3, <1>4, <1>6 DEF CInv, SeenKept
<1> QED  BY <1>3, <1>4, <1>5, <1>7, <1>8 DEF CInv

LEMMA ExamineKept ==
    ASSUME CInv, NEW i \in Id, Examine(i), ~Redundant(i)
    PROVE  CInv' /\ store' = store
<1>1. /\ pass' = [pass EXCEPT !.rows = @ \ {i}, !.kept = @ \cup {i},
                              !.seen = @ \cup {store[i].content}]
      /\ i \in pass.rows /\ store' = store /\ retracted' = retracted /\ proposed' = proposed
  BY DEF Examine
<1>2. /\ pass'.scope = pass.scope /\ pass'.seen = pass.seen \cup {store[i].content}
      /\ pass'.rows = pass.rows \ {i} /\ pass'.kept = pass.kept \cup {i}
  BY <1>1 DEF CInv, CleanupTypeOK
<1>3. store[i].content \in Content
  BY <1>1 DEF CInv, RowsTrue, Stored, Files, Memory
<1>4. CleanupTypeOK'
  BY <1>1, <1>3 DEF CInv, CleanupTypeOK, Store!TypeOK
<1>5. RowsTrue'
  BY <1>1, <1>2 DEF CInv, RowsTrue, Stored, Statement
<1>6. SeenKept'
  BY <1>1, <1>2 DEF CInv, SeenKept
<1> QED  BY <1>1, <1>2, <1>4, <1>5, <1>6 DEF CInv

\* Whatever others take out of recall is noted.
LEMMA OthersKeep == ASSUME CInv, Others PROVE CInv'
<1>1. store' \in Files /\ Lasting
  BY StoreLasts DEF CInv, Others
<1>2. /\ pass' = pass /\ proposed' = proposed
      /\ retracted' = retracted \cup
            {<<store[i].scope, store[i].content>> :
                i \in {j \in Stored(store) : HasStatus(store, j, "active") /\ store'[j].status # "active"}}
  BY DEF Others
<1>3. \A i \in Stored(store) : store[i].scope \in Scope /\ store[i].content \in Content
  BY DEF CInv, Stored, Files, Memory
<1>4. CleanupTypeOK'
  BY <1>1, <1>2, <1>3, StoreNames DEF CInv, CleanupTypeOK, Store!TypeOK
<1>5. \A i \in Stored(store) :
         store[i].status = "active" /\ store'[i].status # "active" => Statement(i) \in retracted'
  BY <1>2 DEF Stored, HasStatus, Statement
<1>6. \A i \in Stored(store) : Statement(i)' = Statement(i)
  BY <1>1 DEF Lasting, Statement
<1>7. RowsTrue'
  BY <1>1, <1>2, <1>5, <1>6 DEF CInv, RowsTrue, Lasting
<1>8. SeenKept'
  BY <1>1, <1>2 DEF CInv, SeenKept, RowsTrue, Lasting
<1> QED  BY <1>1, <1>2, <1>4, <1>7, <1>8 DEF CInv

LEMMA CleanupKeeps == CInv /\ [CleanupNext]_cleanupVars => CInv'
<1> SUFFICES ASSUME CInv, [CleanupNext]_cleanupVars PROVE CInv'
  OBVIOUS
<1>1. CASE \E s \in Scope : List(s)
  BY <1>1, ListKeeps
<1>2. CASE CleanupStep
  BY <1>2, ExamineRedundant, ExamineKept DEF CleanupStep
<1>3. ASSUME NEW ids \in SUBSET Id, Summarize(ids) PROVE CInv'
  BY <1>3, EndKeeps DEF Summarize, CInv, CleanupTypeOK
<1>4. CASE Stop
  BY <1>4, EndKeeps DEF Stop, CInv, CleanupTypeOK
<1>5. CASE Others
  BY <1>5, OthersKeep
<1>6. CASE UNCHANGED cleanupVars
  BY <1>6 DEF cleanupVars, CInv, CleanupTypeOK, Store!TypeOK, RowsTrue, SeenKept, Statement, Stored
<1> QED  BY <1>1, <1>2, <1>3, <1>4, <1>5, <1>6 DEF CleanupNext

LEMMA CleanupStarts == CleanupInit => CInv
<1> SUFFICES ASSUME CleanupInit PROVE CInv
  OBVIOUS
<1>1. store = NoMemories /\ pass = NoPass /\ retracted = {} /\ proposed = {}
  BY StoreNames DEF CleanupInit, Store!Init
<1>2. pass.rows = {} /\ pass.kept = {} /\ pass.seen = {}
  BY <1>1 DEF NoPass
<1>3. pass \in [at : {"idle", "cleaning"}, scope : Scope, rows : SUBSET Id,
                seen : SUBSET Content, kept : SUBSET Id]
  BY <1>1, GlobalAssumption DEF NoPass
<1>4. store \in Files
  BY <1>1 DEF NoMemories, Files
<1> QED  BY <1>1, <1>2, <1>3, <1>4, StoreNames DEF CInv, CleanupTypeOK, Store!TypeOK, RowsTrue, SeenKept

-----------------------------------------------------------------------------

\* In force is what an active memory says.
LEMMA InForceIs ==
    ASSUME store \in Files
    PROVE  \A x : x \in InForce <=>
              \E i \in Stored(store) : store[i].status = "active" /\ x = Statement(i)
<1>1. \A i \in Stored(store) : store[i].scope \in Scope
  BY DEF Stored, Files, Memory
<1> QED  BY <1>1 DEF InForce, Active, Statement

LEMMA InForceIsNext ==
    ASSUME store' \in Files
    PROVE  \A x : x \in InForce' <=>
              \E i \in Stored(store)' : store'[i].status = "active" /\ x = Statement(i)'
<1>1. \A i \in Stored(store)' : store'[i].scope \in Scope
  BY DEF Stored, Files, Memory
<1> QED  BY <1>1 DEF InForce, Active, Statement

\* A consolidation takes no statement out of recall, except one that somebody
\* else has taken out in another copy since the list, and brings none back.
THEOREM DuplicatesOnly == CleanupSpec => OnlyDuplicatesGo
<1> DEFINE Kept == CleanupStep => InForce' \subseteq InForce /\ InForce \ InForce' \subseteq retracted
<1>1. CInv /\ [CleanupNext]_cleanupVars => [Kept]_cleanupVars
  <2> SUFFICES ASSUME CInv, NEW i \in Id, Examine(i)
               PROVE  InForce' \subseteq InForce /\ InForce \ InForce' \subseteq retracted
    BY DEF CleanupStep
  <2>1. CASE ~Redundant(i)
    <3>1. store' = store
      BY <2>1, ExamineKept
    <3>2. InForce' = InForce
      BY <3>1 DEF InForce, Active, Stored
    <3> QED  BY <3>2
  <2>2. CASE Redundant(i)
    <3>0. /\ store \in Files /\ store' \in Files /\ Lasting
          /\ \A j \in Id \ {i} : store'[j] = store[j]
          /\ store'[i].status = "active" => store[i].status = "active"
      BY <2>2, ExamineRedundant DEF CInv
    <3>1. /\ i \in Stored(store) /\ i \in pass.rows /\ pass.rows \cap pass.kept = {}
          /\ store[i].scope = pass.scope /\ store[i].content \in pass.seen
      BY <2>2 DEF Examine, Redundant, CInv, RowsTrue
    <3>2. PICK j \in pass.kept : store[j].content = store[i].content
      BY <3>1 DEF CInv, SeenKept
    <3>3. /\ j \in Stored(store) /\ j # i /\ Statement(j) = Statement(i)
          /\ store[j].status = "active" \/ Statement(i) \in retracted
      BY <3>1, <3>2 DEF CInv, RowsTrue, Statement
    <3>4. /\ \A l \in Stored(store) : l \in Stored(store)' /\ Statement(l)' = Statement(l)
          /\ \A l \in Stored(store)' : l \in Stored(store)
      BY <3>0, <3>1 DEF Lasting, Statement, Stored
    <3>5. InForce' \subseteq InForce
      <4> SUFFICES ASSUME NEW x \in InForce' PROVE x \in InForce
        OBVIOUS
      <4>1. PICK l \in Stored(store)' : store'[l].status = "active" /\ x = Statement(l)'
        BY <3>0, InForceIsNext
      <4>2. l \in Stored(store) /\ store[l].status = "active" /\ x = Statement(l)
        BY <3>0, <3>4, <4>1 DEF Stored
      <4> QED  BY <3>0, <4>2, InForceIs
    <3>6. InForce \ InForce' \subseteq retracted
      <4> SUFFICES ASSUME NEW x \in InForce, x \notin InForce' PROVE x \in retracted
        OBVIOUS
      <4>1. PICK l \in Stored(store) : store[l].status = "active" /\ x = Statement(l)
        BY <3>0, InForceIs
      <4>2. \A m \in Stored(store) \ {i} : store[m].status = "active" => Statement(m) \in InForce'
        BY <3>0, <3>4, InForceIsNext DEF Stored
      <4>3. l = i
        BY <4>1, <4>2
      <4> QED  BY <3>3, <4>1, <4>2, <4>3
    <3> QED  BY <3>5, <3>6
  <2> QED  BY <2>1, <2>2
<1> QED  BY <1>1, CleanupStarts, CleanupKeeps, PTL DEF CleanupSpec, OnlyDuplicatesGo
=============================================================================
