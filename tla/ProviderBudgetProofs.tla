------------------------ MODULE ProviderBudgetProofs ------------------------
(***************************************************************************)
(* The daily limit of calls, for every number of processes, providers and  *)
(* days.  The inductive invariant says that the holder of the transaction  *)
(* still fits into the day it is now, also after midnight, because nothing *)
(* is ever dated in the future.  The same goes for the tokens, once it is  *)
(* known that a sum does not depend on the order of its rows.              *)
(***************************************************************************)
EXTENDS ProviderBudget, FiniteSetTheorems, WellFoundedInduction, TLAPS

\* Only the transaction's holder is about to insert, and its call still fits.
HolderFits == \A r \in Run : pc[r] = "insert" => txn = r /\ Calls(day) + 1 <= DailyCalls

FutureEmpty == \A d \in Day : d > day => On(d) = {}

\* A run that holds a provider has one, and knows whether Codex was among
\* those it tried.
Remembered ==
    \A r \in Run :
        /\ pc[r] \in {"reserve", "insert", "sent"} =>
              /\ job[r].chain # <<>>
              /\ Current(r) = "codex" => job[r].codex
              /\ Current(r) = "paid" => ~job[r].codex
        /\ \A i \in DOMAIN job[r].tried : job[r].tried[i] = "codex" => job[r].codex

IInv == TypeOK /\ HolderFits /\ FutureEmpty /\ CallsWithinBudget /\ CallsReserved /\ Remembered

LEMMA OnFinite == \A d : IsFiniteSet(On(d)) /\ Calls(d) \in Nat
<1> TAKE d
<1>1. On(d) \subseteq Attempt
  BY DEF On, Stored
<1>2. IsFiniteSet(On(d))
  BY <1>1, FS_Subset, BudgetAssumption
<1> QED  BY <1>2, FS_CardinalityType DEF Calls

LEMMA Initially == Init => IInv
<1> SUFFICES ASSUME Init PROVE IInv
  OBVIOUS
<1> USE BudgetAssumption, NoRowAssumption
<1>1. NoJob \in Job
  BY DEF NoJob, NewJob, Job
<1>2. TypeOK
  BY <1>1 DEF Init, TypeOK, Day
<1>3. \A d : On(d) = {}
  BY DEF Init, On, Stored
<1>4. FutureEmpty
  BY <1>3 DEF FutureEmpty
<1>7. \A d : Calls(d) = 0
  BY <1>3, FS_EmptySet DEF Calls
<1>8. CallsWithinBudget
  BY <1>7 DEF CallsWithinBudget
<1>5. HolderFits /\ CallsReserved
  BY DEF Init, HolderFits, CallsReserved
<1>6. Remembered
  BY DEF Init, Remembered, NoJob, NewJob
<1> QED  BY <1>2, <1>4, <1>5, <1>6, <1>8 DEF IInv

\* Steps that change no row keep what is counted.
LEMMA SameRows ==
    ASSUME UNCHANGED rows
    PROVE  /\ Stored' = Stored
           /\ \A d : On(d)' = On(d) /\ Calls(d)' = Calls(d)
  BY DEF Stored, On, Calls

\* Updating a row keeps it stored and dated.
LEMMA SameDays ==
    ASSUME TypeOK, NEW a \in Stored, NEW n \in Nat, NEW st \in {"pending", "success", "failed"},
           \/ rows' = [rows EXCEPT ![a].status = st]
           \/ rows' = [rows EXCEPT ![a].status = st, ![a].tokens = n]
    PROVE  /\ rows' \in [Attempt -> Row \cup {NoRow}]
           /\ Stored' = Stored
           /\ \A d : On(d)' = On(d) /\ Calls(d)' = Calls(d)
           /\ \A b \in Attempt \ {a} : rows'[b] = rows[b]
           /\ rows'[a].day = rows[a].day
<1>1. a \in Attempt /\ rows[a] \in Row /\ rows \in [Attempt -> Row \cup {NoRow}]
  BY DEF TypeOK, Stored
<1> DEFINE new == IF rows' = [rows EXCEPT ![a].status = st]
                 THEN [rows[a] EXCEPT !.status = st]
                 ELSE [rows[a] EXCEPT !.status = st, !.tokens = n]
<1>a. rows' = [rows EXCEPT ![a] = new]
  OBVIOUS
<1>b. new \in Row /\ new.day = rows[a].day
  BY <1>1 DEF Row
<1> HIDE DEF new
<1>2. /\ rows' \in [Attempt -> Row \cup {NoRow}] /\ rows'[a] \in Row
      /\ rows'[a].day = rows[a].day
      /\ \A b \in Attempt \ {a} : rows'[b] = rows[b]
  BY <1>1, <1>a, <1>b
<1>3. Stored' = Stored
  BY <1>1, <1>2, NoRowAssumption DEF Stored
<1>5. \A b \in Stored : rows'[b].day = rows[b].day
  BY <1>2 DEF Stored
<1>4. \A d : On(d)' = On(d)
  BY <1>3, <1>5 DEF On
<1> QED  BY <1>2, <1>3, <1>4 DEF Calls

\* A run that ends leaves the others as they are.
LEMMA EndKeeps ==
    ASSUME IInv, NEW r \in Run, End(r)
    PROVE  /\ job' \in [Run -> Job] /\ Remembered'
           /\ pc' \in [Run -> {"idle", "choose", "reserve", "insert", "sent"}]
           /\ pc'[r] = "idle"
           /\ \A q \in Run \ {r} : pc'[q] = pc[q] /\ job'[q] = job[q]
<1>1. NoJob \in Job /\ NoJob.tried = <<>>
  BY BudgetAssumption DEF NoJob, NewJob, Job
<1>2. /\ job' \in [Run -> Job]
      /\ pc' \in [Run -> {"idle", "choose", "reserve", "insert", "sent"}]
      /\ pc'[r] = "idle" /\ job'[r] = NoJob
      /\ \A q \in Run \ {r} : pc'[q] = pc[q] /\ job'[q] = job[q]
  BY <1>1 DEF End, Goto, IInv, TypeOK
<1>3. Remembered'
  BY <1>1, <1>2 DEF IInv, Remembered, Current
<1> QED  BY <1>2, <1>3

\* Ending without a change of the rows.
LEMMA EndInv ==
    ASSUME IInv, NEW r \in Run, End(r), UNCHANGED <<day, rows>>,
           txn' = txn \/ (txn = r /\ txn' = NoRun)
    PROVE  IInv'
<1>1. TypeOK'
  BY EndKeeps DEF IInv, TypeOK
<1>2. HolderFits'
  BY EndKeeps, SameRows DEF IInv, HolderFits
<1>3. FutureEmpty' /\ CallsWithinBudget'
  BY SameRows DEF IInv, FutureEmpty, CallsWithinBudget
<1>4. CallsReserved'
  BY EndKeeps, SameRows DEF IInv, CallsReserved
<1> QED  BY <1>1, <1>2, <1>3, <1>4, EndKeeps DEF IInv

-----------------------------------------------------------------------------
(***************************************************************************)
(* One step per action.                                                    *)
(***************************************************************************)
LEMMA NextDayKeeps == ASSUME IInv, NextDay PROVE IInv'
<1> USE DEF IInv, NextDay
<1>1. TypeOK'
  BY BudgetAssumption DEF TypeOK, Day
<1>5. CallsReserved' /\ CallsWithinBudget'
  BY SameRows DEF CallsReserved, CallsWithinBudget
<1>6. Remembered'
  <2>1. job' = job /\ pc' = pc
    OBVIOUS
  <2> QED  BY <2>1, Zenon DEF Remembered, Current
<1>2. FutureEmpty'
  BY SameRows, BudgetAssumption DEF TypeOK, Day, FutureEmpty
<1>3. On(day') = {} /\ Calls(day') = 0
  <2>1. day' \in Day /\ day' > day
    BY BudgetAssumption DEF TypeOK, Day
  <2>2. On(day') = {}
    BY <2>1 DEF FutureEmpty
  <2> QED  BY <2>2, FS_EmptySet DEF Calls
<1>4. HolderFits'
  BY <1>3, SameRows, BudgetAssumption DEF HolderFits
<1> QED  BY <1>1, <1>2, <1>4, <1>5, <1>6

LEMMA StartKeeps ==
    ASSUME IInv, NEW r \in Run, NEW route \in Routes, NEW estimate \in Estimates,
           Start(r, route, estimate)
    PROVE  IInv'
<1> USE DEF IInv, Start, Goto
<1>0. NewJob(route, estimate) \in Job /\ NewJob(route, estimate).tried = <<>>
  BY BudgetAssumption DEF NewJob, Job
<1>1. TypeOK'
  BY <1>0 DEF TypeOK
<1>2. HolderFits' /\ FutureEmpty' /\ CallsWithinBudget'
  BY SameRows DEF TypeOK, HolderFits, FutureEmpty, CallsWithinBudget
<1>3. CallsReserved'
  BY SameRows DEF TypeOK, CallsReserved
<1>4. Remembered'
  BY <1>0 DEF TypeOK, Remembered, Current
<1> QED  BY <1>1, <1>2, <1>3, <1>4

LEMMA ChooseKeeps == ASSUME IInv, NEW r \in Run, Choose(r) PROVE IInv'
<1>1. CASE End(r)
  BY <1>1, EndInv DEF Choose
<1>2. CASE ~(job[r].chain = <<>> \/ (job[r].codex /\ Current(r) = "paid"))
  <2> USE <1>2 DEF IInv, Choose, Goto
  <2> DEFINE known == job[r].codex \/ Current(r) = "codex"
             mine == [job[r] EXCEPT !.codex = known]
  <2>a. known \in BOOLEAN
    BY Zenon
  <2>b. job' = [job EXCEPT ![r] = mine]
    BY Zenon
  <2>c. (job[r].codex => known) /\ (Current(r) = "codex" => known)
    BY Zenon
  <2>d. Current(r) = "paid" => ~known
    BY Zenon
  <2> HIDE DEF known
  <2>1. /\ mine \in Job /\ mine.chain = job[r].chain /\ mine.tried = job[r].tried
        /\ mine.codex = known /\ mine.row = job[r].row
    <3>1. job[r] \in Job
      BY DEF TypeOK
    <3>2. job[r] = [chain |-> job[r].chain, tried |-> job[r].tried, codex |-> job[r].codex,
                    need |-> job[r].need, row |-> job[r].row]
      BY <3>1 DEF Job
    <3>3. mine = [chain |-> job[r].chain, tried |-> job[r].tried, codex |-> known,
                  need |-> job[r].need, row |-> job[r].row]
      BY <3>2
    <3> HIDE DEF mine
    <3>4. mine \in Job
      BY <3>1, <3>3, <2>a DEF Job
    <3> QED  BY <3>3, <3>4
  <2>2. job' = [job EXCEPT ![r] = mine]
    BY <2>b
  <2> HIDE DEF mine
  <2>3. TypeOK'
    BY <2>1, <2>2 DEF TypeOK
  <2>4. HolderFits' /\ FutureEmpty' /\ CallsWithinBudget'
    BY SameRows DEF TypeOK, HolderFits, FutureEmpty, CallsWithinBudget
  <2>5. CallsReserved'
    BY <2>1, <2>2, SameRows DEF TypeOK, CallsReserved
  <2>6. Remembered'
    BY <2>1, <2>2, <2>c, <2>d DEF TypeOK, Remembered, Current
  <2> QED  BY <2>3, <2>4, <2>5, <2>6
<1> QED  BY <1>1, <1>2 DEF Choose

LEMMA BeginKeeps == ASSUME IInv, NEW r \in Run, Begin(r) PROVE IInv'
<1>1. CASE ~Fits(r)
  BY <1>1, EndInv DEF Begin
<1>2. CASE Fits(r)
  <2> USE <1>2 DEF IInv, Begin, Goto
  <2>1. TypeOK'
    BY DEF TypeOK
  <2>2. \A q \in Run : pc[q] # "insert"
    BY BudgetAssumption DEF HolderFits
  <2>3. HolderFits'
    BY <2>2, SameRows DEF TypeOK, HolderFits, Fits
  <2>4. FutureEmpty' /\ CallsWithinBudget' /\ CallsReserved'
    BY SameRows DEF TypeOK, FutureEmpty, CallsWithinBudget, CallsReserved
  <2>5. Remembered'
    BY DEF TypeOK, Remembered, Current
  <2> QED  BY <2>1, <2>3, <2>4, <2>5
<1> QED  BY <1>1, <1>2 DEF Begin

LEMMA InsertKeeps == ASSUME IInv, NEW r \in Run, NEW a \in Attempt, Insert(r, a) PROVE IInv'
<1> USE DEF IInv, Insert, Goto
<1> DEFINE new == [day |-> day, tokens |-> job[r].need, status |-> "pending"]
           mine == [job[r] EXCEPT !.row = a]
<1>1. new \in Row /\ new.day = day /\ new.status = "pending"
  BY DEF TypeOK, Job, Row
<1>2. /\ mine \in Job /\ mine.chain = job[r].chain /\ mine.tried = job[r].tried
      /\ mine.codex = job[r].codex /\ mine.row = a
  BY DEF TypeOK, Job
<1>3. rows' = [rows EXCEPT ![a] = new] /\ job' = [job EXCEPT ![r] = mine]
  OBVIOUS
<1> HIDE DEF new, mine
<1>4. TypeOK'
  BY <1>1, <1>2, <1>3 DEF TypeOK
<1>5. a \notin Stored /\ Stored' = Stored \cup {a}
  BY <1>1, <1>3, NoRowAssumption DEF TypeOK, Stored
<1>6. /\ a \notin On(day) /\ On(day)' = On(day) \cup {a}
      /\ \A d : d # day => On(d)' = On(d)
  <2>1. rows'[a] = new /\ \A b \in Stored : b # a /\ rows'[b] = rows[b]
    BY <1>3, <1>5 DEF TypeOK, Stored
  <2> QED  BY <1>1, <1>5, <2>1 DEF On
<1>7. Calls(day)' = Calls(day) + 1 /\ \A d : d # day => Calls(d)' = Calls(d)
  BY <1>6, OnFinite, FS_AddElement DEF Calls
<1>8. FutureEmpty'
  BY <1>6 DEF TypeOK, Day, FutureEmpty
<1>9. CallsWithinBudget'
  <2>1. Calls(day) + 1 <= DailyCalls
    BY DEF HolderFits
  <2> QED  BY <1>7, <2>1 DEF CallsWithinBudget
<1>10. \A q \in Run \ {r} : pc[q] # "insert"
  BY DEF HolderFits
<1>11. HolderFits'
  BY <1>10 DEF TypeOK, HolderFits
<1>12. CallsReserved'
  <2>1. rows'[a] = new /\ \A b \in Stored : b # a /\ rows'[b] = rows[b]
    BY <1>3, <1>5 DEF TypeOK, Stored
  <2>2. /\ job'[r].row = a /\ pc'[r] = "sent"
        /\ \A q \in Run \ {r} : pc'[q] = pc[q] /\ job'[q] = job[q]
    BY <1>2, <1>3 DEF TypeOK
  <2> QED  BY <1>1, <1>5, <2>1, <2>2 DEF CallsReserved
<1>13. Remembered'
  BY <1>2, <1>3 DEF TypeOK, Remembered, Current
<1> QED  BY <1>4, <1>8, <1>9, <1>11, <1>12, <1>13

\* What a step of _finish keeps: it changes only the row of its own call.
LEMMA FinishKeeps ==
    ASSUME IInv, NEW r \in Run, pc[r] = "sent", NEW n \in Nat, NEW st \in {"success", "failed"},
           \/ rows' = [rows EXCEPT ![job[r].row].status = st]
           \/ rows' = [rows EXCEPT ![job[r].row].status = st, ![job[r].row].tokens = n],
           UNCHANGED <<day, txn>>,
           pc' \in [Run -> {"idle", "choose", "reserve", "insert", "sent"}],
           pc'[r] \in {"idle", "choose"}, job' \in [Run -> Job],
           \A q \in Run \ {r} : pc'[q] = pc[q] /\ job'[q] = job[q],
           Remembered'
    PROVE  IInv'
<1> DEFINE a == job[r].row
<1>1. a \in Stored /\ \A q \in Run \ {r} : pc[q] = "sent" => job[q].row # a
  BY DEF IInv, CallsReserved
<1>a. /\ st \in {"pending", "success", "failed"}
      /\ \/ rows' = [rows EXCEPT ![a].status = st]
         \/ rows' = [rows EXCEPT ![a].status = st, ![a].tokens = n]
  OBVIOUS
<1> HIDE DEF a
<1>2. /\ rows' \in [Attempt -> Row \cup {NoRow}] /\ Stored' = Stored
      /\ \A d : On(d)' = On(d) /\ Calls(d)' = Calls(d)
      /\ \A b \in Attempt \ {a} : rows'[b] = rows[b]
  <2> USE <1>a, <1>1 DEF IInv
  <2>1. CASE rows' = [rows EXCEPT ![a].status = st]
    BY <2>1, SameDays
  <2>2. CASE rows' = [rows EXCEPT ![a].status = st, ![a].tokens = n]
    BY <2>2, SameDays
  <2> QED  BY <2>1, <2>2
<1> USE DEF a
<1>3. TypeOK'
  BY <1>2 DEF IInv, TypeOK
<1>4. HolderFits' /\ FutureEmpty' /\ CallsWithinBudget'
  BY <1>2 DEF IInv, HolderFits, FutureEmpty, CallsWithinBudget
<1>5. CallsReserved'
  BY <1>1, <1>2 DEF IInv, CallsReserved, Stored
<1> QED  BY <1>3, <1>4, <1>5 DEF IInv

LEMMA AnswerKeeps ==
    ASSUME IInv, NEW r \in Run, NEW usage \in Usages, Answer(r, usage)
    PROVE  IInv'
<1>1. usage \in Nat
  BY BudgetAssumption
<1> QED  BY <1>1, EndKeeps, FinishKeeps DEF Answer

LEMMA FailKeeps == ASSUME IInv, NEW r \in Run, Fail(r) PROVE IInv'
<1>1. CASE End(r)
  BY <1>1, EndKeeps, FinishKeeps DEF Fail
<1>2. CASE Goto(r, "choose") /\ NextProvider(r)
  <2> USE DEF IInv, Fail, Goto, NextProvider
  <2> DEFINE mine == [job[r] EXCEPT !.tried = Append(@, Current(r)), !.chain = Tail(@), !.row = NoRow]
  <2>0. job[r].chain \in Seq(Kind) \ {<<>>} /\ job[r].tried \in Seq(Kind) /\ Current(r) \in Kind
    BY DEF TypeOK, Job, Remembered, Current
  <2> DEFINE past == Append(job[r].tried, Current(r))
             rest == Tail(job[r].chain)
  <2>a. past \in Seq(Kind) /\ rest \in Seq(Kind)
    BY <2>0
  <2>b. mine = [job[r] EXCEPT !.tried = past, !.chain = rest, !.row = NoRow]
    OBVIOUS
  <2>c. \A i \in DOMAIN past : past[i] = "codex" => job[r].codex
    BY <2>0 DEF Remembered
  <2> HIDE DEF past, rest, mine
  <2>1. mine \in Job /\ mine.tried = past /\ mine.codex = job[r].codex
    BY <2>a, <2>b DEF TypeOK, Job
  <2> USE DEF mine
  <2>2. job' = [job EXCEPT ![r] = mine]
    BY <1>2
  <2> HIDE DEF mine
  <2>3. \A i \in DOMAIN mine.tried : mine.tried[i] = "codex" => mine.codex
    BY <2>1, <2>c
  <2>4. Remembered'
    BY <1>2, <2>2, <2>3 DEF TypeOK, Remembered, Current
  <2>5. /\ pc' \in [Run -> {"idle", "choose", "reserve", "insert", "sent"}]
        /\ pc'[r] = "choose" /\ job' \in [Run -> Job]
        /\ \A q \in Run \ {r} : pc'[q] = pc[q] /\ job'[q] = job[q]
    BY <1>2, <2>1, <2>2 DEF TypeOK
  <2> QED  BY <2>4, <2>5, FinishKeeps
<1> QED  BY <1>1, <1>2 DEF Fail

LEMMA Step == IInv /\ [Next]_vars => IInv'
<1> SUFFICES ASSUME IInv, [Next]_vars PROVE IInv'
  OBVIOUS
<1>1. CASE UNCHANGED vars
  BY <1>1, SameRows
  DEF vars, IInv, TypeOK, HolderFits, FutureEmpty, CallsWithinBudget, CallsReserved, Remembered, Current
<1>2. CASE NextDay
  BY <1>2, NextDayKeeps
<1>3. ASSUME NEW r \in Run, Busy(r) \/ Crash(r) PROVE IInv'
  BY <1>3, EndInv DEF Busy, Crash
<1>4. ASSUME NEW r \in Run, Proceed(r) PROVE IInv'
  BY <1>3, <1>4, ChooseKeeps, BeginKeeps, FailKeeps, InsertKeeps, AnswerKeeps DEF Proceed
<1> QED  BY <1>1, <1>2, <1>3, <1>4, StartKeeps DEF Next

LEMMA Inductive == Spec => []IInv
<1> QED  BY Initially, Step, PTL DEF Spec

\* Every row and every operation is always well formed.
THEOREM TypeCorrect == Spec => []TypeOK
<1>1. IInv => TypeOK
  BY DEF IInv
<1> QED  BY <1>1, Inductive, PTL

\* The daily limit of calls holds for every number of processes and across
\* midnight.
THEOREM CallsLimited == Spec => []CallsWithinBudget
<1>1. IInv => CallsWithinBudget
  BY DEF IInv
<1> QED  BY <1>1, Inductive, PTL

\* Every call that is out holds an open reservation of its own.
THEOREM CallsHaveReservations == Spec => []CallsReserved
<1>1. IInv => CallsReserved
  BY DEF IInv
<1> QED  BY <1>1, Inductive, PTL

\* No operation falls back from the Codex subscription to a billed provider.
THEOREM NeverPaidAfterCodex == Spec => []NoPaidFallback
<1>1. IInv => NoPaidFallback
  BY DEF IInv, Remembered, NoPaidFallback
<1> QED  BY <1>1, Inductive, PTL

\* No crash, failure or answer takes a reservation back, moves it to another
\* day or reopens it.
THEOREM Kept == Spec => ReservationsKept
<1> DEFINE Keeps == \A a \in Stored :
              /\ rows'[a] # NoRow
              /\ rows'[a] # NoRow => rows'[a].day = rows[a].day
              /\ rows'[a] # NoRow /\ rows[a].status # "pending" => rows'[a] = rows[a]
<1>1. IInv /\ [Next]_vars => [Keeps]_vars
  <2> SUFFICES ASSUME IInv, Next PROVE Keeps
    OBVIOUS
  <2>1. ASSUME UNCHANGED rows PROVE Keeps
    BY <2>1 DEF Stored
  <2>2. ASSUME NEW r \in Run, NEW a \in Attempt, Insert(r, a) PROVE Keeps
    BY <2>2 DEF Insert, IInv, TypeOK, Stored
  <2>3. ASSUME NEW r \in Run, NEW n \in Nat, NEW st \in {"success", "failed"}, pc[r] = "sent",
               \/ rows' = [rows EXCEPT ![job[r].row].status = st]
               \/ rows' = [rows EXCEPT ![job[r].row].status = st, ![job[r].row].tokens = n]
        PROVE  Keeps
    <3> DEFINE own == job[r].row
    <3>1. own \in Stored /\ rows[own].status = "pending"
      BY <2>3 DEF IInv, CallsReserved
    <3>a. /\ st \in {"pending", "success", "failed"}
          /\ \/ rows' = [rows EXCEPT ![own].status = st]
             \/ rows' = [rows EXCEPT ![own].status = st, ![own].tokens = n]
      BY <2>3
    <3> HIDE DEF own
    <3>2. /\ Stored' = Stored /\ rows'[own].day = rows[own].day
          /\ \A b \in Attempt \ {own} : rows'[b] = rows[b]
      <4> USE <3>1, <3>a DEF IInv
      <4>1. CASE rows' = [rows EXCEPT ![own].status = st]
        BY <4>1, SameDays
      <4>2. CASE rows' = [rows EXCEPT ![own].status = st, ![own].tokens = n]
        BY <4>2, SameDays
      <4> QED  BY <4>1, <4>2
    <3> QED  BY <3>1, <3>2 DEF Stored
  <2>4. ASSUME NEW r \in Run, Fail(r) PROVE Keeps
    BY <2>3, <2>4 DEF Fail
  <2>5. ASSUME NEW r \in Run, NEW usage \in Usages, Answer(r, usage) PROVE Keeps
    <3>1. usage \in Nat
      BY BudgetAssumption
    <3> QED  BY <2>3, <2>5, <3>1 DEF Answer
  <2> HIDE DEF Keeps
  <2> QED
    BY <2>1, <2>2, <2>4, <2>5 DEF Next, Proceed, NextDay, Start, Choose, Begin, Busy, Crash
<1> QED  BY <1>1, Inductive, PTL DEF Spec, ReservationsKept

-----------------------------------------------------------------------------
(***************************************************************************)
(* The sum of the tokens of a set of rows.  MapThenSumSet takes the rows   *)
(* one by one as CHOOSE finds them: that there is a function that does so, *)
(* and that the order does not matter, is shown with a counterexample of   *)
(* the fewest rows.                                                        *)
(***************************************************************************)
LEMMA LeastNumber ==
    ASSUME NEW S \in SUBSET Nat, S # {}
    PROVE  \E m \in S : \A j \in S : m <= j
<1> DEFINE R == OpToRel(<, Nat)
<1>1. IsWellFoundedOn(R, Nat)
  BY NatLessThanWellFounded
<1>2. PICK m \in S : \A j \in S : ~ (<<j, m>> \in R)
  <2> HIDE DEF R
  <2> QED  BY <1>1, WFMin
<1>3. \A j \in S : ~(j < m)
  BY <1>2 DEF OpToRel
<1> QED  BY <1>3

Chosen(s) == CHOOSE x \in s : TRUE

\* The function f adds up s as MapThenSumSet does.
Adds(table, f, s) ==
    f[s] = IF s = {} THEN 0 ELSE table[Chosen(s)].tokens + f[s \ {Chosen(s)}]

Totals(table, S, f) ==
    f = [s \in SUBSET S |-> IF s = {} THEN 0 ELSE table[CHOOSE x \in s : TRUE].tokens + f[s \ {CHOOSE x \in s : TRUE}]]

Total(table, S) == (CHOOSE f : Totals(table, S, f))[S]

LEMMA TokensTotal == \A d : Tokens(d) = Total(rows, On(d))
  BY DEF Tokens, MapThenSumSet, MapThenFoldSet, Total, Totals

LEMMA Smaller ==
    ASSUME NEW S, IsFiniteSet(S), NEW s \in SUBSET S, s # {}
    PROVE  /\ Chosen(s) \in s
           /\ \A x \in s : /\ s \ {x} \in SUBSET S /\ Cardinality(s) \in Nat /\ Cardinality(s \ {x}) \in Nat
                           /\ Cardinality(s \ {x}) = Cardinality(s) - 1
<1>1. IsFiniteSet(s)
  BY FS_Subset
<1>2. \A x \in s : IsFiniteSet(s \ {x}) /\ Cardinality(s \ {x}) = Cardinality(s) - 1
  BY <1>1, FS_RemoveElement
<1>3. Cardinality(s) \in Nat /\ \A x \in s : Cardinality(s \ {x}) \in Nat
  BY <1>1, <1>2, FS_CardinalityType
<1>4. Chosen(s) \in s
  BY DEF Chosen
<1> QED  BY <1>2, <1>3, <1>4

\* There is such a function: one that adds up the sets of n rows gives one for
\* those of one row more.
LEMMA TotalsExist ==
    ASSUME NEW table, NEW S, IsFiniteSet(S)
    PROVE  \E f : Totals(table, S, f)
<1> DEFINE Up(n, f) == f \in [SUBSET S -> {f[s] : s \in SUBSET S}]
                       /\ \A s \in SUBSET S : Cardinality(s) <= n => Adds(table, f, s)
           Bad == {n \in Nat : ~ \E f : Up(n, f)}
<1>1. Bad = {}
  <2> SUFFICES ASSUME Bad # {} PROVE FALSE
    OBVIOUS
  <2>1. PICK n \in Bad : \A j \in Bad : n <= j
    <3>1. Bad \in SUBSET Nat
      OBVIOUS
    <3> HIDE DEF Bad
    <3> QED  BY <3>1, LeastNumber
  <2>2. n # 0
    <3> DEFINE zero == [s \in SUBSET S |-> 0]
    <3>1. \A s \in SUBSET S : Cardinality(s) <= 0 => s = {}
      <4> TAKE s \in SUBSET S
      <4>1. IsFiniteSet(s)
        BY FS_Subset
      <4> QED  BY <4>1, FS_EmptySet, FS_CardinalityType
    <3>2. Up(0, zero)
      BY <3>1 DEF Adds
    <3> QED  BY <3>2
  <2>3. n \in Nat /\ n - 1 \in Nat /\ n - 1 \notin Bad
    <3>1. n \in Nat
      BY <2>1
    <3>2. n - 1 \in Nat /\ ~(n <= n - 1)
      BY <2>2, <3>1
    <3> HIDE DEF Bad
    <3> QED  BY <2>1, <3>1, <3>2
  <2>4. PICK f : Up(n - 1, f)
    BY <2>3
  <2> DEFINE g == [s \in SUBSET S |-> IF s = {} THEN 0 ELSE table[Chosen(s)].tokens + f[s \ {Chosen(s)}]]
  <2>5. \A s \in SUBSET S : Cardinality(s) <= n - 1 => g[s] = f[s]
    BY <2>4 DEF Adds
  <2>6. ASSUME NEW s \in SUBSET S, Cardinality(s) <= n PROVE Adds(table, g, s)
    <3>1. CASE s = {}
      BY <3>1 DEF Adds
    <3>2. CASE s # {}
      <4>1. /\ s \ {Chosen(s)} \in SUBSET S /\ Cardinality(s \ {Chosen(s)}) = Cardinality(s) - 1
            /\ Cardinality(s) \in Nat
        BY <3>2, Smaller
      <4>2. g[s \ {Chosen(s)}] = f[s \ {Chosen(s)}]
        <5>1. Cardinality(s \ {Chosen(s)}) <= n - 1
          BY <2>3, <2>6, <4>1
        <5> HIDE DEF g
        <5> QED  BY <2>5, <4>1, <5>1
      <4>3. g[s] = table[Chosen(s)].tokens + f[s \ {Chosen(s)}]
        BY <3>2
      <4> QED  BY <3>2, <4>2, <4>3 DEF Adds
    <3> QED  BY <3>1, <3>2
  <2>7. Up(n, g)
    BY <2>6
  <2> QED  BY <2>1, <2>7
<1>2. Cardinality(S) \in Nat
  BY FS_CardinalityType
<1>3. PICK f : Up(Cardinality(S), f)
  BY <1>1, <1>2
<1>4. \A s \in SUBSET S : Adds(table, f, s)
  <2> TAKE s \in SUBSET S
  <2>1. Cardinality(s) <= Cardinality(S)
    BY FS_Subset
  <2> QED  BY <1>3, <2>1
<1>5. f = [s \in SUBSET S |-> f[s]]
  BY <1>3
<1>6. Totals(table, S, f)
  BY <1>4, <1>5 DEF Totals, Adds, Chosen
<1> QED  BY <1>6

LEMMA TotalAdds ==
    ASSUME NEW table, NEW S, IsFiniteSet(S)
    PROVE  \E f : Total(table, S) = f[S] /\ \A s \in SUBSET S : Adds(table, f, s)
<1> DEFINE f == CHOOSE f : Totals(table, S, f)
<1>1. Totals(table, S, f)
  BY TotalsExist
<1>2. \A s \in SUBSET S : Adds(table, f, s)
  BY <1>1 DEF Totals, Adds, Chosen
<1>3. Total(table, S) = f[S]
  BY DEF Total
<1> QED  BY <1>2, <1>3

\* The sum is a number, and any row may be the last that is added.
LEMMA AnyOrder ==
    ASSUME NEW table, NEW S, IsFiniteSet(S), \A a \in S : table[a].tokens \in Nat,
           NEW f, \A s \in SUBSET S : Adds(table, f, s)
    PROVE  \A s \in SUBSET S : f[s] \in Nat /\ \A x \in s : f[s] = table[x].tokens + f[s \ {x}]
<1> DEFINE Right(s) == f[s] \in Nat /\ \A x \in s : f[s] = table[x].tokens + f[s \ {x}]
           Bad == {Cardinality(s) : s \in {t \in SUBSET S : ~Right(t)}}
<1>1. ASSUME NEW s0 \in SUBSET S, ~Right(s0) PROVE FALSE
  <2>1. \A s \in SUBSET S : Cardinality(s) \in Nat
    BY FS_Subset, FS_CardinalityType
  <2>2. PICK n \in Bad : \A j \in Bad : n <= j
    <3>1. Bad \in SUBSET Nat
      BY <2>1
    <3>2. Bad # {}
      BY <1>1
    <3> HIDE DEF Bad
    <3> QED  BY <3>1, <3>2, LeastNumber
  <2>3. PICK s \in SUBSET S : ~Right(s) /\ n = Cardinality(s)
    OBVIOUS
  <2>4. \A t \in SUBSET S : Cardinality(t) < Cardinality(s) => Right(t)
    <3> TAKE t \in SUBSET S
    <3>1. ~Right(t) => Cardinality(t) \in Bad
      OBVIOUS
    <3> HIDE DEF Right, Bad
    <3> QED  BY <2>1, <2>2, <2>3, <3>1
  <2>5. CASE s = {}
    <3>1. f[s] = 0
      BY <2>5 DEF Adds
    <3>2. Right(s)
      BY <2>5, <3>1
    <3> QED  BY <2>3, <3>2
  <2>6. CASE s # {}
    <3> DEFINE c == Chosen(s)
    <3>1. /\ c \in s /\ s \ {c} \in SUBSET S /\ Cardinality(s) \in Nat
          /\ \A x \in s : s \ {x} \in SUBSET S /\ Cardinality(s \ {x}) = Cardinality(s) - 1
      BY <2>6, Smaller
    <3>2. \A x \in s : Right(s \ {x})
      <4> HIDE DEF Right, c
      <4> QED  BY <2>4, <3>1
    <3>3. f[s] = table[c].tokens + f[s \ {c}]
      BY <2>6 DEF Adds
    <3>4. table[c].tokens \in Nat /\ f[s \ {c}] \in Nat
      BY <3>1, <3>2
    <3>5. ASSUME NEW x \in s PROVE f[s] = table[x].tokens + f[s \ {x}]
      <4>1. CASE x = c
        BY <3>3, <4>1
      <4>2. CASE x # c
        <5>1. x \in s \ {c} /\ c \in s \ {x} /\ (s \ {c}) \ {x} = (s \ {x}) \ {c}
          BY <3>1, <4>2
        <5>2. f[s \ {c}] = table[x].tokens + f[(s \ {c}) \ {x}]
          BY <3>1, <3>2, <5>1
        <5>3. f[s \ {x}] = table[c].tokens + f[(s \ {x}) \ {c}]
          BY <3>1, <3>2, <5>1
        <5>4. f[(s \ {x}) \ {c}] \in Nat
          <6>1. (s \ {x}) \ {c} \in SUBSET S /\ Cardinality((s \ {x}) \ {c}) < Cardinality(s)
            <7>1. s \ {x} \in SUBSET S /\ s \ {x} # {} /\ Cardinality(s \ {x}) = Cardinality(s) - 1
              BY <3>1, <5>1
            <7>2. Cardinality((s \ {x}) \ {c}) = Cardinality(s \ {x}) - 1
              <8> HIDE DEF c
              <8> QED  BY <5>1, <7>1, Smaller
            <7> QED  BY <3>1, <7>1, <7>2
          <6>2. Right((s \ {x}) \ {c})
            <7> HIDE DEF Right, c
            <7> QED  BY <2>4, <6>1
          <6> QED  BY <6>2
        <5>5. table[x].tokens \in Nat /\ table[c].tokens \in Nat
          BY <3>1
        <5> DEFINE rest == f[(s \ {x}) \ {c}]
                   tx == table[x].tokens
                   tc == table[c].tokens
        <5>6. f[s \ {c}] = tx + rest /\ f[s \ {x}] = tc + rest /\ rest \in Nat /\ tx \in Nat /\ tc \in Nat
          BY <5>1, <5>2, <5>3, <5>4, <5>5
        <5>7. f[s] = tc + f[s \ {c}]
          BY <3>3
        <5> HIDE DEF rest, tx, tc
        <5>8. f[s] = tx + f[s \ {x}]
          BY <5>6, <5>7
        <5> QED  BY <5>8 DEF tx
      <4> QED  BY <4>1, <4>2
    <3>6. f[s] \in Nat
      BY <3>3, <3>4
    <3> QED  BY <2>3, <3>5, <3>6
  <2> QED  BY <2>5, <2>6
<1> QED  BY <1>1

\* Tables that agree on a set of rows have the same sum, whatever they are
\* part of.
LEMMA SameSum ==
    ASSUME NEW table, NEW other, NEW S, IsFiniteSet(S), NEW T, IsFiniteSet(T),
           NEW f, \A s \in SUBSET S : Adds(table, f, s),
           NEW g, \A s \in SUBSET T : Adds(other, g, s),
           NEW u \in SUBSET S, u \in SUBSET T, \A a \in u : table[a].tokens = other[a].tokens
    PROVE  f[u] = g[u]
<1> DEFINE Bad == {Cardinality(s) : s \in {t \in SUBSET u : f[t] # g[t]}}
<1>0. IsFiniteSet(u)
  BY FS_Subset
<1>1. ASSUME f[u] # g[u] PROVE FALSE
  <2>1. \A s \in SUBSET u : Cardinality(s) \in Nat
    BY <1>0, FS_Subset, FS_CardinalityType
  <2>2. PICK n \in Bad : \A j \in Bad : n <= j
    <3>1. Bad \in SUBSET Nat
      BY <2>1
    <3>2. Bad # {}
      BY <1>1
    <3> HIDE DEF Bad
    <3> QED  BY <3>1, <3>2, LeastNumber
  <2>3. PICK s \in SUBSET u : f[s] # g[s] /\ n = Cardinality(s)
    OBVIOUS
  <2>4. \A t \in SUBSET u : Cardinality(t) < Cardinality(s) => f[t] = g[t]
    <3> TAKE t \in SUBSET u
    <3>1. f[t] # g[t] => Cardinality(t) \in Bad
      OBVIOUS
    <3> HIDE DEF Bad
    <3> QED  BY <2>1, <2>2, <2>3, <3>1
  <2>5. s \in SUBSET S /\ s \in SUBSET T
    OBVIOUS
  <2>6. Adds(table, f, s) /\ Adds(other, g, s)
    BY <2>5
  <2>7. CASE s = {}
    BY <2>3, <2>6, <2>7 DEF Adds
  <2>8. CASE s # {}
    <3>1. /\ Chosen(s) \in s /\ s \ {Chosen(s)} \in SUBSET u
          /\ Cardinality(s \ {Chosen(s)}) = Cardinality(s) - 1 /\ Cardinality(s) \in Nat
      BY <1>0, <2>8, Smaller
    <3>2. f[s \ {Chosen(s)}] = g[s \ {Chosen(s)}]
      BY <2>4, <3>1
    <3>3. table[Chosen(s)].tokens = other[Chosen(s)].tokens
      BY <3>1
    <3> QED  BY <2>3, <2>6, <2>8, <3>2, <3>3 DEF Adds
  <2> QED  BY <2>7, <2>8
<1> QED  BY <1>1

\* What is known of sums: none of no rows, one more with one more row.
LEMMA TotalEmpty == \A table : Total(table, {}) = 0
<1> TAKE table
<1>1. PICK f : Total(table, {}) = f[{}] /\ \A s \in SUBSET {} : Adds(table, f, s)
  BY FS_EmptySet, TotalAdds
<1> QED  BY <1>1 DEF Adds

LEMMA TotalType ==
    ASSUME NEW table, NEW S, IsFiniteSet(S), \A a \in S : table[a].tokens \in Nat
    PROVE  Total(table, S) \in Nat
<1>1. PICK f : Total(table, S) = f[S] /\ \A s \in SUBSET S : Adds(table, f, s)
  BY TotalAdds
<1> QED  BY <1>1, AnyOrder

LEMMA TotalOneMore ==
    ASSUME NEW table, NEW other, NEW S, IsFiniteSet(S), NEW a, a \notin S,
           \A b \in S : table[b].tokens \in Nat /\ other[b].tokens = table[b].tokens,
           other[a].tokens \in Nat
    PROVE  Total(other, S \cup {a}) = Total(table, S) + other[a].tokens
<1> DEFINE T == S \cup {a}
<1>1. IsFiniteSet(T)
  BY FS_AddElement
<1>2. PICK f : Total(table, S) = f[S] /\ \A s \in SUBSET S : Adds(table, f, s)
  BY TotalAdds
<1>3. PICK g : Total(other, T) = g[T] /\ \A s \in SUBSET T : Adds(other, g, s)
  <2> HIDE DEF T
  <2> QED  BY <1>1, TotalAdds
<1>4. \A b \in T : other[b].tokens \in Nat
  OBVIOUS
<1>5. g[T] = other[a].tokens + g[T \ {a}]
  <2>1. a \in T
    OBVIOUS
  <2> HIDE DEF T
  <2> QED  BY <1>1, <1>3, <1>4, <2>1, AnyOrder
<1>6. T \ {a} = S /\ S \in SUBSET T
  OBVIOUS
<1>7. f[S] = g[S]
  <2> HIDE DEF T
  <2> QED  BY <1>1, <1>2, <1>3, <1>6, SameSum
<1>8. f[S] \in Nat
  BY <1>2, AnyOrder
<1>9. Total(other, T) = other[a].tokens + f[S]
  BY <1>3, <1>5, <1>6, <1>7
<1> QED  BY <1>2, <1>8, <1>9

-----------------------------------------------------------------------------
(***************************************************************************)
(* The daily limit of tokens: the holder of the transaction still fits     *)
(* into the tokens of the day it is now, and takes no more when it         *)
(* inserts.                                                                *)
(***************************************************************************)
LEMMA TokensThen == \A d : Tokens(d)' = Total(rows', On(d)')
  BY DEF Tokens, MapThenSumSet, MapThenFoldSet, Total, Totals

LEMMA TokensType == ASSUME TypeOK PROVE \A d : Tokens(d) \in Nat
<1> TAKE d
<1>1. IsFiniteSet(On(d)) /\ \A a \in On(d) : rows[a].tokens \in Nat
  <2>1. \A a \in On(d) : rows[a] \in Row
    BY DEF On, Stored, TypeOK
  <2> QED  BY <2>1, OnFinite DEF Row
<1> QED  BY <1>1, TokensTotal, TotalType

\* Whoever is about to insert fits into the tokens of the day it is now: it
\* compared them inside the transaction, and after midnight there are none.
HolderPays == \A r \in Run : pc[r] = "insert" => Tokens(day) + job[r].need <= DailyTokens

LEMMA PaysStep == IInv /\ HolderPays /\ [Next]_vars => HolderPays'
<1> SUFFICES ASSUME IInv, HolderPays, [Next]_vars, NEW q \in Run, pc'[q] = "insert"
             PROVE  Tokens(day)' + job'[q].need <= DailyTokens
  BY DEF HolderPays
<1>1. ASSUME UNCHANGED <<day, rows>>, pc[q] = "insert", job'[q] = job[q]
      PROVE  Tokens(day)' + job'[q].need <= DailyTokens
  <2>1. Tokens(day)' = Total(rows', On(day)')
    BY TokensThen
  <2>2. On(day)' = On(day)
    BY <1>1 DEF On, Stored
  <2>3. Tokens(day)' = Tokens(day)
    BY <1>1, <2>1, <2>2, TokensTotal
  <2> QED  BY <1>1, <2>3 DEF HolderPays
<1>2. CASE UNCHANGED vars
  BY <1>1, <1>2 DEF vars
<1>3. CASE NextDay
  <2>1. pc[q] = "insert" /\ job'[q] = job[q] /\ UNCHANGED rows
    BY <1>3 DEF NextDay
  <2>2. On(day)' = {}
    <3>1. day' \in Day /\ day' > day
      BY <1>3, BudgetAssumption DEF NextDay, IInv, TypeOK, Day
    <3>2. On(day') = {}
      BY <3>1 DEF IInv, FutureEmpty
    <3>3. On(day)' = On(day')
      BY <2>1 DEF On, Stored
    <3> QED  BY <3>2, <3>3
  <2>3. Tokens(day)' = 0
    BY <2>2, TokensThen, TotalEmpty
  <2>4. Tokens(day) \in Nat /\ job[q].need \in Nat /\ DailyTokens \in Nat
    <3>1. TypeOK /\ job[q] \in Job
      BY DEF IInv, TypeOK
    <3> QED  BY <3>1, TokensType, BudgetAssumption DEF Job
  <2>5. Tokens(day) + job[q].need <= DailyTokens
    BY <2>1 DEF HolderPays
  <2> QED  BY <2>1, <2>3, <2>4, <2>5
<1>4. ASSUME NEW r \in Run, Busy(r) \/ Crash(r) PROVE Tokens(day)' + job'[q].need <= DailyTokens
  <2>1. End(r) /\ UNCHANGED <<day, rows>>
    BY <1>4 DEF Busy, Crash
  <2>2. q # r /\ pc[q] = "insert" /\ job'[q] = job[q]
    BY <2>1, EndKeeps
  <2> QED  BY <1>1, <2>1, <2>2
<1>5. ASSUME NEW r \in Run, NEW route \in Routes, NEW estimate \in Estimates, Start(r, route, estimate)
      PROVE  Tokens(day)' + job'[q].need <= DailyTokens
  BY <1>1, <1>5 DEF Start, Goto, IInv, TypeOK
<1>6. ASSUME NEW r \in Run, Choose(r) PROVE Tokens(day)' + job'[q].need <= DailyTokens
  <2>1. UNCHANGED <<day, rows>> /\ pc'[r] # "insert" /\ \A t \in Run \ {r} : pc'[t] = pc[t] /\ job'[t] = job[t]
    BY <1>6, EndKeeps DEF Choose, Goto, IInv, TypeOK
  <2> QED  BY <1>1, <2>1
<1>7. ASSUME NEW r \in Run, Begin(r) PROVE Tokens(day)' + job'[q].need <= DailyTokens
  <2>1. CASE ~Fits(r)
    <3>1. End(r) /\ UNCHANGED <<day, rows>>
      BY <1>7, <2>1 DEF Begin
    <3>2. q # r /\ pc[q] = "insert" /\ job'[q] = job[q]
      BY <3>1, EndKeeps
    <3> QED  BY <1>1, <3>1, <3>2
  <2>2. CASE Fits(r)
    <3>1. UNCHANGED <<day, rows, job>> /\ pc' = [pc EXCEPT ![r] = "insert"]
      BY <1>7, <2>2 DEF Begin, Goto
    <3>2. CASE q = r
      <4>1. On(day)' = On(day)
        BY <3>1 DEF On, Stored
      <4>2. Tokens(day)' = Tokens(day)
        BY <3>1, <4>1, TokensThen, TokensTotal
      <4>3. Tokens(day) + job[r].need <= DailyTokens
        BY <2>2 DEF Fits
      <4> QED  BY <3>1, <3>2, <4>2, <4>3
    <3>3. CASE q # r
      BY <1>1, <3>1, <3>3 DEF IInv, TypeOK
    <3> QED  BY <3>2, <3>3
  <2> QED  BY <2>1, <2>2
\* While a call is finished or inserted nobody else is about to insert.
<1>8. ASSUME NEW r \in Run, NEW a \in Attempt, Insert(r, a) PROVE FALSE
  <2>1. pc[r] = "insert" /\ pc' = [pc EXCEPT ![r] = "sent"]
    BY <1>8 DEF Insert, Goto
  <2>2. q # r /\ pc[q] = "insert"
    BY <2>1 DEF IInv, TypeOK
  <2> QED  BY <2>1, <2>2 DEF IInv, HolderFits
<1>9. ASSUME NEW r \in Run, Fail(r) \/ (\E usage \in Usages : Answer(r, usage)) PROVE FALSE
  <2>1. txn = NoRun /\ (Goto(r, "choose") \/ Goto(r, "idle"))
    BY <1>9 DEF Fail, Answer, End
  <2>2. pc[q] = "insert"
    BY <2>1 DEF Goto, IInv, TypeOK
  <2> QED  BY <2>1, <2>2, BudgetAssumption DEF IInv, HolderFits
<1>10. CASE Next
  BY <1>3, <1>4, <1>5, <1>6, <1>7, <1>8, <1>9, <1>10 DEF Next, Proceed
<1> QED  BY <1>2, <1>10

\* What a step adds to a day is within its tokens.
LEMMA PaidStep ==
    ASSUME IInv, HolderPays, [Next]_vars, NEW d \in Day, Calls(d)' > Calls(d)
    PROVE  Tokens(d)' <= DailyTokens
<1>0. Calls(d) \in Nat
  BY OnFinite
<1>1. ~UNCHANGED rows
  BY <1>0, SameRows
<1>2. ASSUME NEW r \in Run, NEW n \in Nat, NEW st \in {"success", "failed"}, pc[r] = "sent",
             \/ rows' = [rows EXCEPT ![job[r].row].status = st]
             \/ rows' = [rows EXCEPT ![job[r].row].status = st, ![job[r].row].tokens = n]
      PROVE  FALSE
  <2> DEFINE own == job[r].row
  <2>1. own \in Stored
    BY <1>2 DEF IInv, CallsReserved
  <2>2. /\ st \in {"pending", "success", "failed"}
        /\ \/ rows' = [rows EXCEPT ![own].status = st]
           \/ rows' = [rows EXCEPT ![own].status = st, ![own].tokens = n]
    BY <1>2
  <2> HIDE DEF own
  <2>3. Calls(d)' = Calls(d)
    <3> USE <2>1, <2>2 DEF IInv
    <3>1. CASE rows' = [rows EXCEPT ![own].status = st]
      BY <3>1, SameDays
    <3>2. CASE rows' = [rows EXCEPT ![own].status = st, ![own].tokens = n]
      BY <3>2, SameDays
    <3> QED  BY <3>1, <3>2
  <2> QED  BY <1>0, <2>3
<1>3. ASSUME NEW r \in Run, Fail(r) PROVE FALSE
  BY <1>2, <1>3 DEF Fail
<1>4. ASSUME NEW r \in Run, NEW usage \in Usages, Answer(r, usage) PROVE FALSE
  <2>1. usage \in Nat
    BY BudgetAssumption
  <2> QED  BY <1>2, <1>4, <2>1 DEF Answer
<1>5. ASSUME NEW r \in Run, NEW a \in Attempt, Insert(r, a) PROVE Tokens(d)' <= DailyTokens
  <2> DEFINE new == [day |-> day, tokens |-> job[r].need, status |-> "pending"]
  <2>1. /\ rows' = [rows EXCEPT ![a] = new] /\ rows[a] = NoRow /\ pc[r] = "insert"
        /\ rows \in [Attempt -> Row \cup {NoRow}]
    BY <1>5 DEF Insert, IInv, TypeOK
  <2>2. new \in Row /\ new.day = day /\ new.tokens = job[r].need /\ job[r].need \in Nat
    BY DEF IInv, TypeOK, Job, Row
  <2> HIDE DEF new
  <2>3. a \notin Stored /\ Stored' = Stored \cup {a} /\ rows'[a] = new
        /\ \A b \in Stored : b # a /\ rows'[b] = rows[b]
    BY <2>1, <2>2, NoRowAssumption DEF Stored
  <2>4. \A e : e # day => On(e)' = On(e)
    BY <2>2, <2>3 DEF On
  <2>5. d = day
    BY <1>0, <2>4 DEF Calls
  <2>6. a \notin On(day)
    BY <2>3 DEF On
  <2>7. \A b \in On(day) : rows[b].tokens \in Nat /\ rows'[b].tokens = rows[b].tokens
    <3>1. \A b \in On(day) : rows[b] \in Row /\ rows'[b] = rows[b]
      BY <2>1, <2>3 DEF On, Stored
    <3> QED  BY <3>1 DEF Row
  <2>8. Total(rows', On(day) \cup {a}) = Total(rows, On(day)) + rows'[a].tokens
    BY <2>2, <2>3, <2>6, <2>7, OnFinite, TotalOneMore
  <2>9. Tokens(d)' = Tokens(day) + job[r].need
    <3>1. Tokens(d)' = Total(rows', On(d)')
      BY TokensThen
    <3>2. On(d)' = On(day) \cup {a}
      <4>1. \A b : b \in On(d)' <=> b \in Stored' /\ rows'[b].day = d
        BY DEF On
      <4>2. \A b : b \in On(day) <=> b \in Stored /\ rows[b].day = day
        BY DEF On
      <4> QED  BY <2>2, <2>3, <2>5, <4>1, <4>2
    <3> QED  BY <2>2, <2>3, <2>8, <3>1, <3>2, TokensTotal
  <2>10. Tokens(day) + job[r].need <= DailyTokens
    BY <2>1 DEF HolderPays
  <2> QED  BY <2>9, <2>10
<1> QED
  BY <1>1, <1>3, <1>4, <1>5 DEF vars, Next, Proceed, NextDay, Start, Choose, Begin, Busy, Crash

\* No reservation takes a day over its tokens, for any number of processes and
\* across midnight, whatever providers reported for earlier calls (_reserve).
THEOREM TokensLimited == Spec => TokensWithinBudget
<1>1. Init => HolderPays
  BY DEF Init, HolderPays
<1>2. IInv /\ HolderPays /\ [Next]_vars => [\A d \in Day : Calls(d)' > Calls(d) => Tokens(d)' <= DailyTokens]_vars
  BY PaidStep
<1>3. IInv /\ HolderPays /\ [Next]_vars => HolderPays'
  BY PaysStep
<1> QED  BY <1>1, <1>2, <1>3, Inductive, PTL DEF Spec, TokensWithinBudget
=============================================================================
