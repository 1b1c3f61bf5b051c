--------------------------- MODULE ProviderBudget ---------------------------
(***************************************************************************)
(* providers.py: an operation tries its providers in order, and before     *)
(* each call it reserves budget as a row of runtime.sqlite.  Processes     *)
(* share the database: the limit check and the insertion are one           *)
(* transaction (BEGIN IMMEDIATE), the update after the call is another.    *)
(* Midnight (UTC) can fall anywhere, between those two reads of the clock  *)
(* of one reservation included.                                            *)
(*                                                                         *)
(* Tokens stand for every metered amount: the dollar limit is a second     *)
(* check of the same form.  All processes run with the same limits.        *)
(***************************************************************************)
EXTENDS Naturals, Sequences, FiniteSets, FiniteSetsExt

CONSTANTS
    Run,         \* processes that execute an operation
    Attempt,     \* row ids of provider_attempts
    Routes,      \* the routes configured: primary and fallbacks, by provider kind
    Estimates,   \* tokens an operation may reserve for a call
    Usages,      \* token counts a provider may report
    DailyCalls, DailyTokens,
    LastDay,     \* bound: the last day of a behaviour
    NoRun, NoRow

Kind == {"codex", "local", "paid"}
Day == 0 .. LastDay

ASSUME BudgetAssumption ==
    /\ DailyCalls \in Nat \ {0} /\ DailyTokens \in Nat \ {0}
    /\ LastDay \in Nat
    /\ Routes \subseteq Seq(Kind) \ {<<>>}
    /\ Estimates \subseteq Nat /\ Usages \subseteq Nat
    /\ NoRun \notin Run
    /\ IsFiniteSet(Attempt) /\ Attempt \subseteq Nat

Row == [day : Day, tokens : Nat, status : {"pending", "success", "failed"}]

ASSUME NoRowAssumption == NoRow \notin Row

\* What an operation keeps while it runs: the providers it has not tried, the
\* current one first; those it tried; codex_seen; the tokens it reserves for a
\* call; the row of its current call.
Job == [chain : Seq(Kind), tried : Seq(Kind), codex : BOOLEAN, need : Nat,
        row : Attempt \cup {NoRow}]

NewJob(route, estimate) ==
    [chain |-> route, tried |-> <<>>, codex |-> FALSE, need |-> estimate,
     row |-> NoRow]

NoJob == NewJob(<<>>, 0)

VARIABLES
    day,     \* the current UTC day
    rows,    \* provider_attempts
    txn,     \* the run that holds the database's write transaction
    pc,      \* how far each run is
    job      \* its operation

vars == <<day, rows, txn, pc, job>>

TypeOK ==
    /\ day \in Day
    /\ rows \in [Attempt -> Row \cup {NoRow}]
    /\ txn \in Run \cup {NoRun}
    /\ pc \in [Run -> {"idle", "choose", "reserve", "insert", "sent"}]
    /\ job \in [Run -> Job]

Init ==
    /\ day = 0
    /\ rows = [a \in Attempt |-> NoRow]
    /\ txn = NoRun
    /\ pc = [r \in Run |-> "idle"]
    /\ job = [r \in Run |-> NoJob]

Stored == {a \in Attempt : rows[a] # NoRow}
On(d) == {a \in Stored : rows[a].day = d}
Calls(d) == Cardinality(On(d))
Tokens(d) == MapThenSumSet(LAMBDA a : rows[a].tokens, On(d))

Goto(r, step) == pc' = [pc EXCEPT ![r] = step]

\* The operation returns or raises.
End(r) == Goto(r, "idle") /\ job' = [job EXCEPT ![r] = NoJob]

NextDay ==
    /\ day < LastDay
    /\ day' = day + 1
    /\ UNCHANGED <<rows, txn, pc, job>>

-----------------------------------------------------------------------------

Start(r, route, estimate) ==
    /\ pc[r] = "idle"
    /\ Goto(r, "choose")
    /\ job' = [job EXCEPT ![r] = NewJob(route, estimate)]
    /\ UNCHANGED <<day, rows, txn>>

Current(r) == Head(job[r].chain)

\* Mutant: only the provider just before counts.
ChooseForgetsCodex(r) ==
    /\ pc[r] = "choose"
    /\ IF job[r].chain = <<>> \/ (job[r].codex /\ Current(r) = "paid")
       THEN End(r)
       ELSE /\ Goto(r, "reserve")
            /\ job' = [job EXCEPT ![r].codex = Current(r) = "codex"]
    /\ UNCHANGED <<day, rows, txn>>

\* The next provider of the route.  After a Codex subscription, a provider
\* that is billed ends the operation; so does the end of the route.
Choose(r) ==
    /\ pc[r] = "choose"
    /\ IF job[r].chain = <<>> \/ (job[r].codex /\ Current(r) = "paid")
       THEN End(r)
       ELSE /\ Goto(r, "reserve")
            /\ job' = [job EXCEPT ![r].codex = @ \/ Current(r) = "codex"]
    /\ UNCHANGED <<day, rows, txn>>

\* Mutant: a token over is let through.
FitsAlmost(r) ==
    /\ Calls(day) + 1 <= DailyCalls
    /\ Tokens(day) + job[r].need <= DailyTokens + 1

Fits(r) ==
    /\ Calls(day) + 1 <= DailyCalls
    /\ Tokens(day) + job[r].need <= DailyTokens

\* Mutant: a deferred BEGIN takes no lock for the read.
BeginDeferred(r) ==
    /\ pc[r] = "reserve"
    /\ IF Fits(r)
       THEN txn' = r /\ Goto(r, "insert") /\ UNCHANGED job
       ELSE End(r) /\ UNCHANGED txn
    /\ UNCHANGED <<day, rows>>

\* Mutant: the caller waits for the budget instead of failing.
BeginWaits(r) ==
    /\ pc[r] = "reserve"
    /\ txn = NoRun
    /\ IF Fits(r)
       THEN txn' = r /\ Goto(r, "insert") /\ UNCHANGED job
       ELSE UNCHANGED <<txn, pc, job>>
    /\ UNCHANGED <<day, rows>>

\* BEGIN IMMEDIATE, _totals of today and the checks against the limits;
\* BudgetExceeded rolls the transaction back and ends the operation.
Begin(r) ==
    /\ pc[r] = "reserve"
    /\ txn = NoRun
    /\ IF Fits(r)
       THEN txn' = r /\ Goto(r, "insert") /\ UNCHANGED job
       ELSE End(r) /\ UNCHANGED txn
    /\ UNCHANGED <<day, rows>>

\* The database stays locked for the five seconds of its timeout.
Busy(r) ==
    /\ pc[r] \in {"reserve", "sent"}
    /\ txn # NoRun
    /\ End(r)
    /\ UNCHANGED <<day, rows, txn>>

\* The new row is dated when it is inserted, under the next row id; then the
\* transaction commits.
Insert(r, a) ==
    /\ pc[r] = "insert"
    /\ rows[a] = NoRow /\ \A b \in Attempt : b < a => rows[b] # NoRow
    /\ rows' = [rows EXCEPT ![a] = [day |-> day, tokens |-> job[r].need, status |-> "pending"]]
    /\ job' = [job EXCEPT ![r].row = a]
    /\ txn' = NoRun
    /\ Goto(r, "sent")
    /\ UNCHANGED day

\* _finish with success: the reported usage replaces the reservation, which
\* stays when the provider reported nothing usable.
Answer(r, usage) ==
    /\ pc[r] = "sent"
    /\ txn = NoRun
    /\ \/ rows' = [rows EXCEPT ![job[r].row].status = "success", ![job[r].row].tokens = usage]
       \/ rows' = [rows EXCEPT ![job[r].row].status = "success"]
    /\ End(r)
    /\ UNCHANGED <<day, txn>>

\* What a failed call leaves for the next provider of the route.
NextProvider(r) ==
    job' = [job EXCEPT ![r].tried = Append(@, Current(r)), ![r].chain = Tail(@), ![r].row = NoRow]

\* _finish with failure keeps the reservation; a failure that may be retried
\* goes on to the next provider, any other ends the operation.
Fail(r) ==
    /\ pc[r] = "sent"
    /\ txn = NoRun
    /\ rows' = [rows EXCEPT ![job[r].row].status = "failed"]
    /\ \/ Goto(r, "choose") /\ NextProvider(r)
       \/ End(r)
    /\ UNCHANGED <<day, txn>>

\* The process dies: an open transaction is rolled back, a row stays pending.
Crash(r) ==
    /\ pc[r] # "idle"
    /\ End(r)
    /\ txn' = IF txn = r THEN NoRun ELSE txn
    /\ UNCHANGED <<day, rows>>

Proceed(r) ==
    \/ Choose(r) \/ Begin(r) \/ Busy(r) \/ Fail(r)
    \/ \E a \in Attempt : Insert(r, a)
    \/ \E usage \in Usages : Answer(r, usage)

Next ==
    \/ NextDay
    \/ \E r \in Run :
          \/ Proceed(r) \/ Crash(r)
          \/ \E route \in Routes, estimate \in Estimates : Start(r, route, estimate)

Spec == Init /\ [][Next]_vars

\* A process in an operation keeps running; every wait has a deadline (the
\* transport's, the database's), so it always has a step to take.
FairSpec == Spec /\ \A r \in Run : WF_vars(Proceed(r))

-----------------------------------------------------------------------------

\* No day has more provider calls than allowed, however many processes
\* reserve at once, also when midnight falls inside a reservation.
CallsWithinBudget == \A d \in Day : Calls(d) <= DailyCalls

\* No reservation takes a day over its tokens, even when providers have
\* reported more than was reserved for their calls.  (Such a report itself may:
\* usage replaces the estimate without a check.)
TokensWithinBudget ==
    [][\A d \in Day : Calls(d)' > Calls(d) => Tokens(d)' <= DailyTokens]_vars

\* Every call that is out has its own reservation, which is still open.
CallsReserved ==
    \A r \in Run : pc[r] = "sent" =>
        /\ job[r].row \in Stored /\ rows[job[r].row].status = "pending"
        /\ \A q \in Run \ {r} : pc[q] = "sent" => job[q].row # job[r].row

\* Once an operation tried the Codex subscription it calls no billed
\* provider, whatever was tried in between.
NoPaidFallback ==
    \A r \in Run : pc[r] = "sent" /\ Current(r) = "paid" =>
        \A i \in DOMAIN job[r].tried : job[r].tried[i] # "codex"

\* A reservation is never taken back, moved to another day or reopened: a
\* crash or a failure cannot free the budget it consumed.
ReservationsKept ==
    [][\A a \in Stored :
          /\ rows'[a] # NoRow
          /\ rows'[a] # NoRow => rows'[a].day = rows[a].day
          /\ rows'[a] # NoRow /\ rows[a].status # "pending" => rows'[a] = rows[a]]_vars

\* Every operation ends, over budget or with every provider down.
OperationEnds == \A r \in Run : pc[r] # "idle" ~> pc[r] = "idle"
=============================================================================
