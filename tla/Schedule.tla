------------------------------ MODULE Schedule ------------------------------
(***************************************************************************)
(* jobs.py: the one saved consolidation schedule of a vault.  A dashboard  *)
(* tick, the hourly task and manual runs all claim .ai-dememory's jobs     *)
(* lock, without waiting for it, and write the new deadline to jobs.json   *)
(* before they consolidate.  Settings are another file that changes at any *)
(* time; jobs.json takes them over whenever somebody looks at it.          *)
(*                                                                         *)
(* The clock counts hours.  Reading the time, taking the lock and saving   *)
(* the claim are one step: nothing waits between them, and dying before    *)
(* the save changes at most what a look at the schedule changes.           *)
(***************************************************************************)
EXTENDS Naturals

CONSTANTS
    Proc,        \* processes and threads that run jobs
    Scope,
    Interval,    \* interval_hours that may be set
    LastHour,    \* bound: the last hour of a behaviour
    NoProc, None

Hour == 0 .. LastHour

Settings == [enabled : BOOLEAN, interval : Interval, scope : Scope]

ASSUME ScheduleAssumption ==
    /\ Interval \subseteq Nat \ {0}
    /\ LastHour \in Nat
    /\ NoProc \notin Proc
    /\ None \notin Settings /\ None \notin Nat /\ None \notin Scope

VARIABLES
    now,
    settings,   \* the schedule in settings.json
    state,      \* jobs.json
    lock,       \* the holder of .jobs.lock, which is consolidating
    job,        \* the scope it consolidates
    began       \* auxiliary: when the latest run of each scope began

vars == <<now, settings, state, lock, job, began>>

State == [schedule : Settings \cup {None}, anchor : Nat \cup {None}, next : Nat \cup {None},
          result : {"none", "done", "failed"}]

TypeOK ==
    /\ now \in Hour
    /\ settings \in Settings
    /\ state \in State
    /\ state.schedule # None =>
          /\ state.anchor # None
          /\ (state.next # None) = state.schedule.enabled
    /\ lock \in Proc \cup {NoProc}
    /\ job \in Scope \cup {None}
    /\ began \in [Scope -> Hour]

Init ==
    /\ now = 0
    /\ settings \in Settings
    /\ state = [schedule |-> None, anchor |-> None, next |-> None, result |-> "none"]
    /\ lock = NoProc
    /\ job = None
    /\ began = [s \in Scope |-> 0]

Tick ==
    /\ now < LastHour
    /\ now' = now + 1
    /\ UNCHANGED <<settings, state, lock, job, began>>

SaveSettings(new) ==
    /\ settings' = new
    /\ UNCHANGED <<now, state, lock, job, began>>

-----------------------------------------------------------------------------

\* Whether a changed schedule goes on from the last anchor.
Continues ==
    /\ state.schedule # None
    /\ state.schedule # None => state.schedule.enabled /\ state.schedule.scope = settings.scope

Deadline(anchor) == IF settings.enabled THEN anchor + settings.interval ELSE None

\* The settings with their deadline.
Anchored(anchor) ==
    [schedule |-> settings, anchor |-> anchor, next |-> Deadline(anchor), result |-> state.result]

\* _schedule_state: jobs.json with the settings taken over.
Refreshed ==
    IF state.schedule = settings THEN state
    ELSE Anchored(IF Continues THEN state.anchor ELSE now)

\* Somebody looks at the schedule: status, or a check that finds nothing due.
\* A look while a job runs saves nothing.
Look ==
    /\ lock = NoProc
    /\ state' = Refreshed
    /\ UNCHANGED <<now, settings, lock, job, began>>

\* Mutant: every run moves the deadline.
ClaimedAlways(old, scope) ==
    [old EXCEPT !.result = "none",
                !.anchor = IF old.schedule.enabled THEN now ELSE @,
                !.next   = IF old.schedule.enabled THEN Deadline(now) ELSE @]

\* Mutant: the deadline is written when the run is over.
ClaimedLate(old, scope) == [old EXCEPT !.result = "none"]

\* What is saved before the work begins.  A manual run for another project
\* does not delay the schedule.
Claimed(old, scope) ==
    IF scope = settings.scope /\ settings.enabled
    THEN [schedule |-> old.schedule, anchor |-> now, next |-> Deadline(now), result |-> "none"]
    ELSE [old EXCEPT !.result = "none"]

Run(p, scope) ==
    /\ lock = NoProc
    /\ lock' = p
    /\ state' = Claimed(Refreshed, scope)
    /\ job' = scope
    /\ began' = [began EXCEPT ![scope] = now]
    /\ UNCHANGED <<now, settings>>

RunManually(p, scope) == Run(p, scope)

Overdue == Refreshed.next # None /\ (Refreshed.next # None => now >= Refreshed.next)

RunDue(p) == settings.enabled /\ Overdue /\ Run(p, settings.scope)

\* Mutant: a run that fails keeps the lock.
EndHolding(p, result) ==
    /\ lock = p /\ job # None
    /\ state' = [state EXCEPT !.result = result]
    /\ job' = None
    /\ IF result = "failed" THEN UNCHANGED lock ELSE lock' = NoProc
    /\ UNCHANGED <<now, settings, began>>

\* The run is over: its result or its error is saved.
End(p, result) ==
    /\ lock = p
    /\ state' = [state EXCEPT !.result = result]
    /\ lock' = NoProc /\ job' = None
    /\ UNCHANGED <<now, settings, began>>

\* The process dies and leaves the claim in jobs.json.
Crash(p) ==
    /\ lock = p
    /\ lock' = NoProc /\ job' = None
    /\ UNCHANGED <<now, settings, state, began>>

Next ==
    \/ Tick \/ Look
    \/ \E new \in Settings : SaveSettings(new)
    \/ \E p \in Proc :
          \/ RunDue(p) \/ Crash(p)
          \/ \E scope \in Scope : RunManually(p, scope)
          \/ \E result \in {"done", "failed"} : End(p, result)

Spec == Init /\ [][Next]_vars

\* Checks keep coming (the hourly task, the dashboard) and now and then find
\* the lock free; consolidation ends (calls have timeouts).
FairSpec ==
    /\ Spec
    /\ SF_vars(\E p \in Proc : RunDue(p))
    /\ WF_vars(\E p \in Proc, result \in {"done", "failed"} : End(p, result))

-----------------------------------------------------------------------------

\* jobs.py: "A crash must not trigger a retry storm after restart", and
\* automation.md: it "does not replay every missed interval".  A scheduled run
\* begins at least one interval after every earlier run of its scope, manual,
\* failed and crashed ones included.
Spacing ==
    [][\A p \in Proc : RunDue(p) => now >= began[settings.scope] + settings.interval]_vars

\* jobs.py: "A manual run for another project must not delay this schedule".
\* While the schedule is unchanged, only a run of its own scope moves the
\* deadline.
DeadlineMoves ==
    [][state.schedule = settings /\ state'.schedule = state.schedule /\ state'.next # state.next =>
          job' = settings.scope]_vars

\* A deadline that passes is served, or the schedule is changed.
Served == Overdue ~> ~Overdue
=============================================================================
