--------------------------- MODULE ScheduleProofs ---------------------------
(***************************************************************************)
(* The interval is kept for any number of processes, scopes and hours.     *)
(* The invariant behind it: while the schedule in jobs.json is on, its     *)
(* deadline lies one interval after an anchor that no run of its scope     *)
(* began after.  Every way to change jobs.json first takes the settings    *)
(* over (Refreshed), and that keeps it.                                    *)
(***************************************************************************)
EXTENDS Schedule, SourceJobs, FiniteSetTheorems, WellFoundedInduction, TLAPS

\* What jobs.json says of the runs of its schedule.
Sound(st) ==
    st.schedule # None =>
        /\ st.anchor # None
        /\ st.anchor <= now
        /\ (st.next # None) = st.schedule.enabled
        /\ st.next # None => /\ st.next = st.anchor + st.schedule.interval
                             /\ began[st.schedule.scope] <= st.anchor

IInv == TypeOK /\ Sound(state) /\ \A s \in Scope : began[s] <= now

LEMMA SettingsType ==
    ASSUME TypeOK
    PROVE  /\ settings.enabled \in BOOLEAN /\ settings.scope \in Scope
           /\ settings.interval \in Nat \ {0} /\ settings # None
  BY ScheduleAssumption DEF TypeOK, Settings

LEMMA DeadlineType ==
    ASSUME TypeOK, NEW anchor \in Nat
    PROVE  /\ Deadline(anchor) \in Nat \cup {None}
           /\ (Deadline(anchor) # None) = settings.enabled
           /\ Deadline(anchor) # None => Deadline(anchor) = anchor + settings.interval
<1>1. settings.interval \in Nat
  BY SettingsType
<1>2. anchor + settings.interval \in Nat
  BY <1>1
<1>3. anchor + settings.interval # None
  BY <1>2, ScheduleAssumption
<1>4. settings.enabled \in BOOLEAN
  BY SettingsType
<1> QED  BY <1>2, <1>3, <1>4 DEF Deadline

\* Taking over a changed schedule, from an anchor no run of it began after.
LEMMA AnchoredSound ==
    ASSUME IInv, NEW anchor \in Nat, anchor <= now,
           settings.enabled => began[settings.scope] <= anchor
    PROVE  Anchored(anchor) \in State /\ Sound(Anchored(anchor))
<1> DEFINE due == Deadline(anchor)
<1>1. /\ due \in Nat \cup {None} /\ (due # None) = settings.enabled
      /\ due # None => due = anchor + settings.interval
  BY DeadlineType DEF IInv
<1> HIDE DEF due
<1>2. settings \in Settings /\ state \in State
  BY DEF IInv, TypeOK
<1>3. Anchored(anchor) = [schedule |-> settings, anchor |-> anchor, next |-> due, result |-> state.result]
  BY DEF Anchored, due
<1>4. Anchored(anchor) \in State
  BY <1>1, <1>2, <1>3 DEF State
<1>5. anchor # None
  BY ScheduleAssumption
<1>6. /\ Anchored(anchor).schedule = settings /\ Anchored(anchor).anchor = anchor
      /\ Anchored(anchor).next = due
  BY <1>3
<1>7. Sound(Anchored(anchor))
  <2>1. due # None => settings.enabled
    BY <1>1
  <2> QED  BY <1>1, <1>5, <1>6, <2>1 DEF Sound
<1> QED  BY <1>4, <1>7

LEMMA RefreshedSound ==
    ASSUME IInv
    PROVE  /\ Refreshed \in State /\ Sound(Refreshed) /\ Refreshed.schedule = settings
<1>1. state \in State /\ now \in Nat
  BY ScheduleAssumption DEF IInv, TypeOK, Hour
<1>2. CASE state.schedule = settings
  BY <1>1, <1>2 DEF Refreshed, IInv
<1>3. CASE state.schedule # settings
  <2> DEFINE anchor == IF Continues THEN state.anchor ELSE now
  <2>1. anchor \in Nat /\ anchor <= now /\ (settings.enabled => began[settings.scope] <= anchor)
    <3>1. CASE Continues
      <4>1. state.schedule # None /\ state.schedule.enabled /\ state.schedule.scope = settings.scope
        BY <3>1 DEF Continues
      <4>2. state.next # None
        BY <4>1 DEF IInv, Sound
      <4> QED  BY <1>1, <3>1, <4>1, <4>2 DEF IInv, Sound, State
    <3>2. CASE ~Continues
      BY <1>1, <3>2, SettingsType DEF IInv
    <3> QED  BY <3>1, <3>2
  <2>2. Refreshed = Anchored(anchor)
    BY <1>3 DEF Refreshed, Anchored
  <2> HIDE DEF anchor
  <2>3. Refreshed.schedule = settings
    BY <2>2 DEF Anchored
  <2> QED  BY <2>1, <2>2, <2>3, AnchoredSound
<1> QED  BY <1>2, <1>3

\* The claim of a run: the deadline moves with a run of its own scope.
LEMMA ClaimedSound ==
    ASSUME IInv, NEW scope \in Scope, began' = [began EXCEPT ![scope] = now], now' = now,
           state' = Claimed(Refreshed, scope)
    PROVE  state' \in State /\ Sound(state)'
<1> DEFINE old == Refreshed
           due == Deadline(now)
<1>1. old \in State /\ Sound(old) /\ old.schedule = settings /\ settings # None /\ settings \in Settings
  BY RefreshedSound, SettingsType DEF IInv, TypeOK
<1>2. now \in Nat /\ now # None
  BY ScheduleAssumption DEF IInv, TypeOK, Hour
<1>3. began \in [Scope -> Hour]
  BY DEF IInv, TypeOK
<1>4. settings.scope \in Scope /\ settings.interval \in Nat
  BY SettingsType DEF IInv
<1>5. CASE scope = settings.scope /\ settings.enabled
  <2>1. due \in Nat /\ due = now + settings.interval /\ (due # None) = settings.enabled
    BY <1>2, <1>5, DeadlineType DEF IInv
  <2>2. state' = [schedule |-> settings, anchor |-> now, next |-> due, result |-> "none"]
    BY <1>1, <1>5 DEF Claimed
  <2>3. state' \in State
    BY <1>1, <1>2, <2>1, <2>2 DEF State
  <2>4. began'[settings.scope] = now
    BY <1>3, <1>4, <1>5
  <2> HIDE DEF due
  <2>5. /\ state'.schedule = settings /\ state'.anchor = now /\ state'.next = due
    BY <2>2
  <2>7. began'[settings.scope] <= now /\ now <= now' /\ now' = now
    BY <1>2, <2>4
  <2>8. (due # None) = settings.enabled /\ due = now + settings.interval
    BY <2>1
  <2> HIDE <1>5
  <2>6. Sound(state)'
    <3>1. state'.anchor # None /\ state'.anchor <= now'
      BY <1>2, <2>5, <2>7
    <3>2. (state'.next # None) = state'.schedule.enabled
      BY <2>5, <2>8, Zenon
    <3>3. state'.next = state'.anchor + state'.schedule.interval
      BY <2>5, <2>8
    <3>4. began'[state'.schedule.scope] <= state'.anchor
      BY <2>5, <2>7
    <3> QED  BY <3>1, <3>2, <3>3, <3>4, Zenon DEF Sound
  <2> QED  BY <2>3, <2>6
<1>6. CASE ~(scope = settings.scope /\ settings.enabled)
  <2>1. state' = [old EXCEPT !.result = "none"]
    BY <1>6 DEF Claimed
  <2>2. /\ state' \in State /\ state'.schedule = settings
        /\ state'.anchor = old.anchor /\ state'.next = old.next
    BY <1>1, <2>1 DEF State
  <2> HIDE DEF old
  <2>3. /\ old.anchor # None /\ old.anchor <= now /\ (old.next # None) = settings.enabled
        /\ old.next # None => /\ old.next = old.anchor + settings.interval
                              /\ began[settings.scope] <= old.anchor
    BY <1>1 DEF Sound
  <2>4. old.next # None => began'[settings.scope] = began[settings.scope]
    BY <1>3, <1>4, <1>6, <2>3
  <2>5. Sound(state)'
    BY <1>1, <2>2, <2>3, <2>4 DEF Sound
  <2> QED  BY <2>2, <2>5
<1> QED  BY <1>5, <1>6

LEMMA RunKeeps == ASSUME IInv, NEW p \in Proc, NEW scope \in Scope, Run(p, scope) PROVE IInv'
<1>1. /\ lock' = p /\ state' = Claimed(Refreshed, scope) /\ job' = scope
      /\ began' = [began EXCEPT ![scope] = now] /\ UNCHANGED <<now, settings>>
  BY DEF Run
<1>2. state' \in State /\ Sound(state)'
  BY <1>1, ClaimedSound DEF Sound
<1>3. TypeOK'
  <2>1. began' \in [Scope -> Hour]
    BY <1>1 DEF IInv, TypeOK
  <2>2. state'.schedule # None => state'.anchor # None /\ (state'.next # None) = state'.schedule.enabled
    BY <1>2 DEF Sound
  <2> QED  BY <1>1, <1>2, <2>1, <2>2 DEF IInv, TypeOK
<1>4. \A s \in Scope : began'[s] <= now'
  BY <1>1, ScheduleAssumption DEF IInv, TypeOK, Hour
<1> QED  BY <1>2, <1>3, <1>4 DEF IInv

LEMMA LookKeeps == ASSUME IInv, Look PROVE IInv'
<1>1. state' = Refreshed /\ UNCHANGED <<now, settings, lock, job, began>>
  BY DEF Look
<1>2. state' \in State /\ Sound(state)'
  BY <1>1, RefreshedSound DEF Sound
<1>3. state'.schedule # None => state'.anchor # None /\ (state'.next # None) = state'.schedule.enabled
  BY <1>2 DEF Sound
<1> QED  BY <1>1, <1>2, <1>3 DEF IInv, TypeOK

LEMMA EndKeeps ==
    ASSUME IInv, NEW p \in Proc, NEW result \in {"done", "failed"}, End(p, result)
    PROVE  IInv'
<1>1. /\ state' = [state EXCEPT !.result = result] /\ lock' = NoProc /\ job' = None
      /\ UNCHANGED <<now, settings, began>>
  BY DEF End
<1>2. /\ state' \in State /\ state'.schedule = state.schedule
      /\ state'.anchor = state.anchor /\ state'.next = state.next
  BY <1>1 DEF IInv, TypeOK, State
<1>3. Sound(state)'
  BY <1>1, <1>2 DEF IInv, Sound
<1>4. TypeOK'
  BY <1>1, <1>2 DEF IInv, TypeOK
<1> QED  BY <1>1, <1>3, <1>4 DEF IInv

LEMMA Initially == Init => IInv
<1> SUFFICES ASSUME Init PROVE IInv
  OBVIOUS
<1> USE ScheduleAssumption DEF Init
<1>1. TypeOK
  BY DEF TypeOK, State, Hour
<1>2. Sound(state)
  BY DEF Sound
<1> QED  BY <1>1, <1>2 DEF IInv

LEMMA Step == IInv /\ [Next]_vars => IInv'
<1> SUFFICES ASSUME IInv, [Next]_vars PROVE IInv'
  OBVIOUS
<1>1. CASE UNCHANGED vars
  BY <1>1 DEF vars, IInv, TypeOK, Sound
<1>2. CASE Tick
  <2>1. now' \in Hour /\ now \in Hour /\ now <= now' /\ UNCHANGED <<settings, state, lock, job, began>>
    BY <1>2, ScheduleAssumption DEF Tick, IInv, TypeOK, Hour
  <2>2. TypeOK'
    BY <2>1 DEF IInv, TypeOK
  <2>3. \A s \in Scope : began'[s] <= now'
    BY <2>1, ScheduleAssumption DEF IInv, TypeOK, Hour
  <2>4. Sound(state)'
    <3>1. CASE state.schedule = None
      BY <2>1, <3>1 DEF Sound
    <3>2. CASE state.schedule # None
      <4>1. state.anchor \in Nat /\ state.anchor <= now
        BY <3>2 DEF IInv, TypeOK, Sound, State
      <4>2. state.anchor <= now'
        BY <2>1, <4>1, ScheduleAssumption DEF Hour
      <4> QED  BY <2>1, <3>2, <4>2 DEF IInv, Sound
    <3> QED  BY <3>1, <3>2
  <2> QED  BY <2>2, <2>3, <2>4 DEF IInv
<1>3. ASSUME NEW new \in Settings, SaveSettings(new) PROVE IInv'
  BY <1>3 DEF SaveSettings, IInv, TypeOK, Sound
<1>4. ASSUME NEW p \in Proc, RunDue(p) PROVE IInv'
  BY <1>4, RunKeeps, SettingsType DEF RunDue, IInv
<1>5. ASSUME NEW p \in Proc, NEW scope \in Scope, RunManually(p, scope) PROVE IInv'
  BY <1>5, RunKeeps DEF RunManually
<1>6. ASSUME NEW p \in Proc, Crash(p) PROVE IInv'
  BY <1>6 DEF Crash, IInv, TypeOK, Sound
<1> QED  BY <1>1, <1>2, <1>3, <1>4, <1>5, <1>6, LookKeeps, EndKeeps DEF Next

LEMMA Invariance == Spec => []IInv
  BY Initially, Step, PTL DEF Spec

\* jobs.json, the lock and the clock keep their types, and a saved schedule has
\* its anchor, and a deadline exactly when it is on.
THEOREM TypeCorrect == Spec => []TypeOK
  BY Invariance, PTL DEF IInv

\* A scheduled run begins at least an interval after every earlier run of its
\* scope, for any number of processes and whatever changes, fails or dies.
THEOREM Spaced == Spec => Spacing
<1>1. IInv => \A p \in Proc : RunDue(p) => now >= began[settings.scope] + settings.interval
  <2> SUFFICES ASSUME IInv, NEW p \in Proc, RunDue(p)
               PROVE  now >= began[settings.scope] + settings.interval
    OBVIOUS
  <2>1. Refreshed.next # None /\ now >= Refreshed.next
    BY DEF RunDue, Overdue
  <2>2. Refreshed \in State /\ Sound(Refreshed) /\ Refreshed.schedule = settings /\ settings # None
    BY RefreshedSound, SettingsType DEF IInv
  <2>3. /\ Refreshed.next = Refreshed.anchor + settings.interval
        /\ began[settings.scope] <= Refreshed.anchor /\ Refreshed.anchor \in Nat
    BY <2>1, <2>2 DEF Sound, State
  <2>4. began[settings.scope] \in Nat /\ settings.interval \in Nat /\ now \in Nat
    BY SettingsType, ScheduleAssumption DEF IInv, TypeOK, Hour
  <2> QED  BY <2>1, <2>3, <2>4
<1>2. IInv /\ [Next]_vars =>
          [\A p \in Proc : RunDue(p) => now >= began[settings.scope] + settings.interval]_vars
  BY <1>1
<1> QED  BY <1>2, Invariance, PTL DEF Spec, Spacing

\* Only a run of its own scope moves the deadline of a schedule that stands
\* (jobs.py _claim), however many others run.
THEOREM OnlyItsRunsMove == Spec => DeadlineMoves
<1> DEFINE Moves == state.schedule = settings /\ state'.schedule = state.schedule /\ state'.next # state.next =>
                        job' = settings.scope
<1>1. IInv /\ [Next]_vars => [Moves]_vars
  <2> SUFFICES ASSUME IInv, Next, state.schedule = settings PROVE state'.next # state.next => job' = settings.scope
    OBVIOUS
  <2>0. state \in State /\ Refreshed = state
    BY DEF IInv, TypeOK, Refreshed
  <2>1. ASSUME NEW p \in Proc, NEW scope \in Scope, Run(p, scope) PROVE state'.next # state.next => job' = settings.scope
    <3>1. state' = Claimed(state, scope) /\ job' = scope
      BY <2>0, <2>1 DEF Run
    <3>2. CASE scope = settings.scope
      BY <3>1, <3>2
    <3>3. CASE scope # settings.scope
      BY <2>0, <3>1, <3>3 DEF Claimed, State
    <3> QED  BY <3>2, <3>3
  <2>2. ASSUME NEW p \in Proc, NEW result \in {"done", "failed"}, End(p, result) PROVE state'.next = state.next
    BY <2>0, <2>2 DEF End, State
  <2>3. ASSUME state' = state PROVE state'.next = state.next
    BY <2>3
  <2>4. settings.scope \in Scope
    BY SettingsType DEF IInv
  <2> QED
    BY <2>0, <2>1, <2>2, <2>3, <2>4 DEF Next, Tick, Look, SaveSettings, RunDue, RunManually, Crash
<1> QED  BY <1>1, Invariance, PTL DEF Spec, DeadlineMoves

-----------------------------------------------------------------------------

(***************************************************************************)
(* The second schedule, of the conversation files (module SourceJobs), for *)
(* any number of rules, files and lines, and any bounds of a window.  The  *)
(* invariant behind it: what was sent of a file, since the cursors of the  *)
(* rule were last removed, lies before its cursor, or is the range that    *)
(* the cursor has frozen, and a frozen range is what read_window returns   *)
(* again.  So a new window begins where all that was sent ends.            *)
(***************************************************************************)

\* A cursor of the file as it is now.
OfFile(r, f) == cursors[<<r, f>>] # NoCursor /\ cursors[<<r, f>>].id = files[f].id

\* No cursor is ahead of its file, unless the file was cut off.
CursorsWithin ==
    \A r \in Rule, f \in File :
        LET c == cursors[<<r, f>>] IN
        /\ c # NoCursor => c.id <= files[f].id
        /\ OfFile(r, f) /\ files[f].grows =>
              c.offset <= Len(files[f].lines) /\ (c.end # Open => c.end <= Len(files[f].lines))

\* A frozen range is one that would be read again.
Frozen(file, c) ==
    /\ c.offset <= c.end /\ c.end - c.offset <= WindowLines
    /\ c.id = file.id /\ c.end <= Len(file.lines) =>
          Cardinality(Messages(file, c.offset, c.end)) <= WindowMessages /\ Fits(file, c.offset, c.end)

RangesFrozen ==
    \A r \in Rule, f \in File :
        LET c == cursors[<<r, f>>] IN
        c # NoCursor => (c.end # Open => Frozen(files[f], c))

\* What was sent lies before the cursor, or is the frozen range.
SentBehind ==
    \A e \in tracked :
        LET c == cursors[<<e.rule, e.file>>] IN
        /\ c # NoCursor /\ e.from <= e.to
        /\ c # NoCursor => e.id = c.id /\ (e.to <= c.offset \/ (e.from = c.offset /\ e.to = c.end))

\* The event of a run is the frozen range of the file it is at.
EventFrozen ==
    run # NoRun => (run.step \in {"extract", "commit"} =>
        /\ run.todo # {} /\ run.event \in Event
        /\ run.event.rule = run.rule /\ run.event.file = Here
        /\ Row = [id |-> run.event.id, offset |-> run.event.from, end |-> run.event.to]
        /\ run.step = "commit" => run.event \in done)

\* The strengthening: the two properties and what keeps them.
SourceInv == /\ SourceTypeOK /\ CursorsWithin /\ RangesFrozen /\ SentBehind /\ EventFrozen
             /\ WindowsDisjoint /\ ConsumedIsDone

\* The least and the greatest number of a set, which Min and Max choose.
LEMMA LeastNumber ==
    ASSUME NEW S \in SUBSET Nat, S # {}
    PROVE  \E m \in S : \A j \in S : m <= j
<1> DEFINE R == OpToRel(<, Nat)
<1>1. IsWellFoundedOn(R, Nat)
  BY NatLessThanWellFounded
<1>2. PICK m \in S : \A j \in S : ~ (<<j, m>> \in R)
  <2> HIDE DEF R
  <2> QED  BY <1>1, WFMin
<1>3. \A j \in S : ~(j < m)
  BY <1>2 DEF OpToRel
<1> QED  BY <1>3

LEMMA MinIn ==
    ASSUME NEW S \in SUBSET Nat, S # {}
    PROVE  Min(S) \in S
  BY LeastNumber DEF Min

LEMMA MaxIn ==
    ASSUME NEW n \in Nat, NEW S \in SUBSET (0 .. n), S # {}
    PROVE  Max(S) \in S /\ \A x \in S : x <= Max(S)
<1> DEFINE D == {n - x : x \in S}
<1>1. D \subseteq Nat /\ D # {}
  <2>1. \A x \in S : n - x \in Nat
    OBVIOUS
  <2>2. PICK x \in S : TRUE
    OBVIOUS
  <2>3. n - x \in D
    OBVIOUS
  <2> QED  BY <2>1, <2>3
<1>2. PICK m \in D : \A j \in D : m <= j
  <2> HIDE DEF D
  <2> QED  BY <1>1, LeastNumber
<1>3. PICK y \in S : m = n - y
  OBVIOUS
<1>4. \A x \in S : y >= x
  <2> TAKE x \in S
  <2>1. m <= n - x
    BY <1>2
  <2> QED  BY <1>3, <2>1
<1>5. Max(S) \in S /\ \A x \in S : Max(S) >= x
  BY <1>4 DEF Max
<1> QED  BY <1>5

\* A file as the system keeps it, and a cursor whose range is in order.
SourceFile == [id : {1, 2}, lines : Seq(Kind), grows : BOOLEAN]

\* The windows that read_window chooses from.
Windows(file, cursor) ==
    {From(cursor)} \cup
    {to \in From(cursor) .. Limit(file, cursor) :
        /\ to - From(cursor) <= WindowLines /\ Fits(file, From(cursor), to)
        /\ Cardinality(Messages(file, From(cursor), to)) <= WindowMessages}

LEMMA FromLimit ==
    ASSUME NEW file \in SourceFile, NEW cursor \in Cursor \cup {NoCursor}, Readable(file, cursor),
           cursor # NoCursor => (cursor.end # Open => cursor.offset <= cursor.end)
    PROVE  /\ From(cursor) \in Nat /\ Limit(file, cursor) \in Nat
           /\ From(cursor) <= Limit(file, cursor) /\ Limit(file, cursor) <= Len(file.lines)
<1>1. Len(file.lines) \in Nat
  BY DEF SourceFile
<1>2. CASE cursor = NoCursor
  BY <1>1, <1>2 DEF From, Limit
<1>3. CASE cursor # NoCursor
  <2>1. cursor.offset \in Nat /\ cursor.end \in Nat \cup {Open}
    BY <1>3 DEF Cursor
  <2>2. Len(file.lines) >= From(cursor) /\ Len(file.lines) >= Limit(file, cursor)
    BY <1>3 DEF Readable, Intact
  <2> QED  BY <1>1, <1>3, <2>1, <2>2 DEF From, Limit
<1> QED  BY <1>2, <1>3

\* A window begins at the cursor, ends within the limit, and keeps both bounds.
LEMMA WindowRight ==
    ASSUME NEW file \in SourceFile, NEW cursor \in Cursor \cup {NoCursor}, Readable(file, cursor),
           cursor # NoCursor => (cursor.end # Open => cursor.offset <= cursor.end)
    PROVE  /\ To(file, cursor) \in Nat
           /\ From(cursor) <= To(file, cursor) /\ To(file, cursor) <= Limit(file, cursor)
           /\ To(file, cursor) - From(cursor) <= WindowLines
           /\ Cardinality(Messages(file, From(cursor), To(file, cursor))) <= WindowMessages
           /\ Fits(file, From(cursor), To(file, cursor))
           /\ \A to \in Windows(file, cursor) : to <= To(file, cursor)
<1> DEFINE S == Windows(file, cursor)
           from == From(cursor)
           limit == Limit(file, cursor)
<1>1. from \in Nat /\ limit \in Nat /\ from <= limit
  BY FromLimit
<1>2. from \in S
  BY DEF Windows
<1>3. S \subseteq from .. limit
  BY <1>1 DEF Windows
<1>4. S \in SUBSET (0 .. limit)
  BY <1>1, <1>3
<1>5. To(file, cursor) = Max(S)
  BY DEF To, Windows
<1>6. Max(S) \in S /\ \A x \in S : x <= Max(S)
  <2> HIDE DEF S, limit
  <2> QED  BY <1>1, <1>2, <1>4, MaxIn
<1>7. Messages(file, from, from) = {}
  <2>1. from + 1 .. from = {}
    BY <1>1
  <2> QED  BY <2>1 DEF Messages
<1>8. Cardinality(Messages(file, from, from)) = 0
  BY <1>7, FS_EmptySet
<1>9. from - from <= WindowLines /\ 0 <= WindowMessages /\ Fits(file, from, from)
  <2>1. from + 1 .. from = {}
    BY <1>1
  <2>2. Fits(file, from, from)
    BY <2>1 DEF Fits
  <2>3. from - from <= WindowLines /\ 0 <= WindowMessages
    BY <1>1, HistoryAssumption
  <2> QED  BY <2>2, <2>3
<1>10. \A to \in S : /\ to - from <= WindowLines /\ Fits(file, from, to)
                     /\ Cardinality(Messages(file, from, to)) <= WindowMessages
  <2> SUFFICES ASSUME NEW to \in S
               PROVE  /\ to - from <= WindowLines /\ Fits(file, from, to)
                      /\ Cardinality(Messages(file, from, to)) <= WindowMessages
    OBVIOUS
  <2>1. CASE to = from
    BY <2>1, <1>8, <1>9
  <2>2. CASE to # from
    BY <2>2 DEF Windows
  <2> QED  BY <2>1, <2>2
<1>11. To(file, cursor) \in from .. limit
  BY <1>3, <1>5, <1>6
<1> HIDE DEF S, from, limit
<1>12. /\ To(file, cursor) \in Nat
       /\ from <= To(file, cursor) /\ To(file, cursor) <= limit
  BY <1>1, <1>11
<1>13. /\ To(file, cursor) - from <= WindowLines
       /\ Cardinality(Messages(file, from, To(file, cursor))) <= WindowMessages
       /\ Fits(file, from, To(file, cursor))
  BY <1>5, <1>6, <1>10
<1>14. \A to \in S : to <= To(file, cursor)
  BY <1>5, <1>6
<1> QED  BY <1>12, <1>13, <1>14 DEF S, from, limit

\* A frozen range is what a retry reads: the window ends where it ended.
LEMMA RetryReadsTheSame ==
    ASSUME NEW file \in SourceFile, NEW cursor \in Cursor, cursor # NoCursor, cursor.end # Open,
           Readable(file, cursor), Frozen(file, cursor)
    PROVE  To(file, cursor) = cursor.end
<1>1. cursor.end \in Nat /\ cursor.offset \in Nat /\ cursor.offset <= cursor.end
  BY DEF Cursor, Frozen
<1>2. From(cursor) = cursor.offset /\ Limit(file, cursor) = cursor.end
  BY DEF From, Limit
<1>3. cursor.id = file.id /\ cursor.end <= Len(file.lines)
  BY <1>2 DEF Readable, Intact
<1>4. /\ cursor.end - cursor.offset <= WindowLines
      /\ Cardinality(Messages(file, cursor.offset, cursor.end)) <= WindowMessages
      /\ Fits(file, cursor.offset, cursor.end)
  BY <1>3 DEF Frozen
<1>5. cursor.end \in Windows(file, cursor)
  BY <1>1, <1>2, <1>4 DEF Windows
<1>6. To(file, cursor) \in Nat /\ To(file, cursor) <= cursor.end /\ cursor.end <= To(file, cursor)
  BY <1>1, <1>2, <1>5, WindowRight
<1> QED  BY <1>1, <1>6

\* Lines that two states of a file share hold the same messages, and fit alike.
LEMMA SameMessages ==
    ASSUME NEW f, NEW g, NEW from \in Nat, NEW to \in Nat,
           \A i \in 1 .. to : f.lines[i] = g.lines[i]
    PROVE  Messages(f, from, to) = Messages(g, from, to) /\ Fits(f, from, to) = Fits(g, from, to)
<1>1. \A i \in from + 1 .. to : i \in 1 .. to
  OBVIOUS
<1>2. Messages(f, from, to) = Messages(g, from, to)
  BY <1>1 DEF Messages
<1>3. Fits(f, from, to) = Fits(g, from, to)
  BY <1>1 DEF Fits
<1> QED  BY <1>2, <1>3

LEMMA HereIn ==
    ASSUME SourceTypeOK, run # NoRun, run.todo # {}
    PROVE  Here \in run.todo /\ Here \in File
<1>1. run.todo \subseteq File
  BY DEF SourceTypeOK, SourceRun
<1>2. File \subseteq Nat
  BY HistoryAssumption DEF File
<1> QED  BY <1>1, <1>2, MinIn DEF Here

\* What the invariant says of a row, for the file it is of.
LEMMA RowFacts ==
    ASSUME SourceInv, NEW r \in Rule, NEW f \in File
    PROVE  /\ files[f] \in SourceFile /\ Len(files[f].lines) \in Nat
           /\ cursors[<<r, f>>] \in Cursor \cup {NoCursor}
           /\ cursors[<<r, f>>] # NoCursor =>
                 /\ cursors[<<r, f>>].id \in Nat /\ cursors[<<r, f>>].offset \in Nat
                 /\ cursors[<<r, f>>].end \in Nat \cup {Open}
                 /\ cursors[<<r, f>>].id <= files[f].id
                 /\ cursors[<<r, f>>].end # Open =>
                       /\ Frozen(files[f], cursors[<<r, f>>])
                       /\ cursors[<<r, f>>].offset <= cursors[<<r, f>>].end
<1>1. files[f] \in SourceFile /\ cursors[<<r, f>>] \in Cursor \cup {NoCursor}
  BY DEF SourceInv, SourceTypeOK, SourceFile
<1>2. Len(files[f].lines) \in Nat
  BY <1>1 DEF SourceFile
<1>3. CASE cursors[<<r, f>>] # NoCursor
  <2>1. /\ cursors[<<r, f>>].id \in Nat /\ cursors[<<r, f>>].offset \in Nat
        /\ cursors[<<r, f>>].end \in Nat \cup {Open}
    BY <1>1, <1>3 DEF Cursor
  <2>2. cursors[<<r, f>>].id <= files[f].id
    BY <1>3 DEF SourceInv, CursorsWithin
  <2>3. cursors[<<r, f>>].end # Open => Frozen(files[f], cursors[<<r, f>>])
    BY <1>3 DEF SourceInv, RangesFrozen
  <2>4. Frozen(files[f], cursors[<<r, f>>]) => cursors[<<r, f>>].offset <= cursors[<<r, f>>].end
    BY DEF Frozen
  <2> QED  BY <1>1, <1>2, <2>1, <2>2, <2>3, <2>4
<1> QED  BY <1>1, <1>2, <1>3

LEMMA RowSet ==
    ASSUME SourceInv, run # NoRun, run.todo # {}, NEW row,
           cursors' = [cursors EXCEPT ![<<run.rule, Here>>] = row]
    PROVE  \A r \in Rule, f \in File :
               cursors'[<<r, f>>] = IF r = run.rule /\ f = Here THEN row ELSE cursors[<<r, f>>]
<1>1. run.rule \in Rule /\ Here \in File
  BY HereIn DEF SourceInv, SourceTypeOK, SourceRun
<1>2. cursors \in [Rule \X File -> Cursor \cup {NoCursor}]
  BY DEF SourceInv, SourceTypeOK
<1> QED  BY <1>1, <1>2

\* A row that is written is right when what is written is.
LEMMA RowWritten ==
    ASSUME SourceInv, run # NoRun, run.todo # {}, NEW row \in Cursor,
           cursors' = [cursors EXCEPT ![<<run.rule, Here>>] = row], UNCHANGED files,
           row.id <= files[Here].id,
           row.id = files[Here].id /\ files[Here].grows =>
               row.offset <= Len(files[Here].lines) /\ (row.end # Open => row.end <= Len(files[Here].lines)),
           row.end # Open => Frozen(files[Here], row)
    PROVE  /\ cursors' \in [Rule \X File -> Cursor \cup {NoCursor}]
           /\ CursorsWithin' /\ RangesFrozen'
<1>1. run.rule \in Rule /\ Here \in File
  BY HereIn DEF SourceInv, SourceTypeOK, SourceRun
<1>3. cursors' \in [Rule \X File -> Cursor \cup {NoCursor}]
  BY <1>1 DEF SourceInv, SourceTypeOK
<1>5. \A r \in Rule, f \in File :
          cursors'[<<r, f>>] = IF r = run.rule /\ f = Here THEN row ELSE cursors[<<r, f>>]
  BY RowSet
<1>7. CursorsWithin'
  <2> SUFFICES ASSUME NEW r \in Rule, NEW f \in File
               PROVE  /\ cursors'[<<r, f>>] # NoCursor => cursors'[<<r, f>>].id <= files[f].id
                      /\ cursors'[<<r, f>>] # NoCursor /\ cursors'[<<r, f>>].id = files[f].id /\ files[f].grows =>
                            /\ cursors'[<<r, f>>].offset <= Len(files[f].lines)
                            /\ cursors'[<<r, f>>].end # Open => cursors'[<<r, f>>].end <= Len(files[f].lines)
    BY DEF CursorsWithin, OfFile
  <2>1. CASE r = run.rule /\ f = Here
    BY <1>5, <2>1
  <2>2. CASE ~(r = run.rule /\ f = Here)
    <3>1. cursors'[<<r, f>>] = cursors[<<r, f>>]
      BY <1>5, <2>2
    <3> QED  BY <3>1 DEF SourceInv, CursorsWithin, OfFile
  <2> QED  BY <2>1, <2>2
<1>8. RangesFrozen'
  <2> SUFFICES ASSUME NEW r \in Rule, NEW f \in File, cursors'[<<r, f>>] # NoCursor, cursors'[<<r, f>>].end # Open
               PROVE  Frozen(files[f], cursors'[<<r, f>>])
    BY DEF RangesFrozen, Frozen, Messages, Fits
  <2>1. CASE r = run.rule /\ f = Here
    BY <1>5, <2>1
  <2>2. CASE ~(r = run.rule /\ f = Here)
    <3>1. cursors'[<<r, f>>] = cursors[<<r, f>>]
      BY <1>5, <2>2
    <3> QED  BY <3>1 DEF SourceInv, RangesFrozen
  <2> QED  BY <2>1, <2>2
<1> QED  BY <1>3, <1>7, <1>8

\* What was sent stays behind the row that is written.
LEMMA SentStaysBehind ==
    ASSUME SourceInv, run # NoRun, run.todo # {}, NEW row \in Cursor,
           cursors' = [cursors EXCEPT ![<<run.rule, Here>>] = row],
           \A e \in tracked' : \/ e \in tracked
                            \/ /\ e.rule = run.rule /\ e.file = Here /\ e.id = row.id
                               /\ e.from = row.offset /\ e.to = row.end /\ e.from <= e.to,
           tracked' \subseteq Event,
           \A e \in tracked : e.rule = run.rule /\ e.file = Here =>
               e.id = row.id /\ (e.to <= row.offset \/ (e.from = row.offset /\ e.to = row.end))
    PROVE  SentBehind'
<1>2. row # NoCursor
  BY HistoryAssumption
<1>3. \A r \in Rule, f \in File :
          cursors'[<<r, f>>] = IF r = run.rule /\ f = Here THEN row ELSE cursors[<<r, f>>]
  BY RowSet
<1> SUFFICES ASSUME NEW e \in tracked'
             PROVE  LET c == cursors'[<<e.rule, e.file>>] IN
                    /\ c # NoCursor /\ e.from <= e.to
                    /\ c # NoCursor => e.id = c.id /\ (e.to <= c.offset \/ (e.from = c.offset /\ e.to = c.end))
  BY DEF SentBehind
<1>4. e.rule \in Rule /\ e.file \in File
  BY DEF Event
<1>5. e \in tracked => /\ cursors[<<e.rule, e.file>>] # NoCursor /\ e.from <= e.to
                    /\ e.id = cursors[<<e.rule, e.file>>].id
                    /\ \/ e.to <= cursors[<<e.rule, e.file>>].offset
                       \/ /\ e.from = cursors[<<e.rule, e.file>>].offset
                          /\ e.to = cursors[<<e.rule, e.file>>].end
  BY DEF SourceInv, SentBehind
<1>6. CASE e.rule = run.rule /\ e.file = Here
  <2>1. cursors'[<<e.rule, e.file>>] = row
    BY <1>3, <1>4, <1>6
  <2> QED  BY <1>2, <1>5, <1>6, <2>1
<1>7. CASE ~(e.rule = run.rule /\ e.file = Here)
  <2>1. cursors'[<<e.rule, e.file>>] = cursors[<<e.rule, e.file>>] /\ e \in tracked
    BY <1>3, <1>4, <1>7
  <2> QED  BY <1>5, <2>1
<1> QED  BY <1>6, <1>7

\* Nothing behind the row that is written was passed over.
LEMMA ConsumedStaysDone ==
    ASSUME SourceInv, run # NoRun, run.todo # {}, NEW row \in Cursor,
           cursors' = [cursors EXCEPT ![<<run.rule, Here>>] = row], UNCHANGED <<files, done>>,
           row.id = files[Here].id /\ row.offset <= Len(files[Here].lines) =>
               \A i \in Messages(files[Here], 0, row.offset) : \E e \in done : Covers(e, run.rule, Here, i)
    PROVE  ConsumedIsDone'
<1>3. \A r \in Rule, f \in File :
          cursors'[<<r, f>>] = IF r = run.rule /\ f = Here THEN row ELSE cursors[<<r, f>>]
  BY RowSet
<1> SUFFICES ASSUME NEW r \in Rule, NEW f \in File, cursors'[<<r, f>>] # NoCursor,
                    cursors'[<<r, f>>].id = files[f].id, cursors'[<<r, f>>].offset <= Len(files[f].lines),
                    NEW i \in Messages(files[f], 0, cursors'[<<r, f>>].offset)
             PROVE  \E e \in done : Covers(e, r, f, i)
  BY DEF ConsumedIsDone, Covers, Messages
<1>4. CASE r = run.rule /\ f = Here
  BY <1>3, <1>4
<1>5. CASE ~(r = run.rule /\ f = Here)
  <2>1. cursors'[<<r, f>>] = cursors[<<r, f>>]
    BY <1>3, <1>5
  <2> QED  BY <2>1 DEF SourceInv, ConsumedIsDone
<1> QED  BY <1>4, <1>5

\* A step that moves no file, no cursor, nothing sent and nothing done.
LEMMA NothingMoves ==
    ASSUME SourceInv, UNCHANGED <<files, cursors, tracked, done>>,
           rules' \in [Rule -> StoredRule \cup {NoRule}], run' \in SourceRun \cup {NoRun}, EventFrozen'
    PROVE  SourceInv'
<1>1. SourceTypeOK'
  BY DEF SourceInv, SourceTypeOK
<1>2. CursorsWithin' /\ RangesFrozen'
  BY DEF SourceInv, CursorsWithin, OfFile, RangesFrozen, Frozen, Messages, Fits
<1>3. SentBehind' /\ WindowsDisjoint'
  BY DEF SourceInv, SentBehind, WindowsDisjoint
<1>4. ConsumedIsDone'
  BY DEF SourceInv, ConsumedIsDone, Covers, Messages
<1> QED  BY <1>1, <1>2, <1>3, <1>4 DEF SourceInv

LEMMA SourceInitRight == SourceInit => SourceInv
<1> SUFFICES ASSUME SourceInit PROVE SourceInv
  OBVIOUS
<1>1. /\ \A f \in File : files[f] = [id |-> 1, lines |-> <<>>, grows |-> TRUE]
      /\ \A r \in Rule, f \in File : cursors[<<r, f>>] = NoCursor
      /\ run = NoRun /\ tracked = {} /\ done = {}
  BY DEF SourceInit
<1>2. SourceTypeOK
  <2>1. files \in [File -> [id : {1, 2}, lines : Seq(Kind), grows : BOOLEAN]]
    <3>1. <<>> \in Seq(Kind)
      OBVIOUS
    <3> QED  BY <3>1 DEF SourceInit
  <2>2. rules \in [Rule -> StoredRule \cup {NoRule}]
    BY DEF SourceInit, NewRule, StoredRule
  <2> QED  BY <2>1, <2>2 DEF SourceInit, SourceTypeOK
<1>3. CursorsWithin /\ RangesFrozen
  BY <1>1 DEF CursorsWithin, OfFile, RangesFrozen
<1>4. SentBehind /\ EventFrozen /\ WindowsDisjoint
  BY <1>1 DEF SentBehind, EventFrozen, WindowsDisjoint
<1>5. ConsumedIsDone
  BY <1>1 DEF ConsumedIsDone
<1> QED  BY <1>2, <1>3, <1>4, <1>5 DEF SourceInv

\* A file grows, is replaced by another, or is cut off.
FileMoves(old, new) ==
    \/ /\ old.grows /\ new.grows /\ new.id = old.id /\ Len(new.lines) >= Len(old.lines)
       /\ \A i \in 1 .. Len(old.lines) : new.lines[i] = old.lines[i]
    \/ old.id < new.id
    \/ /\ old.grows /\ ~new.grows /\ new.id = old.id /\ Len(new.lines) <= Len(old.lines)
       /\ \A i \in 1 .. Len(new.lines) : new.lines[i] = old.lines[i]
    \/ new = old

LEMMA FilesMove ==
    ASSUME SourceTypeOK, Files
    PROVE  \A g \in File : files'[g] \in SourceFile /\ FileMoves(files[g], files'[g])
<1>1. PICK f \in File : Replace(f) \/ \E kind \in Kind : Append1(f, kind)
  BY SourceAssumption DEF Files
<1>2. files \in [File -> SourceFile]
  BY DEF SourceTypeOK, SourceFile
<1>3. /\ files[f].id \in {1, 2} /\ files[f].lines \in Seq(Kind) /\ files[f].grows \in BOOLEAN
      /\ files[f] = [id |-> files[f].id, lines |-> files[f].lines, grows |-> files[f].grows]
  <2>1. files[f] \in SourceFile
    BY <1>2
  <2> QED  BY <2>1 DEF SourceFile
<1>4. ASSUME NEW kind \in Kind, Append1(f, kind)
      PROVE  files'[f] \in SourceFile /\ FileMoves(files[f], files'[f]) /\ \A g \in File \ {f} : files'[g] = files[g]
  <2> DEFINE lines == Append(files[f].lines, kind)
  <2>1. /\ lines \in Seq(Kind) /\ Len(lines) >= Len(files[f].lines)
        /\ \A i \in 1 .. Len(files[f].lines) : lines[i] = files[f].lines[i]
    BY <1>3
  <2>2. files[f].grows /\ files' = [files EXCEPT ![f].lines = lines]
    BY <1>4 DEF Append1
  <2> HIDE DEF lines
  <2>3. files'[f] = [files[f] EXCEPT !.lines = lines] /\ \A g \in File \ {f} : files'[g] = files[g]
    BY <1>2, <2>2
  <2>4. /\ files'[f].id = files[f].id /\ files'[f].lines = lines /\ files'[f].grows = files[f].grows
        /\ files'[f] \in SourceFile
    BY <1>3, <2>1, <2>3 DEF SourceFile
  <2> QED  BY <2>1, <2>2, <2>3, <2>4 DEF FileMoves
<1>5. ASSUME Replace(f)
      PROVE  files'[f] \in SourceFile /\ FileMoves(files[f], files'[f]) /\ \A g \in File \ {f} : files'[g] = files[g]
  <2>1. files[f].id = 1 /\ files[f].grows /\ files[f].lines # <<>>
    BY <1>3, <1>5 DEF Replace, Changed
  <2>2. CASE files' = [files EXCEPT ![f] = [id |-> 2, lines |-> <<>>, grows |-> TRUE]]
    <3>1. files'[f] = [id |-> 2, lines |-> <<>>, grows |-> TRUE] /\ \A g \in File \ {f} : files'[g] = files[g]
      BY <1>2, <2>2
    <3>2. files'[f].id = 2 /\ files'[f] \in SourceFile
      BY <3>1 DEF SourceFile
    <3> QED  BY <2>1, <3>1, <3>2 DEF FileMoves
  <2>3. CASE files' = [files EXCEPT ![f] = [id |-> 1, lines |-> Front(@.lines), grows |-> FALSE]]
    <3> DEFINE lines == Front(files[f].lines)
    <3>1. /\ lines \in Seq(Kind) /\ Len(lines) <= Len(files[f].lines)
          /\ \A i \in 1 .. Len(lines) : lines[i] = files[f].lines[i]
      BY <1>3, <2>1 DEF Front
    <3> HIDE DEF lines
    <3>2. files'[f] = [id |-> 1, lines |-> lines, grows |-> FALSE] /\ \A g \in File \ {f} : files'[g] = files[g]
      BY <1>2, <2>3 DEF lines
    <3>3. files'[f].id = 1 /\ files'[f].lines = lines /\ ~files'[f].grows /\ files'[f] \in SourceFile
      BY <3>1, <3>2 DEF SourceFile
    <3> QED  BY <2>1, <3>1, <3>2, <3>3 DEF FileMoves
  <2> QED  BY <1>5, <2>2, <2>3 DEF Replace
<1>6. files'[f] \in SourceFile /\ FileMoves(files[f], files'[f]) /\ \A g \in File \ {f} : files'[g] = files[g]
  BY <1>1, <1>4, <1>5
<1> QED
  <2> TAKE g \in File
  <2>1. CASE g = f
    BY <1>6, <2>1
  <2>2. CASE g # f
    BY <1>2, <1>6, <2>2 DEF FileMoves
  <2> QED  BY <2>1, <2>2

\* A row stays right whatever becomes of its file.
LEMMA RowStaysRight ==
    ASSUME SourceInv, NEW r \in Rule, NEW f \in File, NEW new \in SourceFile, FileMoves(files[f], new),
           cursors[<<r, f>>] # NoCursor
    PROVE  /\ cursors[<<r, f>>].id <= new.id
           /\ cursors[<<r, f>>].id = new.id => cursors[<<r, f>>].id = files[f].id
           /\ cursors[<<r, f>>].id = new.id /\ new.grows =>
                 /\ cursors[<<r, f>>].offset <= Len(new.lines)
                 /\ cursors[<<r, f>>].end # Open => cursors[<<r, f>>].end <= Len(new.lines)
           /\ cursors[<<r, f>>].end # Open => Frozen(new, cursors[<<r, f>>])
           /\ cursors[<<r, f>>].id = new.id /\ cursors[<<r, f>>].offset <= Len(new.lines) =>
                 /\ cursors[<<r, f>>].offset <= Len(files[f].lines)
                 /\ Messages(new, 0, cursors[<<r, f>>].offset) = Messages(files[f], 0, cursors[<<r, f>>].offset)
<1> DEFINE c == cursors[<<r, f>>]
           old == files[f]
<1>1. /\ old \in SourceFile /\ Len(old.lines) \in Nat /\ Len(new.lines) \in Nat /\ old.id \in Nat /\ new.id \in Nat
      /\ c.id \in Nat /\ c.offset \in Nat /\ c.end \in Nat \cup {Open} /\ c.id <= old.id
      /\ c.end # Open => Frozen(old, c) /\ c.offset <= c.end
  <2>1. old \in SourceFile /\ Len(old.lines) \in Nat
    BY RowFacts
  <2>2. old.id \in Nat /\ new.id \in Nat /\ Len(new.lines) \in Nat
    BY <2>1 DEF SourceFile
  <2> QED  BY <2>1, <2>2, RowFacts
<1>2. /\ c.id = old.id /\ old.grows => c.offset <= Len(old.lines) /\ (c.end # Open => c.end <= Len(old.lines))
      /\ c # NoCursor
  BY DEF SourceInv, CursorsWithin, OfFile
<1>3. FileMoves(old, new)
  OBVIOUS
<1> HIDE DEF c, old
<1>4. c.id <= new.id /\ (c.id = new.id => c.id = old.id)
  BY <1>1, <1>3 DEF FileMoves
<1>5. c.id = new.id /\ new.grows => c.offset <= Len(new.lines) /\ (c.end # Open => c.end <= Len(new.lines))
  BY <1>1, <1>2, <1>3, <1>4 DEF FileMoves
\* A prefix that both have is the same.
<1>6. ASSUME NEW n \in Nat, c.id = new.id, n <= Len(new.lines), n \in {c.offset, c.end}
      PROVE  n <= Len(old.lines) /\ \A i \in 1 .. n : new.lines[i] = old.lines[i]
  <2>1. n # Open
    BY HistoryAssumption
  <2>2. c.id = old.id
    BY <1>4, <1>6
  <2>3. CASE old.id < new.id
    BY <1>1, <1>6, <2>2, <2>3
  <2>4. CASE /\ old.grows /\ new.grows /\ new.id = old.id /\ Len(new.lines) >= Len(old.lines)
             /\ \A i \in 1 .. Len(old.lines) : new.lines[i] = old.lines[i]
    BY <1>1, <1>2, <1>6, <2>1, <2>2, <2>4
  <2>5. CASE /\ old.grows /\ ~new.grows /\ new.id = old.id /\ Len(new.lines) <= Len(old.lines)
             /\ \A i \in 1 .. Len(new.lines) : new.lines[i] = old.lines[i]
    BY <1>1, <1>6, <2>5
  <2>6. CASE new = old
    BY <1>6, <2>6
  <2> QED  BY <1>3, <2>3, <2>4, <2>5, <2>6 DEF FileMoves
<1>7. c.end # Open => Frozen(new, c)
  <2> SUFFICES ASSUME c.end # Open PROVE Frozen(new, c)
    OBVIOUS
  <2>1. Frozen(old, c) /\ c.end \in Nat
    BY <1>1
  <2> SUFFICES ASSUME c.id = new.id, c.end <= Len(new.lines)
               PROVE  /\ Cardinality(Messages(new, c.offset, c.end)) <= WindowMessages
                      /\ Fits(new, c.offset, c.end)
    BY <2>1 DEF Frozen
  <2>2. c.end <= Len(old.lines) /\ \A i \in 1 .. c.end : new.lines[i] = old.lines[i]
    BY <1>6, <2>1
  <2>3. /\ Messages(new, c.offset, c.end) = Messages(old, c.offset, c.end)
        /\ Fits(new, c.offset, c.end) = Fits(old, c.offset, c.end)
    <3>1. c.offset \in Nat /\ c.end \in Nat
      BY <1>1, <2>1
    <3> QED  BY <2>2, <3>1, SameMessages
  <2> QED  BY <1>4, <2>1, <2>2, <2>3 DEF Frozen
<1>8. c.id = new.id /\ c.offset <= Len(new.lines) =>
          c.offset <= Len(old.lines) /\ Messages(new, 0, c.offset) = Messages(old, 0, c.offset)
  <2> SUFFICES ASSUME c.id = new.id, c.offset <= Len(new.lines)
               PROVE  c.offset <= Len(old.lines) /\ Messages(new, 0, c.offset) = Messages(old, 0, c.offset)
    OBVIOUS
  <2>1. c.offset <= Len(old.lines) /\ \A i \in 1 .. c.offset : new.lines[i] = old.lines[i]
    BY <1>1, <1>6
  <2> QED  BY <1>1, <2>1, SameMessages
<1> QED  BY <1>4, <1>5, <1>7, <1>8 DEF c, old

LEMMA FilesKeep == ASSUME SourceInv, Files PROVE SourceInv'
<1>1. \A f \in File : files'[f] \in SourceFile /\ FileMoves(files[f], files'[f])
  BY FilesMove DEF SourceInv
<1>2. UNCHANGED <<rules, cursors, run, tracked, done>>
  BY DEF Files
<1>3. SourceTypeOK'
  <2>1. files' \in [File -> SourceFile]
    <3>1. \E f \in File : files' = [files EXCEPT ![f] = files'[f]]
      BY DEF Files, Replace, Append1, SourceInv, SourceTypeOK
    <3>2. files \in [File -> SourceFile]
      BY DEF SourceInv, SourceTypeOK, SourceFile
    <3> QED  BY <1>1, <3>1, <3>2
  <2> QED  BY <1>2, <2>1 DEF SourceInv, SourceTypeOK, SourceFile
<1>4. CursorsWithin'
  <2> SUFFICES ASSUME NEW r \in Rule, NEW f \in File, cursors[<<r, f>>] # NoCursor
               PROVE  /\ cursors[<<r, f>>].id <= files'[f].id
                      /\ cursors[<<r, f>>].id = files'[f].id /\ files'[f].grows =>
                            /\ cursors[<<r, f>>].offset <= Len(files'[f].lines)
                            /\ cursors[<<r, f>>].end # Open => cursors[<<r, f>>].end <= Len(files'[f].lines)
    BY <1>2 DEF CursorsWithin, OfFile
  <2> QED  BY <1>1, RowStaysRight
<1>5. RangesFrozen'
  <2> SUFFICES ASSUME NEW r \in Rule, NEW f \in File, cursors[<<r, f>>] # NoCursor, cursors[<<r, f>>].end # Open
               PROVE  Frozen(files'[f], cursors[<<r, f>>])
    BY <1>2 DEF RangesFrozen, Frozen, Messages, Fits
  <2> QED  BY <1>1, RowStaysRight
<1>6. ConsumedIsDone'
  <2> SUFFICES ASSUME NEW r \in Rule, NEW f \in File, cursors[<<r, f>>] # NoCursor,
                      cursors[<<r, f>>].id = files'[f].id, cursors[<<r, f>>].offset <= Len(files'[f].lines),
                      NEW i \in Messages(files'[f], 0, cursors[<<r, f>>].offset)
               PROVE  \E e \in done : e.rule = r /\ e.file = f /\ e.id = files'[f].id /\ e.from < i /\ i <= e.to
    BY <1>2 DEF ConsumedIsDone, Covers, Messages
  <2>1. files'[f] \in SourceFile /\ FileMoves(files[f], files'[f])
    BY <1>1
  <2>2. /\ cursors[<<r, f>>].id = files[f].id /\ cursors[<<r, f>>].offset <= Len(files[f].lines)
        /\ i \in Messages(files[f], 0, cursors[<<r, f>>].offset)
    BY <2>1, RowStaysRight
  <2>3. \E e \in done : Covers(e, r, f, i)
    BY <2>2 DEF SourceInv, ConsumedIsDone
  <2> QED  BY <2>2, <2>3 DEF Covers
<1>7. SentBehind' /\ WindowsDisjoint' /\ EventFrozen'
  BY <1>2 DEF SourceInv, SentBehind, WindowsDisjoint, EventFrozen, Row, Here
<1> QED  BY <1>3, <1>4, <1>5, <1>6, <1>7 DEF SourceInv

LEMMA RemoveKeeps ==
    ASSUME SourceInv, NEW r \in Rule, RemoveCursors(r), UNCHANGED <<files, run>>, tracked' = Others(tracked, r),
           rules' \in [Rule -> StoredRule \cup {NoRule}],
           done' = Others(done, r) \/ done' = done
    PROVE  SourceInv'
<1>1. /\ run = NoRun /\ tracked' = {e \in tracked : e.rule # r}
      /\ done' = {e \in done : e.rule # r} \/ done' = done
      /\ cursors' = [rf \in Rule \X File |-> IF rf[1] = r THEN NoCursor ELSE cursors[rf]]
  BY DEF RemoveCursors, Others
<1>2. \A q \in Rule, f \in File : cursors'[<<q, f>>] = IF q = r THEN NoCursor ELSE cursors[<<q, f>>]
  BY <1>1
<1>3. SourceTypeOK'
  BY <1>1 DEF SourceInv, SourceTypeOK
<1>4. CursorsWithin'
  BY <1>2 DEF SourceInv, CursorsWithin, OfFile
<1>5. RangesFrozen'
  BY <1>2 DEF SourceInv, RangesFrozen, Frozen, Messages, Fits
<1>6. SentBehind'
  <2> SUFFICES ASSUME NEW e \in tracked'
               PROVE  LET c == cursors'[<<e.rule, e.file>>] IN
                      /\ c # NoCursor /\ e.from <= e.to
                      /\ c # NoCursor => e.id = c.id /\ (e.to <= c.offset \/ (e.from = c.offset /\ e.to = c.end))
    BY DEF SentBehind
  <2>1. e \in tracked /\ e.rule # r /\ e.rule \in Rule /\ e.file \in File
    BY <1>1 DEF SourceInv, SourceTypeOK, Event
  <2>2. cursors'[<<e.rule, e.file>>] = cursors[<<e.rule, e.file>>]
    BY <1>2, <2>1
  <2> QED  BY <2>1, <2>2 DEF SourceInv, SentBehind
<1>7. WindowsDisjoint' /\ EventFrozen'
  BY <1>1 DEF SourceInv, WindowsDisjoint, EventFrozen
<1>8. ConsumedIsDone'
  <2> SUFFICES ASSUME NEW q \in Rule, NEW f \in File, cursors'[<<q, f>>] # NoCursor,
                      cursors'[<<q, f>>].id = files[f].id, cursors'[<<q, f>>].offset <= Len(files[f].lines),
                      NEW i \in Messages(files[f], 0, cursors'[<<q, f>>].offset)
               PROVE  \E e \in done' : Covers(e, q, f, i)
    BY DEF ConsumedIsDone, Covers, Messages
  <2>1. q # r /\ cursors'[<<q, f>>] = cursors[<<q, f>>]
    BY <1>2
  <2>2. PICK e \in done : Covers(e, q, f, i)
    BY <2>1 DEF SourceInv, ConsumedIsDone
  <2>3. e \in done'
    BY <1>1, <2>1, <2>2 DEF Covers
  <2> QED  BY <2>2, <2>3
<1> QED  BY <1>3, <1>4, <1>5, <1>6, <1>7, <1>8 DEF SourceInv

LEMMA RulesKeep ==
    ASSUME SourceInv, NEW r \in Rule, Change(r) \/ Delete(r) \/ DeleteHalf(r) \/ Claim(r)
    PROVE  SourceInv'
<1>1. rules \in [Rule -> StoredRule \cup {NoRule}] /\ run \in SourceRun \cup {NoRun}
  BY DEF SourceInv, SourceTypeOK
<1>2. CASE Change(r)
  <2>1. \A b \in BOOLEAN : NewRule(b) \in StoredRule
    BY DEF NewRule, StoredRule
  <2>2. rules[r] # NoRule => [rules[r] EXCEPT !.enabled = ~@] \in StoredRule
    BY <1>1 DEF StoredRule
  <2>3. rules' \in [Rule -> StoredRule \cup {NoRule}]
    BY <1>1, <1>2, <2>1, <2>2 DEF Change
  <2>4. run' = NoRun
    BY <1>2 DEF Change
  <2> QED  BY <1>2, <2>3, <2>4, NothingMoves DEF Change, EventFrozen
<1>3. CASE Delete(r)
  <2>1. rules' \in [Rule -> StoredRule \cup {NoRule}]
    BY <1>1, <1>3 DEF Delete
  <2> QED  BY <1>3, <2>1, RemoveKeeps DEF Delete
<1>4. CASE DeleteHalf(r)
  <2>1. rules' \in [Rule -> StoredRule \cup {NoRule}]
    BY <1>1, <1>4 DEF DeleteHalf
  <2> QED  BY <1>4, <2>1, RemoveKeeps DEF DeleteHalf
<1>5. CASE Claim(r)
  <2> DEFINE after == IF Page(Folder[r], rules[r].after) = {} THEN 0 ELSE rules[r].after
             todo == Page(Folder[r], after)
             copy == [rules[r] EXCEPT !.after = after]
  <2>1. rules[r] \in StoredRule
    BY <1>1, <1>5 DEF Claim
  <2>2. after \in Nat /\ copy \in StoredRule
    BY <2>1 DEF StoredRule
  <2>3. todo \in SUBSET File
    BY SourceAssumption DEF Page
  <2>4. run' = [rule |-> r, copy |-> copy, todo |-> todo, full |-> Cardinality(todo) = PageSize,
                event |-> NoRun, step |-> "read"]
    BY <1>5 DEF Claim, NewRun
  <2>5. (Cardinality(todo) = PageSize) \in BOOLEAN
    OBVIOUS
  <2> HIDE DEF after, todo, copy
  <2>6. run' \in SourceRun /\ run'.step = "read"
    BY <2>2, <2>3, <2>4, <2>5 DEF SourceRun
  <2>7. EventFrozen'
    BY <2>6 DEF EventFrozen
  <2> QED  BY <1>1, <1>5, <2>6, <2>7, NothingMoves DEF Claim
<1> QED  BY <1>2, <1>3, <1>4, <1>5

\* The steps that only move the run along.
LEMMA RunMovesAlong ==
    ASSUME SourceInv, EndPage \/ ExtractFails \/ Finish \/ Die
    PROVE  SourceInv'
<1>1. rules \in [Rule -> StoredRule \cup {NoRule}] /\ run \in SourceRun
  BY DEF SourceInv, SourceTypeOK, EndPage, Reading, ExtractFails, Extracting, Finish, Die
<1>2. CASE EndPage
  <2> DEFINE after == IF run.full THEN run.copy.after ELSE 0
  <2>1. run' = [run EXCEPT !.copy = [run.copy EXCEPT !.after = after], !.step = "finish"]
    BY <1>1, <1>2 DEF EndPage, SourceRun
  <2>2. [run.copy EXCEPT !.after = after] \in StoredRule
    BY <1>1 DEF SourceRun, StoredRule
  <2> HIDE DEF after
  <2>3. run' \in SourceRun /\ run'.step = "finish"
    BY <1>1, <2>1, <2>2 DEF SourceRun
  <2>4. EventFrozen'
    BY <2>3 DEF EventFrozen
  <2> QED  BY <1>1, <1>2, <2>3, <2>4, NothingMoves DEF EndPage
<1>3. CASE ExtractFails
  <2>1. run' \in SourceRun /\ run'.step = "finish"
    BY <1>1, <1>3 DEF SourceRun, ExtractFails
  <2>2. EventFrozen'
    BY <2>1 DEF EventFrozen
  <2> QED  BY <1>1, <1>3, <2>1, <2>2, NothingMoves DEF ExtractFails
<1>4. CASE Finish
  <2>1. run.copy \in StoredRule /\ run.rule \in Rule
    BY <1>1 DEF SourceRun
  <2>2. rules' \in [Rule -> StoredRule \cup {NoRule}] /\ run' = NoRun
    BY <1>1, <1>4, <2>1 DEF Finish
  <2>3. EventFrozen'
    BY <2>2 DEF EventFrozen
  <2> QED  BY <1>4, <2>2, <2>3, NothingMoves DEF Finish
<1>5. CASE Die
  <2>1. run' = NoRun
    BY <1>5 DEF Die
  <2>2. EventFrozen'
    BY <2>1 DEF EventFrozen
  <2> QED  BY <1>1, <1>5, <2>1, <2>2, NothingMoves DEF Die
<1> QED  BY <1>2, <1>3, <1>4, <1>5

LEMMA ExtractedKeeps == ASSUME SourceInv, Extracted PROVE SourceInv'
<1>1. /\ run \in SourceRun /\ run.step = "extract" /\ run # NoRun
      /\ run' = [run EXCEPT !.step = "commit"] /\ done' = done \cup {run.event}
      /\ UNCHANGED <<files, rules, cursors, tracked>>
  BY DEF SourceInv, SourceTypeOK, Extracted, Extracting
<1>2. /\ run.todo # {} /\ run.event \in Event /\ run.event.rule = run.rule /\ run.event.file = Here
      /\ Row = [id |-> run.event.id, offset |-> run.event.from, end |-> run.event.to]
  BY <1>1 DEF SourceInv, EventFrozen
<1>3. run' \in SourceRun /\ run'.step = "commit" /\ run'.todo = run.todo /\ run'.rule = run.rule /\ run'.event = run.event
  BY <1>1 DEF SourceRun
<1>4. SourceTypeOK'
  BY <1>1, <1>2, <1>3 DEF SourceInv, SourceTypeOK
<1>5. CursorsWithin' /\ RangesFrozen'
  BY <1>1 DEF SourceInv, CursorsWithin, OfFile, RangesFrozen, Frozen, Messages, Fits
<1>6. SentBehind' /\ WindowsDisjoint'
  BY <1>1 DEF SourceInv, SentBehind, WindowsDisjoint
<1>7. EventFrozen'
  <2>1. Here' = Here
    BY <1>3 DEF Here
  <2>2. Row' = Row
    BY <1>1, <1>3, <2>1 DEF Row
  <2> QED  BY <1>1, <1>2, <1>3, <2>1, <2>2 DEF EventFrozen
<1>8. ConsumedIsDone'
  <2>1. done \subseteq done'
    BY <1>1
  <2> QED  BY <1>1, <2>1 DEF SourceInv, ConsumedIsDone, Covers, Messages
<1> QED  BY <1>4, <1>5, <1>6, <1>7, <1>8 DEF SourceInv

\* The file a run is at, its row, and the window it reads there.
LEMMA WindowHere ==
    ASSUME SourceInv, More, Readable(files[Here], Row)
    PROVE  LET from == From(Row)  to == To(files[Here], Row) IN
           /\ from \in Nat /\ to \in Nat /\ from <= to /\ to <= Len(files[Here].lines)
           /\ to - from <= WindowLines
           /\ Cardinality(Messages(files[Here], from, to)) <= WindowMessages
           /\ Fits(files[Here], from, to)
           /\ Row # NoCursor => Row.id = files[Here].id /\ Row.offset = from /\ (Row.end # Open => Row.end = to)
           /\ Row = NoCursor => from = 0
<1>1. run # NoRun /\ run.todo # {} /\ run.rule \in Rule /\ Here \in File
  BY HereIn DEF More, Reading, SourceInv, SourceTypeOK, SourceRun
<1>2. /\ files[Here] \in SourceFile /\ Len(files[Here].lines) \in Nat
      /\ Row \in Cursor \cup {NoCursor}
      /\ Row # NoCursor => (Row.end # Open => Frozen(files[Here], Row) /\ Row.offset <= Row.end)
  BY <1>1, RowFacts DEF Row
<1>3. /\ From(Row) \in Nat /\ Limit(files[Here], Row) \in Nat
      /\ Limit(files[Here], Row) <= Len(files[Here].lines)
  BY <1>2, FromLimit
<1>4. /\ To(files[Here], Row) \in Nat
      /\ From(Row) <= To(files[Here], Row) /\ To(files[Here], Row) <= Limit(files[Here], Row)
      /\ To(files[Here], Row) - From(Row) <= WindowLines
      /\ Cardinality(Messages(files[Here], From(Row), To(files[Here], Row))) <= WindowMessages
      /\ Fits(files[Here], From(Row), To(files[Here], Row))
  BY <1>2, WindowRight
<1>5. Row # NoCursor => Row.id = files[Here].id /\ Row.offset = From(Row)
  BY DEF Readable, Intact, From
<1>6. Row # NoCursor /\ Row.end # Open => Row.end = To(files[Here], Row)
  BY <1>2, RetryReadsTheSame
<1>7. Row = NoCursor => From(Row) = 0
  BY DEF From
<1> QED  BY <1>2, <1>3, <1>4, <1>5, <1>6, <1>7

\* What was sent of the file lies before the window, or is the window.
LEMMA SentHere ==
    ASSUME SourceInv, More, Readable(files[Here], Row), NEW e \in tracked, e.rule = run.rule, e.file = Here
    PROVE  /\ e.id = files[Here].id /\ e.from \in Nat /\ e.to \in Nat /\ e.from <= e.to
           /\ e.to <= From(Row) \/ (e.from = From(Row) /\ e.to = To(files[Here], Row))
<1>1. e \in Event /\ e.from \in Nat /\ e.to \in Nat
  BY DEF SourceInv, SourceTypeOK, Event
<1>2. /\ Row # NoCursor /\ e.from <= e.to
      /\ e.id = Row.id /\ (e.to <= Row.offset \/ (e.from = Row.offset /\ e.to = Row.end))
  BY DEF SourceInv, SentBehind, Row
<1>3. e.to # Open
  BY <1>1, HistoryAssumption
<1> QED  BY <1>1, <1>2, <1>3, WindowHere

\* Behind the window nothing was passed over.
LEMMA DoneHere ==
    ASSUME SourceInv, More, Readable(files[Here], Row)
    PROVE  \A i \in Messages(files[Here], 0, From(Row)) : \E e \in done : Covers(e, run.rule, Here, i)
<1>1. run.rule \in Rule /\ Here \in File
  BY HereIn DEF More, Reading, SourceInv, SourceTypeOK, SourceRun
<1>2. CASE Row = NoCursor
  <2>1. 0 + 1 .. From(Row) = {}
    BY <1>2, WindowHere
  <2> QED  BY <2>1 DEF Messages
<1>3. CASE Row # NoCursor
  <2>1. Row.id = files[Here].id /\ Row.offset = From(Row) /\ From(Row) <= Len(files[Here].lines)
    BY <1>3, WindowHere
  <2> QED  BY <1>1, <1>3, <2>1 DEF SourceInv, ConsumedIsDone, Row
<1> QED  BY <1>2, <1>3

\* The cursor is written at an end of the window, with no range frozen.
LEMMA MovesOn ==
    ASSUME SourceInv, More, Readable(files[Here], Row), NEW offset,
           offset = To(files[Here], Row), Messages(files[Here], From(Row), offset) = {},
           SetRow(files[Here].id, offset, Open), UNCHANGED <<files, tracked, done>>
    PROVE  /\ cursors' \in [Rule \X File -> Cursor \cup {NoCursor}]
           /\ CursorsWithin' /\ RangesFrozen' /\ SentBehind' /\ WindowsDisjoint' /\ ConsumedIsDone'
<1> DEFINE row == [id |-> files[Here].id, offset |-> offset, end |-> Open]
<1>1. run # NoRun /\ run.todo # {} /\ run.rule \in Rule /\ Here \in File
  BY HereIn DEF More, Reading, SourceInv, SourceTypeOK, SourceRun
<1>2. files[Here].id \in Nat /\ From(Row) \in Nat /\ offset \in Nat /\ offset <= Len(files[Here].lines) /\ From(Row) <= offset
  <2>1. files[Here] \in SourceFile
    BY <1>1, RowFacts
  <2> QED  BY <2>1, WindowHere DEF SourceFile
<1>3. row \in Cursor /\ row.id = files[Here].id /\ row.offset = offset /\ row.end = Open
  BY <1>2 DEF Cursor
<1>4. cursors' = [cursors EXCEPT ![<<run.rule, Here>>] = row]
  BY DEF SetRow
<1>5. \A i \in Messages(files[Here], 0, offset) : i \in Messages(files[Here], 0, From(Row))
  <2> SUFFICES ASSUME NEW i \in Messages(files[Here], 0, offset), i \notin Messages(files[Here], 0, From(Row))
               PROVE  FALSE
    OBVIOUS
  <2>1. i \in Messages(files[Here], From(Row), offset)
    BY <1>2 DEF Messages
  <2> QED  BY <2>1
<1>6. \A i \in Messages(files[Here], 0, offset) : \E e \in done : Covers(e, run.rule, Here, i)
  BY <1>5, DoneHere
<1>7. \A e \in tracked : e.rule = run.rule /\ e.file = Here => e.id = row.id /\ e.to <= row.offset
  <2> SUFFICES ASSUME NEW e \in tracked, e.rule = run.rule, e.file = Here
               PROVE  e.id = row.id /\ e.to <= row.offset
    OBVIOUS
  <2> QED  BY <1>2, <1>3, SentHere
<1> HIDE DEF row
<1>8. cursors' \in [Rule \X File -> Cursor \cup {NoCursor}] /\ CursorsWithin' /\ RangesFrozen'
  <2>1. row.id <= files[Here].id
    BY <1>2, <1>3
  <2> QED  BY <1>1, <1>2, <1>3, <1>4, <2>1, RowWritten
<1>9. SentBehind'
  <2>1. tracked' = tracked /\ tracked' \subseteq Event
    BY DEF SourceInv, SourceTypeOK
  <2> QED  BY <1>1, <1>3, <1>4, <1>7, <2>1, SentStaysBehind
<1>10. ConsumedIsDone'
  BY <1>1, <1>3, <1>4, <1>6, ConsumedStaysDone
<1>11. WindowsDisjoint'
  BY DEF SourceInv, WindowsDisjoint
<1> QED  BY <1>8, <1>9, <1>10, <1>11

LEMMA PassKeeps == ASSUME SourceInv, Pass PROVE SourceInv'
<1>1. /\ run \in SourceRun /\ run.todo # {} /\ run # NoRun /\ Here \in File
      /\ run' = [run EXCEPT !.copy.after = Here, !.todo = @ \ {Here}]
      /\ run.step = "read" /\ UNCHANGED <<files, rules, tracked, done>>
  BY HereIn DEF SourceInv, SourceTypeOK, Pass, More, Reading
<1>2. run' \in SourceRun /\ run'.step = "read"
  <2>1. [run.copy EXCEPT !.after = Here] \in StoredRule
    BY <1>1, HistoryAssumption DEF SourceRun, StoredRule, File
  <2>2. run' = [run EXCEPT !.copy = [run.copy EXCEPT !.after = Here], !.todo = run.todo \ {Here}]
    BY <1>1 DEF SourceRun
  <2> QED  BY <1>1, <2>1, <2>2 DEF SourceRun
<1>3. EventFrozen'
  BY <1>2 DEF EventFrozen
<1>4. rules' \in [Rule -> StoredRule \cup {NoRule}]
  BY <1>1 DEF SourceInv, SourceTypeOK
<1>5. CASE UNCHANGED cursors
  BY <1>1, <1>2, <1>3, <1>4, <1>5, NothingMoves
<1>6. CASE /\ Readable(files[Here], Row) /\ To(files[Here], Row) = From(Row)
           /\ SetRow(files[Here].id, From(Row), Open)
  <2>1. More
    BY DEF Pass
  <2>2. Messages(files[Here], From(Row), From(Row)) = {}
    <3>1. From(Row) \in Nat
      BY <1>6, <2>1, WindowHere
    <3>2. From(Row) + 1 .. From(Row) = {}
      BY <3>1
    <3> QED  BY <3>2 DEF Messages
  <2>3. SetRow(files[Here].id, To(files[Here], Row), Open)
    BY <1>6
  <2>4. Messages(files[Here], From(Row), To(files[Here], Row)) = {}
    BY <1>6, <2>2
  <2>5. /\ cursors' \in [Rule \X File -> Cursor \cup {NoCursor}]
        /\ CursorsWithin' /\ RangesFrozen' /\ SentBehind' /\ WindowsDisjoint' /\ ConsumedIsDone'
    BY <1>1, <1>6, <2>1, <2>3, <2>4, MovesOn
  <2>6. SourceTypeOK'
    BY <1>1, <1>2, <2>5 DEF SourceInv, SourceTypeOK
  <2> QED  BY <1>3, <2>5, <2>6 DEF SourceInv
<1> QED  BY <1>5, <1>6 DEF Pass

LEMMA AdvanceKeeps == ASSUME SourceInv, Advance PROVE SourceInv'
<1>1. /\ run \in SourceRun /\ run.todo # {} /\ run # NoRun /\ Here \in File
      /\ run' = [run EXCEPT !.copy.after = Here, !.step = "finish"]
      /\ UNCHANGED <<files, rules, tracked, done>>
  BY HereIn DEF SourceInv, SourceTypeOK, Advance, More, Reading
<1>2. run' \in SourceRun /\ run'.step = "finish"
  <2>1. [run.copy EXCEPT !.after = Here] \in StoredRule
    BY <1>1, HistoryAssumption DEF SourceRun, StoredRule, File
  <2>2. run' = [run EXCEPT !.copy = [run.copy EXCEPT !.after = Here], !.step = "finish"]
    BY <1>1 DEF SourceRun
  <2> QED  BY <1>1, <2>1, <2>2 DEF SourceRun
<1>3. EventFrozen'
  BY <1>2 DEF EventFrozen
<1>4. /\ More /\ Readable(files[Here], Row)
      /\ Messages(files[Here], From(Row), To(files[Here], Row)) = {}
      /\ SetRow(files[Here].id, To(files[Here], Row), Open)
  BY DEF Advance
<1>5. /\ cursors' \in [Rule \X File -> Cursor \cup {NoCursor}]
      /\ CursorsWithin' /\ RangesFrozen' /\ SentBehind' /\ WindowsDisjoint' /\ ConsumedIsDone'
  BY <1>1, <1>4, MovesOn
<1>6. SourceTypeOK'
  BY <1>1, <1>2, <1>5 DEF SourceInv, SourceTypeOK
<1> QED  BY <1>3, <1>5, <1>6 DEF SourceInv

\* Freezing a window: it was sent before, or begins where all that was sent ends.
LEMMA FreezeKeeps == ASSUME SourceInv, Freeze PROVE SourceInv'
<1> DEFINE from == From(Row)
           to == To(files[Here], Row)
           event == [rule |-> run.rule, file |-> Here, id |-> files[Here].id, from |-> from, to |-> to]
           row == [id |-> files[Here].id, offset |-> from, end |-> to]
<1>1. /\ run \in SourceRun /\ run.todo # {} /\ run # NoRun /\ Here \in File /\ run.rule \in Rule
      /\ UNCHANGED <<files, rules, done>> /\ More /\ Readable(files[Here], Row)
  BY HereIn DEF SourceInv, SourceTypeOK, Freeze, More, Reading, SourceRun
<1>2. /\ run' = [run EXCEPT !.event = event, !.step = "extract"] /\ tracked' = tracked \cup {event}
      /\ cursors' = [cursors EXCEPT ![<<run.rule, Here>>] = row]
  BY DEF Freeze, Send, NewEvent, SetRow
<1>3. /\ files[Here].id \in Nat /\ from \in Nat /\ to \in Nat /\ from <= to /\ to <= Len(files[Here].lines)
      /\ Len(files[Here].lines) \in Nat
      /\ to - from <= WindowLines /\ Cardinality(Messages(files[Here], from, to)) <= WindowMessages
      /\ Fits(files[Here], from, to)
  <2>1. files[Here] \in SourceFile /\ Len(files[Here].lines) \in Nat
    BY <1>1, RowFacts
  <2> QED  BY <1>1, <2>1, WindowHere DEF SourceFile
<1>4. /\ row \in Cursor /\ row.id = files[Here].id /\ row.offset = from /\ row.end = to
      /\ event \in Event /\ event.rule = run.rule /\ event.file = Here /\ event.id = files[Here].id
      /\ event.from = from /\ event.to = to
  BY <1>1, <1>3 DEF Cursor, Event
<1>5. \A e \in tracked : e.rule = run.rule /\ e.file = Here =>
          e.id = files[Here].id /\ (e.to <= from \/ (e.from = from /\ e.to = to))
  <2> SUFFICES ASSUME NEW e \in tracked, e.rule = run.rule, e.file = Here
               PROVE  e.id = files[Here].id /\ (e.to <= from \/ (e.from = from /\ e.to = to))
    OBVIOUS
  <2> QED  BY <1>1, SentHere
<1>6.
      \A i \in Messages(files[Here], 0, from) : \E e \in done : Covers(e, run.rule, Here, i)
  BY <1>1, DoneHere
<1>7. \A e \in Event : e = [rule |-> e.rule, file |-> e.file, id |-> e.id, from |-> e.from, to |-> e.to]
  BY DEF Event
<1>8. \A e \in tracked : e.rule = run.rule /\ e.file = Here => e.to <= from \/ e = event
  <2>1. tracked \subseteq Event
    BY DEF SourceInv, SourceTypeOK
  <2> QED  BY <1>5, <1>7, <2>1
<1> HIDE DEF from, to, event, row
<1>9. run' \in SourceRun /\ run'.step = "extract" /\ run'.todo = run.todo /\ run'.rule = run.rule /\ run'.event = event
  BY <1>1, <1>2, <1>4 DEF SourceRun
<1>10. Frozen(files[Here], row)
  BY <1>3, <1>4 DEF Frozen
<1>11. cursors' \in [Rule \X File -> Cursor \cup {NoCursor}] /\ CursorsWithin' /\ RangesFrozen'
  <2>1. row.id <= files[Here].id /\ row.offset <= Len(files[Here].lines) /\ row.end <= Len(files[Here].lines)
    BY <1>3, <1>4
  <2> QED  BY <1>1, <1>2, <1>4, <1>10, <2>1, RowWritten
<1>12. SourceTypeOK'
  BY <1>1, <1>2, <1>4, <1>9, <1>11 DEF SourceInv, SourceTypeOK
<1>13. SentBehind'
  <2>1. \A e \in tracked' : \/ e \in tracked
                         \/ /\ e.rule = run.rule /\ e.file = Here /\ e.id = row.id
                            /\ e.from = row.offset /\ e.to = row.end /\ e.from <= e.to
    BY <1>2, <1>3, <1>4
  <2>2. tracked' \subseteq Event
    BY <1>12 DEF SourceTypeOK
  <2>3. \A e \in tracked : e.rule = run.rule /\ e.file = Here =>
            e.id = row.id /\ (e.to <= row.offset \/ (e.from = row.offset /\ e.to = row.end))
    BY <1>4, <1>5
  <2> QED  BY <1>1, <1>2, <1>4, <2>1, <2>2, <2>3, SentStaysBehind
<1>14. WindowsDisjoint'
  <2> SUFFICES ASSUME NEW e \in tracked', NEW g \in tracked', e.rule = g.rule, e.file = g.file, e.id = g.id, e # g
               PROVE  e.to <= g.from \/ g.to <= e.from
    BY DEF WindowsDisjoint
  <2>1. CASE e \in tracked /\ g \in tracked
    BY <2>1 DEF SourceInv, WindowsDisjoint
  <2>2. CASE e = event /\ g \in tracked
    BY <1>4, <1>8, <2>2
  <2>3. CASE g = event /\ e \in tracked
    BY <1>4, <1>8, <2>3
  <2> QED  BY <1>2, <2>1, <2>2, <2>3
<1>15. ConsumedIsDone'
  BY <1>1, <1>2, <1>4, <1>6, ConsumedStaysDone
<1>16. EventFrozen'
  <2>1. Here' = Here
    BY <1>9 DEF Here
  <2>2. Row' = row
    <3>1. Row' = cursors'[<<run.rule, Here>>]
      BY <1>9, <2>1 DEF Row
    <3> QED  BY <1>1, <1>2, <3>1 DEF SourceInv, SourceTypeOK
  <2>3. row = [id |-> event.id, offset |-> event.from, end |-> event.to]
    BY <1>4 DEF row
  <2> QED  BY <1>1, <1>4, <1>9, <2>1, <2>2, <2>3 DEF EventFrozen
<1> QED  BY <1>11, <1>12, <1>13, <1>14, <1>15, <1>16 DEF SourceInv

\* The cursor moves behind an event that is done.
LEMMA CommitKeeps == ASSUME SourceInv, Commit PROVE SourceInv'
<1> DEFINE row == [id |-> run.event.id, offset |-> run.event.to, end |-> Open]
<1>1. /\ run \in SourceRun /\ run # NoRun /\ run.step = "commit"
      /\ run' = [run EXCEPT !.copy.after = Here, !.step = "finish"] /\ UNCHANGED <<files, rules, tracked, done>>
      /\ cursors' = [cursors EXCEPT ![<<run.rule, Here>>] = row]
  BY DEF SourceInv, SourceTypeOK, Commit, SetRow
<1>2. /\ run.todo # {} /\ run.event \in Event /\ run.event.rule = run.rule /\ run.event.file = Here
      /\ Row = [id |-> run.event.id, offset |-> run.event.from, end |-> run.event.to] /\ run.event \in done
  BY <1>1 DEF SourceInv, EventFrozen
<1>3. run.rule \in Rule /\ Here \in File /\ run.event.id \in Nat /\ run.event.from \in Nat /\ run.event.to \in Nat
  BY <1>2 DEF Event
<1>4. Row.id = run.event.id /\ Row.offset = run.event.from /\ Row.end = run.event.to /\ Row \in Cursor
  BY <1>2, <1>3 DEF Cursor
<1>5. Row # NoCursor /\ Row.end # Open
  BY <1>3, <1>4, HistoryAssumption
<1>6. Row.id <= files[Here].id /\ Row.offset <= Row.end
  BY <1>3, <1>5, RowFacts DEF Row
<1>7. /\ row.id = run.event.id /\ row.offset = run.event.to /\ row.end = Open /\ row \in Cursor
  BY <1>3 DEF Cursor
<1>8. Row.id = files[Here].id /\ files[Here].grows => Row.end <= Len(files[Here].lines)
  BY <1>3, <1>5 DEF SourceInv, CursorsWithin, OfFile, Row
<1> HIDE DEF row
<1>9. cursors' \in [Rule \X File -> Cursor \cup {NoCursor}] /\ CursorsWithin' /\ RangesFrozen'
  <2>1. row.id <= files[Here].id
    BY <1>4, <1>6, <1>7
  <2>2. row.id = files[Here].id /\ files[Here].grows => row.offset <= Len(files[Here].lines)
    BY <1>4, <1>7, <1>8
  <2> QED  BY <1>1, <1>2, <1>7, <2>1, <2>2, RowWritten
<1>10. SentBehind'
  <2>1. tracked' = tracked /\ tracked' \subseteq Event
    BY <1>1 DEF SourceInv, SourceTypeOK
  <2>2. \A e \in tracked : e.rule = run.rule /\ e.file = Here => e.id = row.id /\ e.to <= row.offset
    <3> SUFFICES ASSUME NEW e \in tracked, e.rule = run.rule, e.file = Here
                 PROVE  e.id = row.id /\ e.to <= row.offset
      OBVIOUS
    <3>1. e.to \in Nat
      BY DEF SourceInv, SourceTypeOK, Event
    <3>2. e.id = Row.id /\ (e.to <= Row.offset \/ e.to = Row.end)
      BY DEF SourceInv, SentBehind, Row
    <3> QED  BY <1>3, <1>4, <1>6, <1>7, <3>1, <3>2
  <2> QED  BY <1>1, <1>2, <1>7, <2>1, <2>2, SentStaysBehind
<1>11. ConsumedIsDone'
  <2>1. ASSUME row.id = files[Here].id, row.offset <= Len(files[Here].lines),
               NEW i \in Messages(files[Here], 0, row.offset)
        PROVE  \E e \in done : Covers(e, run.rule, Here, i)
    <3>1. i \in Nat /\ i <= run.event.to /\ Len(files[Here].lines) \in Nat
      BY <1>3, <1>7, RowFacts DEF Messages
    <3>2. CASE run.event.from < i
      BY <1>2, <1>7, <2>1, <3>1, <3>2 DEF Covers
    <3>3. CASE i <= run.event.from
      <4>1. i \in Messages(files[Here], 0, Row.offset)
        BY <1>3, <1>4, <1>7, <3>3 DEF Messages
      <4>2. Row.id = files[Here].id /\ Row.offset <= Len(files[Here].lines)
        BY <1>3, <1>4, <1>6, <1>7, <2>1, <3>1
      <4> QED  BY <1>3, <1>5, <4>1, <4>2 DEF SourceInv, ConsumedIsDone, Row
    <3> QED  BY <1>3, <3>1, <3>2, <3>3
  <2> QED  BY <1>1, <1>2, <1>7, <2>1, ConsumedStaysDone
<1>12. run' \in SourceRun /\ run'.step = "finish"
  <2>1. [run.copy EXCEPT !.after = Here] \in StoredRule
    BY <1>1, <1>3, HistoryAssumption DEF SourceRun, StoredRule, File
  <2>2. run' = [run EXCEPT !.copy = [run.copy EXCEPT !.after = Here], !.step = "finish"]
    BY <1>1 DEF SourceRun
  <2> QED  BY <1>1, <2>1, <2>2 DEF SourceRun
<1>13. EventFrozen' /\ WindowsDisjoint' /\ SourceTypeOK'
  BY <1>1, <1>9, <1>12 DEF SourceInv, SourceTypeOK, EventFrozen, WindowsDisjoint
<1> QED  BY <1>9, <1>10, <1>11, <1>13 DEF SourceInv

\* The invariant holds in every state of the source schedules, whatever the
\* files, the provider, the process and the user do (run_history).
THEOREM SourceInvariant == SourceSpec => []SourceInv
<1>1. SourceInit => SourceInv
  BY SourceInitRight
<1>2. SourceInv /\ [SourceNext]_sourceVars => SourceInv'
  <2> SUFFICES ASSUME SourceInv, [SourceNext]_sourceVars
               PROVE  SourceInv'
    OBVIOUS
  <2>1. CASE UNCHANGED sourceVars
    <3>1. UNCHANGED <<files, cursors, tracked, done, rules, run>>
      BY <2>1 DEF sourceVars
    <3>2. rules' \in [Rule -> StoredRule \cup {NoRule}] /\ run' \in SourceRun \cup {NoRun}
      BY <3>1 DEF SourceInv, SourceTypeOK
    <3>3. EventFrozen'
      BY <3>1 DEF SourceInv, EventFrozen, Row, Here
    <3> QED  BY <3>1, <3>2, <3>3, NothingMoves
  <2>2. CASE Files
    BY <2>2, FilesKeep
  <2>3. ASSUME NEW r \in Rule, Change(r) \/ Delete(r) \/ DeleteHalf(r) \/ Claim(r)
        PROVE  SourceInv'
    BY <2>3, RulesKeep
  <2>4. CASE EndPage \/ ExtractFails \/ Finish \/ Die
    BY <2>4, RunMovesAlong
  <2>5. CASE Pass
    BY <2>5, PassKeeps
  <2>6. CASE Advance
    BY <2>6, AdvanceKeeps
  <2>7. CASE Freeze
    BY <2>7, FreezeKeeps
  <2>8. CASE Extracted
    BY <2>8, ExtractedKeeps
  <2>9. CASE Commit
    BY <2>9, CommitKeeps
  <2> QED  BY <2>1, <2>2, <2>3, <2>4, <2>5, <2>6, <2>7, <2>8, <2>9 DEF SourceNext, Read
<1> QED  BY <1>1, <1>2, PTL DEF SourceSpec

\* Two windows of a history that were sent since the cursors of their rule were
\* last removed are the same or have no line in common (the frozen range of
\* run_history; docs/workbench.md: "later appends cannot change that retry").
\* Nothing is said of what was sent before a deletion that stopped half way.
THEOREM WindowsApart == SourceSpec => []WindowsDisjoint
<1>1. SourceInv => WindowsDisjoint
  BY DEF SourceInv
<1> QED  BY <1>1, SourceInvariant, PTL

\* No message lies behind a cursor unless its extraction is done
\* (source_history.py: "The returned cursor is committed only after extraction
\* succeeds").
THEOREM NothingPassedOver == SourceSpec => []ConsumedIsDone
<1>1. SourceInv => ConsumedIsDone
  BY DEF SourceInv
<1> QED  BY <1>1, SourceInvariant, PTL
=============================================================================
