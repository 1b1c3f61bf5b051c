----------------------------- MODULE SourceJobs -----------------------------
(***************************************************************************)
(* source_jobs.py and source_history.py: the workbench reads conversation  *)
(* files on a schedule and sends one window per run to extraction.  There  *)
(* is one workbench per vault (docs/workbench.md), which does one thing at *)
(* a time: the user's changes to the rules fall between runs.  What goes   *)
(* on meanwhile are the files, and the process may die at any step.        *)
(*                                                                         *)
(* Extraction is seen through its promise (module Extraction): an event    *)
(* that is done is not sent again, one that failed or was interrupted is.  *)
(* Deadlines are abstracted: an enabled rule may run at any moment, and    *)
(* any rule when the user says so.                                         *)
(***************************************************************************)
EXTENDS SourceHistory

CONSTANTS
    LastRule,       \* rules are 1 .. LastRule, in the order of the file
    Folder,         \* the files under the root of each rule
    MaxLines,       \* bound: lines of each file
    Written,        \* bound: the kinds of lines in each file
    MaxReplaced,    \* bound: files that are replaced or cut off
    Poison,         \* files the provider always fails on
    NoRule, NoRun

Rule == 1 .. LastRule

VARIABLES
    files,
    rules,      \* source-jobs.json
    cursors,    \* source_cursors in runtime.sqlite
    run,        \* what the workbench is doing, with its copy of the rule
    tracked,    \* auxiliary: the events handed to extraction since the cursors
                \* of their rule were last removed
    done        \* the events whose receipt is done

sourceVars == <<files, rules, cursors, run, tracked, done>>

Event == [rule : Rule, file : File, id : Nat, from : Nat, to : Nat]

StoredRule == [enabled : BOOLEAN, after : Nat]

SourceRun == [rule : Rule, copy : StoredRule, todo : SUBSET File, full : BOOLEAN,
              event : Event \cup {NoRun}, step : {"read", "extract", "commit", "finish"}]

ASSUME SourceAssumption ==
    /\ LastRule \in Nat
    /\ Folder \in [Rule -> SUBSET File] /\ Written \in [File -> SUBSET Kind]
    /\ NoRule \notin StoredRule /\ NoRun \notin SourceRun /\ NoRun \notin Event

SourceTypeOK ==
    /\ files \in [File -> [id : {1, 2}, lines : Seq(Kind), grows : BOOLEAN]]
    /\ rules \in [Rule -> StoredRule \cup {NoRule}]
    /\ cursors \in [Rule \X File -> Cursor \cup {NoCursor}]
    /\ run \in SourceRun \cup {NoRun}
    /\ tracked \subseteq Event /\ done \subseteq Event

NewRule(enabled) == [enabled |-> enabled, after |-> 0]

SourceInit ==
    /\ files = [f \in File |-> [id |-> 1, lines |-> <<>>, grows |-> TRUE]]
    /\ rules = [r \in Rule |-> NewRule(TRUE)]
    /\ cursors = [rf \in Rule \X File |-> NoCursor]
    /\ run = NoRun
    /\ tracked = {} /\ done = {}

-----------------------------------------------------------------------------

\* The harness appends to its log; a line counts once its newline is written.
Append1(f, kind) ==
    /\ files[f].grows /\ Len(files[f].lines) < MaxLines[f]
    /\ files' = [files EXCEPT ![f].lines = Append(@, kind)]

\* A file is replaced by another, or cut off; one that was cut off does not
\* grow again (only append-only logs are supported).
Changed(f) == files[f].id > 1 \/ ~files[f].grows

Replace(f) ==
    /\ Cardinality({g \in File : Changed(g)}) < MaxReplaced /\ ~Changed(f) /\ files[f].lines # <<>>
    /\ \/ files' = [files EXCEPT ![f] = [id |-> 2, lines |-> <<>>, grows |-> TRUE]]
       \/ files' = [files EXCEPT ![f] = [id |-> 1, lines |-> Front(@.lines), grows |-> FALSE]]

Files ==
    /\ \E f \in File : Replace(f) \/ \E kind \in Written[f] : Append1(f, kind)
    /\ UNCHANGED <<rules, cursors, run, tracked, done>>

-----------------------------------------------------------------------------

\* The user adds a rule, or pauses or resumes one.
Change(r) ==
    /\ run = NoRun
    /\ IF rules[r] = NoRule
       THEN \E enabled \in BOOLEAN : rules' = [rules EXCEPT ![r] = NewRule(enabled)]
       ELSE rules' = [rules EXCEPT ![r].enabled = ~@]
    /\ UNCHANGED <<files, cursors, run, tracked, done>>

\* Deleting a rule removes its cursors, then the rule.
RemoveCursors(r) ==
    /\ run = NoRun /\ rules[r] # NoRule
    /\ cursors' = [rf \in Rule \X File |-> IF rf[1] = r THEN NoCursor ELSE cursors[rf]]

Others(events, r) == {e \in events : e.rule # r}

\* The next rule has another id, so that its events are others.
Delete(r) ==
    /\ RemoveCursors(r)
    /\ rules' = [rules EXCEPT ![r] = NoRule]
    /\ tracked' = Others(tracked, r) /\ done' = Others(done, r)
    /\ UNCHANGED <<files, run>>

\* The process dies in between, or the rules cannot be written: the rule stays,
\* with its id and its receipts, and reads from the start.  What it sent so far
\* it may send again in other windows, if the file has grown; the cursors that
\* kept it from that are gone.
DeleteHalf(r) ==
    /\ RemoveCursors(r)
    /\ tracked' = Others(tracked, r)
    /\ UNCHANGED <<files, rules, run, done>>

\* What a run begins with: its own copy of the rule, and the files to look at.
NewRun(r, after, todo) ==
    [rule |-> r, copy |-> [rules[r] EXCEPT !.after = after], todo |-> todo,
     full |-> Cardinality(todo) = PageSize, event |-> NoRun, step |-> "read"]

\* A run begins, on schedule or by hand; the next deadline is saved first.
Claim(r) ==
    /\ run = NoRun /\ rules[r] # NoRule
    /\ LET after == IF Page(Folder[r], rules[r].after) = {} THEN 0 ELSE rules[r].after
       IN  run' = NewRun(r, after, Page(Folder[r], after))
    /\ UNCHANGED <<files, rules, cursors, tracked, done>>

\* A run on schedule.
ReadDue(r) == Claim(r) /\ rules[r].enabled

Reading == run # NoRun /\ run.step = "read"
More == Reading /\ run.todo # {}
Here == Min(run.todo)
Row == cursors[<<run.rule, Here>>]
SetRow(id, offset, end) ==
    cursors' = [cursors EXCEPT ![<<run.rule, Here>>] = [id |-> id, offset |-> offset, end |-> end]]
NewEvent(from, to) == [rule |-> run.rule, file |-> Here, id |-> files[Here].id, from |-> from, to |-> to]

\* jobs.extract is called with an event.
Send(event) ==
    /\ run' = [run EXCEPT !.event = event, !.step = "extract"]
    /\ tracked' = tracked \cup {event}

\* Mutant: a file that is passed over is where the next run begins.
PassStays ==
    /\ More
    /\ Readable(files[Here], Row) => To(files[Here], Row) = From(Row)
    /\ run' = [run EXCEPT !.todo = @ \ {Here}]
    /\ UNCHANGED <<files, rules, cursors, tracked, done>>

\* The next file cannot be read, or its window is empty: on to the file after it.
Pass ==
    /\ More
    /\ \/ ~Readable(files[Here], Row) /\ UNCHANGED cursors
       \/ /\ Readable(files[Here], Row) /\ To(files[Here], Row) = From(Row)
          /\ SetRow(files[Here].id, From(Row), Open)
    /\ run' = [run EXCEPT !.copy.after = Here, !.todo = @ \ {Here}]
    /\ UNCHANGED <<files, rules, tracked, done>>

\* A window without user messages moves the cursor and ends the run.
Advance ==
    /\ More /\ Readable(files[Here], Row)
    /\ To(files[Here], Row) > From(Row)
    /\ Messages(files[Here], From(Row), To(files[Here], Row)) = {}
    /\ SetRow(files[Here].id, To(files[Here], Row), Open)
    /\ run' = [run EXCEPT !.copy.after = Here, !.step = "finish"]
    /\ UNCHANGED <<files, rules, tracked, done>>

\* The byte range of a window is frozen before a provider sees it.
Freeze ==
    /\ More /\ Readable(files[Here], Row)
    /\ LET to == To(files[Here], Row) IN
       /\ Messages(files[Here], From(Row), to) # {}
       /\ SetRow(files[Here].id, From(Row), to)
       /\ Send(NewEvent(From(Row), to))
    /\ UNCHANGED <<files, rules, done>>

\* No file of the page moved; after a short page the next pass begins.
EndPage ==
    /\ Reading /\ run.todo = {}
    /\ run' = [run EXCEPT !.copy.after = IF run.full THEN @ ELSE 0, !.step = "finish"]
    /\ UNCHANGED <<files, rules, cursors, tracked, done>>

Extracting == run # NoRun /\ run.step = "extract"

\* jobs.extract returns: the receipt of the event is done.
Extracted ==
    /\ Extracting
    /\ run.event \in done \/ Here \notin Poison
    /\ done' = done \cup {run.event}
    /\ run' = [run EXCEPT !.step = "commit"]
    /\ UNCHANGED <<files, rules, cursors, tracked>>

\* Mutant: an exception does not keep the cursor from moving.
ExtractFailsQuietly ==
    /\ Extracting
    /\ run' = [run EXCEPT !.step = "commit"]
    /\ UNCHANGED <<files, rules, cursors, tracked, done>>

\* It raises: no budget, no provider, a bad answer, a busy vault.  The run is
\* over and its rule stays where it was.
ExtractFails ==
    /\ Extracting
    /\ run' = [run EXCEPT !.step = "finish"]
    /\ UNCHANGED <<files, rules, cursors, tracked, done>>

\* The cursor moves behind the window.
Commit ==
    /\ run # NoRun /\ run.step = "commit"
    /\ SetRow(run.event.id, run.event.to, Open)
    /\ run' = [run EXCEPT !.copy.after = Here, !.step = "finish"]
    /\ UNCHANGED <<files, rules, tracked, done>>

\* The copy of the rule is written back.
Finish ==
    /\ run # NoRun /\ run.step = "finish"
    /\ rules' = [rules EXCEPT ![run.rule] = run.copy]
    /\ run' = NoRun
    /\ UNCHANGED <<files, cursors, tracked, done>>

\* The process dies, or the database raises, and the copy is lost.  (With
\* nothing left to write this is a Finish.)
Die ==
    /\ run # NoRun
    /\ run.step = "finish" => rules[run.rule] # run.copy
    /\ run' = NoRun
    /\ UNCHANGED <<files, rules, cursors, tracked, done>>

Read == Pass \/ Advance \/ Freeze \/ EndPage

SourceNext ==
    \/ Files
    \/ \E r \in Rule : Change(r) \/ Delete(r) \/ DeleteHalf(r) \/ Claim(r)
    \/ Read \/ Extracted \/ ExtractFails \/ Commit \/ Finish \/ Die

SourceSpec == SourceInit /\ [][SourceNext]_sourceVars

\* The workbench looks for a rule whose deadline has passed every minute, and
\* intervals are at least an hour, so that each gets its turn; a call that is
\* tried again and again succeeds some day.
FairSourceSpec ==
    /\ SourceSpec
    /\ \A r \in Rule : SF_sourceVars(ReadDue(r))
    /\ WF_sourceVars(Read) /\ SF_sourceVars(Extracted) /\ WF_sourceVars(Commit) /\ WF_sourceVars(Finish)

\* The process does not die for ever.
Interruption == Die \/ \E r \in Rule : DeleteHalf(r)
InterruptionsEnd == <>[][~Interruption]_sourceVars

-----------------------------------------------------------------------------

Covers(e, r, f, i) == e.rule = r /\ e.file = f /\ e.id = files[f].id /\ e.from < i /\ i <= e.to

\* docs/workbench.md: "later appends cannot change that retry".  Of the windows
\* of a history that were sent since the cursors of the rule were last removed,
\* two are the same or have no line in common, so that no statement is learned
\* under two events, through appends, failures and crashes.  The limit of this:
\* a deletion that stops before the rule goes removes the cursors only, and the
\* rule may then send again, under another event, what it had sent before.
WindowsDisjoint ==
    \A e, g \in tracked :
        e.rule = g.rule /\ e.file = g.file /\ e.id = g.id =>
            e = g \/ e.to <= g.from \/ g.to <= e.from

\* source_history.py: "The returned cursor is committed only after extraction
\* succeeds".  No message lies behind a cursor unless its extraction is done.
ConsumedIsDone ==
    \A r \in Rule, f \in File :
        LET c == cursors[<<r, f>>] IN
        c # NoCursor => (c.id = files[f].id /\ c.offset <= Len(files[f].lines) =>
            \A i \in Messages(files[f], 0, c.offset) : \E e \in done : Covers(e, r, f, i))

\* What an enabled rule still has to send of a file.
Unread(r, f) ==
    /\ rules[r] # NoRule /\ f \notin Poison
    /\ rules[r] # NoRule => rules[r].enabled
    /\ Intact(files[f], cursors[<<r, f>>])
    /\ \E i \in Messages(files[f], 0, Len(files[f].lines)) :
          Fits(files[f], 0, i) /\ ~\E e \in done : Covers(e, r, f, i)

\* source_history.py: "page through files so old histories cannot starve".
\* What an enabled rule has not sent yet is sent some day, whatever fails and
\* whenever the process died, unless the rule or the file changes.  A record
\* that no window holds is the end of its file ("an individual record over 2 MB
\* is unsupported", docs/workbench.md): what follows it is never sent, but the
\* other files are.
EverythingRead ==
    InterruptionsEnd => \A r \in Rule : \A f \in Folder[r] : Unread(r, f) ~> ~Unread(r, f)
=============================================================================
