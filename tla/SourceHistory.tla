---------------------------- MODULE SourceHistory ----------------------------
(***************************************************************************)
(* source_history.py: which part of a conversation file a run may read.    *)
(* A file is its identity (device, inode, conversation id), the complete   *)
(* lines written so far, and whether a line without its newline follows.   *)
(* Offsets count complete lines.  A line is a user message, a record that  *)
(* is too large to be scanned (2 MB; it counts as a line once that much of *)
(* it is written), or something else: assistant text, or a message that is *)
(* malformed, sensitive or too long, which is counted and passed over.     *)
(***************************************************************************)
EXTENDS Integers, Sequences, FiniteSets, FiniteSetsExt, SequencesExt

CONSTANTS
    LastFile,       \* files are 1 .. LastFile, in the order of their paths
    PageSize,       \* files that one listing returns
    WindowLines,    \* lines that one window may scan (2 MB)
    WindowMessages, \* user messages that one window may hold
    NoCursor, Open  \* no row in source_cursors; no pending_end in it

File == 1 .. LastFile
Kind == {"message", "other", "huge"}

\* A row of source_cursors.
Cursor == [id : Nat, offset : Nat, end : Nat \cup {Open}]

ASSUME HistoryAssumption ==
    /\ {LastFile, PageSize, WindowLines, WindowMessages} \subseteq Nat \ {0}
    /\ Open \notin Nat /\ NoCursor \notin Cursor

\* list_sources: a page of the files of a folder, the first ones after a path.
Page(folder, after) ==
    LET rest == {f \in folder : f > after}
    IN  {f \in rest : Cardinality({g \in rest : g <= f}) <= PageSize}

\* The message lines of a file between two offsets.
Messages(file, from, to) == {i \in from + 1 .. to : file.lines[i] = "message"}

\* Where a window begins and how far it may reach at most.  A range frozen
\* before an earlier provider call is kept.
From(cursor) == IF cursor = NoCursor THEN 0 ELSE cursor.offset

\* Mutant: a retry reads as far as the file goes now.
LimitNow(file, cursor) == Len(file.lines)

Limit(file, cursor) ==
    IF cursor = NoCursor \/ cursor.end = Open THEN Len(file.lines) ELSE cursor.end

\* The file was not replaced or truncated since the cursor was written.
Intact(file, cursor) ==
    cursor # NoCursor =>
        /\ cursor.id = file.id
        /\ Len(file.lines) >= From(cursor) /\ Len(file.lines) >= Limit(file, cursor)

Fits(file, from, to) == \A i \in from + 1 .. to : file.lines[i] # "huge"

\* read_window raises for a file that is not intact, and at a record that is too
\* large for any window.
Readable(file, cursor) ==
    /\ Intact(file, cursor)
    /\ From(cursor) < Limit(file, cursor) => Fits(file, From(cursor), From(cursor) + 1)

\* The window ends before the record, or the message, that would overflow it.
\* A line without its newline is never part of it.
To(file, cursor) ==
    Max({From(cursor)} \cup
        {to \in From(cursor) .. Limit(file, cursor) :
            /\ to - From(cursor) <= WindowLines /\ Fits(file, From(cursor), to)
            /\ Cardinality(Messages(file, From(cursor), to)) <= WindowMessages})
=============================================================================
