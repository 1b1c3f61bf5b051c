---------------------------- MODULE Installation ----------------------------
(***************************************************************************)
(* integration_install.py: the connection of a vault to a client, written  *)
(* into files that belong to the user.  install_user reads all of them,    *)
(* checks that what it wants to replace is exactly what its receipt says   *)
(* it wrote, plans every change, and then _transaction makes the changes   *)
(* one file at a time; when one cannot be made it puts the others back.    *)
(* The user and the client edit the same files at any moment and take no   *)
(* lock; installations do, without waiting.                                *)
(*                                                                         *)
(* A settings file is the text of the user and the part that is ours.  The *)
(* two files of a project's own connection stand as one.  Planning is one  *)
(* step: a file that changes after it was read is caught by its comparison.*)
(***************************************************************************)
EXTENDS Naturals, Sequences

CONSTANTS
    Version,    \* what an installation writes: interpreter, vault, arguments
    Text,       \* the rest of a settings file
    MaxEdits,   \* bound: edits by others
    MaxRetired, \* bound: retired connections in the receipt
    None, Edited

ASSUME InstallationAssumption ==
    /\ {MaxEdits, MaxRetired} \subseteq Nat
    /\ None \notin Version /\ Edited \notin Version \cup {None}

Client == {"toml", "hooks"}

Settings == [user : Text, ours : Version \cup {None, Edited}]
Selector == [user : Text, mcp : BOOLEAN]   \* the vault selector of this program
Project  == {"local", "empty", "other"}    \* a project's own connection, or what retiring it leaves
Receipt  == [version : Version \cup {None}, retired : 0 .. MaxRetired]

Disk == [toml : Settings, hooks : Settings, project : Project, selector : Selector, receipt : Receipt]

VARIABLES
    disk,
    run,      \* the installation that holds .integration.lock
    edits,    \* how often others edited
    since,    \* auxiliary: the files they edited since this installation read them
    window,   \* auxiliary: they edited the file that it has just compared
    edited,   \* auxiliary: the files whose part of ours they edited, ever
    halfway   \* auxiliary: an installation ended without putting everything back

aux == <<edits, since, window, edited, halfway>>
vars == <<disk, run, aux>>

NoRun == [op |-> "none", plan |-> <<>>, at |-> 0, step |-> "idle"]

TypeOK ==
    /\ disk \in Disk
    /\ run.op \in {"none", "install", "remove"}
    /\ run.step \in {"idle", "compare", "write", "undo", "restore"}
    /\ run.at \in 0 .. Len(run.plan) + 1
    /\ \A i \in DOMAIN run.plan :
          LET c == run.plan[i] IN [disk EXCEPT ![c.file] = c.before] \in Disk
                                  /\ [disk EXCEPT ![c.file] = c.after] \in Disk
    /\ edits \in 0 .. MaxEdits
    /\ since \subseteq DOMAIN disk /\ edited \subseteq DOMAIN disk
    /\ {window, halfway} \subseteq BOOLEAN

Init ==
    /\ disk \in {[toml |-> [user |-> t, ours |-> None], hooks |-> [user |-> t, ours |-> None],
                  project |-> "local", selector |-> [user |-> t, mcp |-> FALSE],
                  receipt |-> [version |-> None, retired |-> 0]] : t \in Text}
    /\ run = NoRun
    /\ edits = 0 /\ since = {} /\ window = FALSE /\ edited = {} /\ halfway = FALSE

-----------------------------------------------------------------------------
(***************************************************************************)
(* Others edit a file.                                                     *)
(***************************************************************************)
Edits(f) ==
    CASE f \in Client   -> [user : Text, ours : {None, Edited, disk.receipt.version, disk[f].ours}]
      [] f = "selector" -> Selector
      [] f = "project"  -> Project

Edit(f, value) ==
    /\ edits < MaxEdits /\ value # disk[f]
    /\ disk' = [disk EXCEPT ![f] = value]
    /\ edits' = edits + 1
    /\ since' = IF run = NoRun THEN {} ELSE since \cup {f}
    /\ window' = (window \/ (run.step \in {"write", "restore"} /\ run.plan[run.at].file = f))
    /\ edited' = edited \cup (IF f \in Client => value.ours # disk[f].ours THEN {f} ELSE {})
    /\ UNCHANGED <<run, halfway>>

-----------------------------------------------------------------------------
(***************************************************************************)
(* install_user: the plan.                                                 *)
(***************************************************************************)
Change(f, after) == [file |-> f, before |-> disk[f], after |-> after]

Block(f, v) == Change(f, [disk[f] EXCEPT !.ours = v])

\* _replace_block and _replace_hook: what is there is what the receipt says,
\* nothing when there is no receipt.
Owned == \A f \in Client : disk[f].ours = disk.receipt.version

\* Mutant: the receipt lists what this installation retired.
RetiredNow(retire) == IF retire THEN 1 ELSE 0

\* retired_project_files: those of the receipt, and the one retired now.
Retired(retire) == disk.receipt.retired + (IF retire THEN 1 ELSE 0)

Installing(v, retire) ==
    <<Block("toml", v), Block("hooks", v)>>
    \o (IF retire THEN <<Change("project", "empty")>> ELSE <<>>)
    \o <<Change("selector", [disk.selector EXCEPT !.mcp = TRUE]),
         Change("receipt", [version |-> v, retired |-> Retired(retire)])>>

\* Every retired connection that is still as it was left comes back.
Removing ==
    LET back == IF disk.project = "empty" THEN disk.receipt.retired ELSE 0 IN
    <<Block("toml", None), Block("hooks", None)>>
    \o [i \in 1 .. back |-> Change("project", "local")]
    \o <<Change("receipt", [version |-> None, retired |-> 0])>>

Begin(op, plan) ==
    /\ run = NoRun /\ Owned
    /\ run' = [op |-> op, plan |-> plan, at |-> 1, step |-> "compare"]
    /\ UNCHANGED <<disk, aux>>

Install(v, retire) ==
    /\ retire => disk.project = "local" /\ disk.receipt.retired < MaxRetired
    /\ Begin("install", Installing(v, retire))

Remove == disk.receipt.version # None /\ Begin("remove", Removing)

\* What is not as the receipt says is for the user to review.
Refuse == run = NoRun /\ ~Owned /\ UNCHANGED vars

-----------------------------------------------------------------------------
(***************************************************************************)
(* _transaction.                                                           *)
(***************************************************************************)
This == run.plan[run.at]
Goto(step, at) == run' = [run EXCEPT !.step = step, !.at = at]
Quiet == window' = FALSE /\ UNCHANGED <<edits, since, edited>>

\* It is over, and gives the lock back.
Over(half) ==
    /\ run' = NoRun /\ since' = {} /\ window' = FALSE
    /\ halfway' = (halfway \/ half)
    /\ UNCHANGED <<edits, edited>>

Compare ==
    /\ run.step = "compare" /\ run.at <= Len(run.plan)
    /\ IF disk[This.file] # This.before THEN Goto("undo", run.at - 1)
       ELSE IF This.before = This.after THEN Goto("compare", run.at + 1)
       ELSE Goto("write", run.at)
    /\ Quiet /\ UNCHANGED <<disk, halfway>>

\* The file is replaced, or it cannot be.
Write ==
    /\ run.step = "write"
    /\ \/ disk' = [disk EXCEPT ![This.file] = This.after] /\ Goto("compare", run.at + 1)
       \/ Goto("undo", run.at - 1) /\ UNCHANGED disk
    /\ Quiet /\ UNCHANGED halfway

Finish ==
    /\ run.step = "compare" /\ run.at > Len(run.plan)
    /\ Over(FALSE) /\ UNCHANGED disk

\* Mutant: everything is put back whatever became of it.
UndoAnyway ==
    /\ run.step = "undo" /\ run.at > 0
    /\ IF This.before = This.after THEN Goto("undo", run.at - 1) ELSE Goto("restore", run.at)
    /\ Quiet /\ UNCHANGED <<disk, halfway>>

\* Mutant: it ends at the first file that was edited since.
UndoUntilEdited ==
    /\ run.step = "undo" /\ run.at > 0
    /\ IF This.before = This.after THEN Goto("undo", run.at - 1) /\ UNCHANGED halfway
       ELSE IF disk[This.file] = This.after THEN Goto("restore", run.at) /\ UNCHANGED halfway
       ELSE Goto("undo", 0) /\ halfway' = TRUE
    /\ Quiet /\ UNCHANGED disk

\* Last first, a file is put back if it is still as this installation left it.
Undo ==
    /\ run.step = "undo" /\ run.at > 0
    /\ IF This.before = This.after THEN Goto("undo", run.at - 1) /\ UNCHANGED halfway
       ELSE IF disk[This.file] = This.after THEN Goto("restore", run.at) /\ UNCHANGED halfway
       ELSE Goto("undo", run.at - 1) /\ halfway' = TRUE
    /\ Quiet /\ UNCHANGED disk

Restore ==
    /\ run.step = "restore"
    /\ disk' = [disk EXCEPT ![This.file] = This.before]
    /\ Goto("undo", run.at - 1)
    /\ Quiet /\ UNCHANGED halfway

\* The error is raised again when everything is done, or another one when a
\* file cannot be put back: the files before it stay.
GiveUp ==
    /\ \/ run.step = "undo" /\ run.at = 0 /\ Over(FALSE)
       \/ run.step = "restore" /\ Over(TRUE)
    /\ UNCHANGED disk

\* The process dies; the lock goes with it.
Crash ==
    /\ run # NoRun
    /\ Over(TRUE) /\ UNCHANGED disk

Next ==
    \/ \E f \in Client \cup {"project", "selector"} : \E value \in Edits(f) : Edit(f, value)
    \/ \E v \in Version, retire \in BOOLEAN : Install(v, retire)
    \/ Remove \/ Refuse
    \/ Compare \/ Write \/ Finish \/ Undo \/ Restore \/ GiveUp \/ Crash

Spec == Init /\ [][Next]_vars

-----------------------------------------------------------------------------

\* What is the user's in a file: the text that is not ours, and our part when
\* somebody edited it.
Theirs(f, content) ==
    CASE f \in Client   -> <<content.user, content.ours = Edited>>
      [] f = "selector" -> <<content.user>>
      [] f = "project"  -> <<content = "other">>
      [] f = "receipt"  -> <<>>

\* _transaction: "never overwrite later edits", and automation.md: "refuses to
\* overwrite later user edits".  An edit is lost only when it falls between the
\* comparison of that file and the write that follows, forwards or backwards.
LaterEditsKept ==
    [][\A f \in DOMAIN disk :
          run # NoRun /\ edits' = edits /\ ~window => Theirs(f, disk'[f]) = Theirs(f, disk[f])]_vars

\* When an installation that failed has put back what it could, the files that
\* nobody edited meanwhile are as it found them.
AllOrNothing ==
    run.step = "undo" /\ run.at = 0 =>
        \A i \in DOMAIN run.plan :
            run.plan[i].file \notin since => disk[run.plan[i].file] = run.plan[i].before

\* The receipt is what removal goes by.  As long as no installation ended
\* halfway it is exact about every part nobody edited, and no connection stays
\* retired without it.
ReceiptTrue ==
    run = NoRun /\ ~halfway =>
        /\ \A f \in Client \ edited : disk[f].ours = disk.receipt.version
        /\ disk.project = "empty" /\ "project" \notin edited => disk.receipt.retired > 0

\* integration_install.py: "Owned, reversible global Codex configuration".  A
\* removal whose plan was made is stopped by a comparison only when somebody
\* edited a file after it was read.
Reversible ==
    run.op = "remove" /\ run.step = "compare" /\ run.at <= Len(run.plan) =>
        disk[This.file] = This.before \/ since # {}
=============================================================================
