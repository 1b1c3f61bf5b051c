--------------------------- MODULE ScheduledTask ---------------------------
(***************************************************************************)
(* scheduled.py manage_task: the hourly task of a vault is registered with *)
(* the operating system, and a receipt in the vault says which task is     *)
(* ours.  A PowerShell script looks at the task, compares it with what it  *)
(* was told to expect, and registers or deletes it; it is called once to   *)
(* look, once to change, and once more to put the task back when the       *)
(* receipt cannot be written.  The user may edit the task, delete it or    *)
(* create it at any moment.  A lock excludes a second manage_task.         *)
(***************************************************************************)
CONSTANTS
    Target,  \* what the task runs: interpreter, vault, configuration
    Missing

NoTask == [runs |-> Missing, edited |-> FALSE]

ASSUME TaskAssumption == Missing \notin Target

\* The task as the system describes it, and whether it is the user's work.
Task == [runs : Target, edited : BOOLEAN] \cup {NoTask}

VARIABLES
    task,
    receipt,  \* windows-task.json: the task that is ours
    call,     \* the manage_task that holds .task-install.lock
    touched,  \* auxiliary: the user touched the task since it was compared
    broken    \* auxiliary: a call ended without an answer or a restored task

taskVars == <<task, receipt, call, touched, broken>>

NoCall == [before |-> NoTask, after |-> NoTask, step |-> "idle"]

TaskTypeOK ==
    /\ task \in Task /\ receipt \in Task
    /\ call \in [before : Task, after : Task,
                 step : {"idle", "compare", "change", "receipt", "recompare", "restore"}]
    /\ {touched, broken} \subseteq BOOLEAN

TaskInit ==
    /\ task = NoTask /\ receipt = NoTask
    /\ call = NoCall /\ touched = FALSE /\ broken = FALSE

\* The user edits, deletes or creates the task.
Touch(new) ==
    /\ new # task /\ (new = NoTask \/ new.edited)
    /\ task' = new /\ touched' = TRUE
    /\ UNCHANGED <<receipt, call, broken>>

\* A task that is neither missing nor ours is refused.
Allowed == task \in {NoTask, receipt}

BeginTask(after) ==
    /\ call = NoCall /\ Allowed
    /\ call' = [before |-> task, after |-> after, step |-> "compare"]
    /\ UNCHANGED <<task, receipt, touched, broken>>

\* A task that runs what it should is left alone.
InstallTask(v) == task.runs # v /\ BeginTask([runs |-> v, edited |-> FALSE])

RemoveTask == receipt # NoTask /\ BeginTask(NoTask)

GotoTask(step) == call' = [call EXCEPT !.step = step]

EndTask(unfinished) == call' = NoCall /\ broken' = (broken \/ unfinished)

\* Mutant: the script does not compare.
CompareTaskNever ==
    /\ call.step = "compare"
    /\ GotoTask("change") /\ UNCHANGED broken
    /\ touched' = FALSE /\ UNCHANGED <<task, receipt>>

\* The script compares the task with the expected one.
CompareTask ==
    /\ call.step = "compare"
    /\ IF task = call.before THEN GotoTask("change") /\ UNCHANGED broken ELSE EndTask(FALSE)
    /\ touched' = FALSE /\ UNCHANGED <<task, receipt>>

\* The script changes the task, or fails.  After twenty seconds its answer is
\* not waited for any more, whatever it did.
ChangeTask ==
    /\ call.step = "change"
    /\ \/ task' = call.after /\ GotoTask("receipt") /\ UNCHANGED broken
       \/ task' \in {task, call.after} /\ EndTask(task' # task)
    /\ UNCHANGED <<receipt, touched>>

\* Mutant: the task stays when its receipt cannot be written.
SaveReceiptOnly ==
    /\ call.step = "receipt"
    /\ receipt' \in {call.after, receipt}
    /\ EndTask(FALSE)
    /\ UNCHANGED <<task, touched>>

SaveReceipt ==
    /\ call.step = "receipt"
    /\ \/ receipt' = call.after /\ EndTask(FALSE)
       \/ GotoTask("recompare") /\ UNCHANGED <<receipt, broken>>
    /\ UNCHANGED <<task, touched>>

\* Only a task that is still exactly what this call made is put back.
Recompare ==
    /\ call.step = "recompare"
    /\ IF task = call.after THEN GotoTask("restore") /\ UNCHANGED broken ELSE EndTask(TRUE)
    /\ touched' = FALSE /\ UNCHANGED <<task, receipt>>

RestoreTask ==
    /\ call.step = "restore"
    /\ \/ task' = call.before /\ EndTask(FALSE)
       \/ task' = task /\ EndTask(TRUE)
    /\ UNCHANGED <<receipt, touched>>

TaskCrash ==
    /\ call # NoCall
    /\ EndTask(TRUE) /\ UNCHANGED <<task, receipt, touched>>

Manage == CompareTask \/ ChangeTask \/ SaveReceipt \/ Recompare \/ RestoreTask

TaskNext ==
    \/ \E new \in Task : Touch(new)
    \/ \E v \in Target : InstallTask(v)
    \/ RemoveTask \/ Manage \/ TaskCrash

TaskSpec == TaskInit /\ [][TaskNext]_taskVars

-----------------------------------------------------------------------------

\* automation.md: "Removal checks exact ownership and refuses to overwrite later
\* user edits".  What the user made of the task is overwritten only when it was
\* done between the comparison inside the script and its change.
TaskEditsKept == [][Manage /\ ~touched /\ task' # task => ~task.edited]_taskVars

\* development-status.md: "receipt-write failure rolls back only unchanged owned
\* task state".  Unless a call was cut short, a task is there only with its
\* receipt, or because the user made it.
TaskTrue == call = NoCall /\ ~broken => task \in {NoTask, receipt} \/ task.edited
=============================================================================
