# Formal models of ai DeMemory V3

This directory holds TLA+ models of the V3 package (`src/ai_dememory` in the
repository), the TLC configurations that check them on small instances, and
TLAPS proofs of the properties that should hold for every number of processes,
memories and days. Definitions are translated from the Python source; the
`map` of `PROJECT.json` names the lines behind each of them.

## 1. The system

ai DeMemory keeps an agent's memories as Markdown files in a *vault* directory.
It has no server: the CLI, the MCP server, the workbench (a local dashboard),
editor hooks and a scheduled task are separate processes that open the same
directory. What keeps them apart is a handful of lock files taken without
waiting (`_exclusive_write_lock`: a busy lock is an error to the caller), the
atomic replacement of single files (`_atomic_write`), and SQLite transactions
on two generated databases. Nothing spans two files atomically.

| Component | State | Operations | Hard part |
| --- | --- | --- | --- |
| Canonical vault (`vault.py`) | one Markdown file per memory: scope, key, content, status, predecessor | remember, learn, forget | up to three file writes per operation under one lock, undone by hand; retries under derived ids; chains of corrections |
| Review proposals (`proposals.py`) | one file per proposal, and the memory under its derived id | propose, decide | propose takes no lock; decide writes vault, then proposal |
| Provider budget (`providers.py`) | rows of `provider_attempts` in `runtime.sqlite` | run: reserve, call, reconcile, fall back | many processes, midnight inside a reservation, failures after the reservation |
| Search index (`search.py`) | `memory_files` and `memory_fts` in a generated SQLite file | sync, search | rows read before the transaction; files change under a sync; several syncs |
| Consolidation schedule (`jobs.py`, `settings.py`) | `jobs.json`, the schedule in `settings.json` | status, manual run, due run | claim before work, crashes, settings that change between runs |
| Memory extraction (`jobs.py`) | `extraction_receipts`, memories | extract | the provider answers a retry differently; crash between vault and receipt |
| Consolidation work (`jobs.py`) | the vault, proposals | cleanup, summary | list, then forget one by one |
| Source history (`source_history.py`) | `source_cursors` | one window per run | frozen byte range across crashes while files grow |
| Source schedules (`source_jobs.py`) | `source-jobs.json` | save, change, run | a whole-file copy held over a provider call |
| Codex app server (`codex_subscription.py`) | child process, queue, pending login | request, generate, login | reader thread, watchdog and close race |
| Integration install, scheduled task (`integration_install.py`, `scheduled.py`) | files of other programs, receipts | install, remove | several files and a foreign editor; rollback |
| Selector and projects (`config.py`, `projects.py`, `modules.py`) | `config.toml`, `projects.json` | enable, bind, exclude, include | aliases and worktrees of one scope; unlocked read-modify-write |
| Workbench (`builtin_modules/workbench.py`) | previews, session credentials | preview, confirm, tick | stale previews; single-threaded |
| MCP server, prompt hooks (`builtin_modules/mcp.py`, `harness.py`) | the scope and thread a process is bound to | serve a client | bindings and exclusions change while a client is connected |
| Hermes adapter (`hermes_provider.py`) | session, nonce and turn | learn, forget, recall | turn numbers that start again |
| Conversation readers, provider plugins, CLI | none of their own | delegate | parsing and formatting |

How they interact:

```
  CLI  MCP  hooks  workbench  scheduled task
    \   |    |       |   \        /
     CoreServices    |    run_due -> Schedule -> consolidate -> forget, propose
      |       |      |
    search   learn   +-> SourceJobs -> SourceHistory -> extract
      |       ^                                          |    |
 SearchIndex  +------------------------------------------+    v
      |       |                                         ProviderEngine.run
      v       v                                               |
   Markdown files  <--remember-- ProposalStore.decide         v
                                                        runtime.sqlite
```

What makes each component correct:

* **Vault.** The three operations look atomic to whoever takes the lock, also
  when a write fails; forgotten is final; nothing leaves recall unless it is
  forgotten or replaced; a chain of corrections does not fork; the file limit.
* **Proposals.** A decision is final, an accepted proposal has its memory, and
  only acceptance makes one.
* **Budget.** No day admits more calls or reserves more tokens than configured;
  a reservation is never given back; no paid fallback after the subscription.
* **Index.** A file skipped as unchanged is indexed as it is; an inactive
  memory is not returned; an active one is found.
* **Schedule.** One run per interval whatever crashes; a deadline that passes is
  served.
* **Extraction.** A receipt tells the truth, and what it records is not learned
  again.
* **Cleanup.** It takes nothing out of recall but a copy of what stays.
* **Sources.** No statement is sent under two windows while the cursors stay, none is
  passed over, and everything up to a record that is too large is read some day.
* **App server.** An operation ends and leaves no process, and no directory unless
  a message could not be written.
* **Installation and task.** What the user edited is not overwritten, what failed
  is put back, and the receipts that removal goes by are true.
* **Workbench.** What is sent is what was shown, and a key is used only for the
  profile it was entered for, and not after that profile changed or the key was cleared.
* **Connections.** A client is served in the scope its folder has, and not where it
  was excluded.
* **Hermes.** What the user says is not dropped as a duplicate of an earlier turn.

The hazards behind these, each at its line, are listed in `PROJECT.json`.

## 2. Modules

| Module | What it is | Source |
| --- | --- | --- |
| `MemoryFiles` | memories as data; the decisions of learn and forget as operators | `models.py`, `vault.py` |
| `MemoryStore` | what the vault promises: remember, learn, forget as single steps | `vault.py` |
| `Vault` | the same, file by file, with lock, errors, rollback, crash | `vault.py` |
| `VaultUntilCrash` | `Vault` with a history variable: has a process died or failed to undo | `vault.py` |
| `Proposals` | proposals and their decisions | `proposals.py` |
| `ProviderBudget` | reservation and fallback | `providers.py` |
| `SearchIndex` | sync, query, re-read of hits | `search.py` |
| `SearchAlone` | `SearchIndex` with a history variable: have two searches run at the same time | `search.py` |
| `Schedule` | the consolidation schedule | `jobs.py`, `settings.py` |
| `Extraction` | extract and its receipts | `jobs.py`, `vault.py` |
| `Cleanup` | consolidation over `MemoryStore`, while others use the vault | `jobs.py` |
| `Workbench` | previews and session keys against changing settings | `builtin_modules/workbench.py` |
| `SourceHistory` | windows of a growing file as operators: page, frozen range, end | `source_history.py`, `sources.py` |
| `SourceJobs` | rules, cursors and runs, with crashes and growing files | `source_jobs.py`, `source_history.py` |
| `AppServer` | child, reader, watchdog, close and the pending login | `codex_subscription.py` |
| `Installation` | the connection to a client as a transaction over several files | `integration_install.py` |
| `ScheduledTask` | the hourly task and its receipt | `scheduled.py` |
| `Connections` | bindings, exclusions, modules, and the calls that look at them | `projects.py`, `config.py`, `builtin_modules/mcp.py`, `harness.py` |
| `Hermes` | the adapter of another agent over `MemoryStore` | `hermes_provider.py` |
| `MC*` | compositions, symmetry sets and constants for TLC | |
| `*Proofs` | TLAPS proofs: `InstallationProofs` is about the four modules of `MCInstallation`, `ProposalsProofs` also about `Cleanup`, `ScheduleProofs` also about `SourceJobs`, `ExtractionProofs` also about `Workbench` | |

Operators whose comment begins with "Mutant" are variants of a definition with
one plausible bug; the model does not use them. They show that each property
notices such a bug.

What composes what: `Vault` implements `MemoryStore`, and `Cleanup` and `Hermes` are
clients of `MemoryStore` (`Store == INSTANCE MemoryStore`) next to everybody else
who uses the vault. `SourceJobs` uses `SourceHistory` and sees extraction through
what `Extraction` guarantees, as `Extraction` and `Proposals` see the vault.
Some `MC` modules hold several components that share neither
files nor locks: `MCProposals` (`Proposals`, `Cleanup`), `MCExtraction` (`Extraction`,
`Workbench`) and `MCInstallation` (`Installation`, `ScheduledTask`, `Connections`,
`Hermes`). There each component is explored by itself while the others stay where
they began; nothing is claimed about their interleaving, since none can tell.

### Vault

`files` maps ids to records (or `NoFile`), `lock` is the holder of the lock
file, `pc` and `job` are the control point and the local variables of each
process: what the code read under the lock and will write back. `Lock` is the
entry of `_exclusive_write_lock`; `Remember`, `Learn` and `Forget` are the reads and
decisions of the functions of those names; each write is a step that may happen
or raise: `Write` and `Verify` (`_atomic_write`, read back), `Retire`, `Unlink` (the
predecessor, and the rollback of the new file), `Hide`, `Restore`, `Unhide`
(forget). `Next` lets a write fail but not its rollback; `CrashNext` adds processes that die
anywhere and rollbacks that fail (`CrashSpec`; `UntilCrashSpec` notes in `crashed` that one
did). Lock files are advisory operating system locks, so
death releases them. Titles and bodies are one abstract content; ids derived by
uuid5 are pairs of scope and occurrence.

`Committed` is the refinement mapping to `MemoryStore`: a memory whose creation
can still be undone is not there, and one whose hiding can still be undone is
still active.

### Proposals

`status` is what each file says, `memory` the memory under the derived id.
`Count` and `Propose` are the two unlocked halves of propose; `Decide`, `Remember` and
`WriteDecision` the three parts of decide under its lock. The vault is seen
through what it promises. A person may remove reviewed files, as
`docs/architecture.md` tells them to.

### ProviderBudget

One `Run` is one process in one operation. `Choose` is the head of the loop,
`Begin` the transaction up to the checks, `Insert` the dated row and the commit,
`Answer` and `Fail` the call with `_finish`. `NextDay` can fall between `Begin` and
`Insert`, because the code takes the date twice. Row ids are given as SQLite
does. Tokens stand for every metered amount.

### SearchIndex

`disk` and `index` are the files and the committed tables, `draft` the tables
inside the write transaction of `txn`. sync is split where other processes can
get in: reading the rows, listing, removing rows of missing files, and for each
file stat, read and store; then commit, query and one re-read per hit. Python's
sqlite3 begins a transaction only at the first write, so the rows are
read before it; this is the cause of the finding below. Every change of a file gives it a new
stamp (modification time and size together). `stable` holds, for each search, the files that
have not changed since it began.

### Schedule

`state` is `jobs.json`, `settings` the schedule in `settings.json`.
`Refreshed` is `_schedule_state`, `Claimed` what `_run_locked` saves before it
works. The claim is one step with the lock and the look at the clock: nothing
in between waits, and dying before the save leaves what `Look` could have left.

### Extraction

`receipts` maps each event and candidate index to the memory learned,
`Rejected` or `Open`; `done` is the flag of the receipt. A process works on its
own copy. `Answer` may be any answer on every attempt. `Learn` is the vault's learn
seen as one step, with its duplicate rules for unkeyed memories; `Save` the receipt. `Stop`
covers every exception and death.

### Cleanup

`pass` is one `LearningJobs.consolidate` under way: the rows of its list, the contents it
has seen, the rows it kept. `List` is the query, `Examine` one turn of the loop (forget, or
keep), `Summarize` the proposal made of the provider's answer, `Stop` every end without
one. `Others` is any step of `MemoryStore` by anybody, between any two of these.
`retracted` notes what others took out of recall meanwhile.

### Workbench

`settings` is `settings.json`, which other processes save too; `keys` and `previews` are
`_credentials` and `_previews` of the single-threaded server. A request compares the
preview with the settings, builds its engine from settings it loads again, and takes a key
for each profile it falls back to; `raced` notes a save between comparison and load. An entry
of `keys` is a key (`secret`) with the identity it is held for (`tag`). The page saves settings
and enters a key in two requests (`SaveSettings`, `SetKey`), and may be out of date when it sends
the second. `given` notes, apart from the entries, for which identity the user gave the key of a
profile, until the key is cleared or the dashboard saves another identity.

### SourceHistory and SourceJobs

A file is its identity, its complete lines and whether it still grows; offsets count lines.
A record of over 2 MB is a line of the kind "huge", at which a window ends and before which none
begins (`Fits`). `Claim` starts a rule, `Read` takes one file of its page and freezes the range
(`pending_end`), `Extracted` is the answer of extraction, `Commit` the moved cursor,
`Finish` the rule written back. The process may die between any two of them; files are
appended to, replaced or truncated at any time. `done` are the events whose receipts are
done, `tracked` those that reached extraction since the cursors of their rule were last removed:
`Delete` removes the cursors and the rule, `DeleteHalf` is a deletion that stops in between
and leaves a rule that begins again. A page (`Page`) is a set of files,
which are numbered in the order of their paths, so the next one to read is its least.

### AppServer

One record per server (the one of a login that waits, the one of an operation). `call` is
the caller, `closer` who is inside `close()` under its lock: kill, reap, remove the
directory. The child may write anything, stay silent or exit at any step; the reader
fills a bounded queue and gives up when it is full; the watchdog closes at any time. A request
of the child's own is refused with a reply (`Reply`), which is written by the same `Send` as
requests are, and may block or fail like them; `unsent` notes the text that stays in the buffer then.

### Installation

`disk` holds the settings of the client (each the user's text and our part), the
project's own connection, the selector and the receipt; `run` the planned transaction
and how far it is. `Compare` and `Write` are two steps per file, `Undo` and `Restore` the
roll-back in reverse, `GiveUp` a roll-back that meets an edited file, `Crash` death
anywhere. `Edit` is the user or the client, at any moment. `window` notes an edit
between a comparison and its write, the one the program cannot see.

### ScheduledTask

`task` is what the operating system has, `receipt` what the vault says is ours, `call` the
`manage_task` under way: look (`BeginTask`), compare and change in the script
(`CompareTask`, `ChangeTask`, with answers that are lost), `SaveReceipt`, and when it fails
`Recompare` and `RestoreTask`. `Touch` is the user in the task scheduler.

### Connections

`projects` is `projects.json`, `modules` the enabled modules. `Configure` is `bind`,
`exclude` and `include`; `BeginCommand` and `EndCommand` are the same command when
others get between its read and its write. `Tool` and `Prompt` begin a call of a client:
`Admit` looks at modules and exclusions, `Locate` resolves the project a second time, and
`Serve` opens the vault. `Nearest` is the folder whose binding holds;
`Follows` and `Automatic` stand for paths and Git directories.
`barred` is what exclude commands promised, `shifted` that settings changed during this call.

### Hermes

`binding` is the nonce of the session, `turn` the number the host gives, the statement in the
user's words and whether it is human. `SwitchSession` is `on_session_switch`, `TurnStart`
`on_turn_start`, `LearnTool` and `ForgetTool` the two tools that write. That the host
counts turns upwards within a binding is assumed; across bindings numbers repeat.

## 3. Runs

Every run takes a minute or less with two workers on an ordinary machine.

| Run | Instance | Distinct states | Question |
| --- | --- | --- | --- |
| `vault` | 2 processes, 2 scopes, 2 keys, 2 contents, 2 occurrences, 1 uuid, 3 files | 73,009 | Are the operations atomic steps of `MemoryStore` and the chains linear until a crash, and what survives one? |
| `vault_undo` | 1 scope, 1 key | violation | Does forgetting always restore the predecessor? |
| `proposals` | 3 processes, 5 proposals, limit 2; cleanup with 2 scopes, 1 key, 2 contents, 2 occurrences, 1 uuid, 3 files, a list of 2 | 649,747 | Are decisions final and backed by memories, is the cap exceeded only by those who counted together, and does cleanup forget duplicates only? |
| `budget` | 2 operations, 2 calls and 2 tokens a day, 2 days, two routes, a provider that reports 5 tokens | 97,710 | Are the limits kept over midnight, and does every operation end? |
| `search` | 2 searchers, 2 files, 2 memories, 3 changes | 527,678 | Is the index truthful, and is a search complete that nobody overlaps? |
| `search_lost` | 2 searchers, 2 files, 1 memory | violation | Is an indexed file always searchable? |
| `schedule` | 2 processes, 2 scopes, intervals of 1 and 2 hours, 4 hours | 55,240 | Are runs spaced, and deadlines served? |
| `extraction` | 2 processes, 2 events, 2 messages, 2 candidates; 2 profiles, 2 identities, 2 routes, 2 previews, a clock of 1 | 716,477 | Do receipts survive retries, crashes and different answers; is what was shown what is sent, and with whose key? |
| `sources` | 2 files of up to 2 and 1 lines, pages of 1, windows of 2 lines or 1 message, 1 rule, 1 replacement, records that are too large in the longer file | 178,109 | Is every statement sent under one window, and everything read? |
| `appserver` | queue of 1, 1 kept event, 1 request and a login beside it | 223,879 | Does every operation end and leave nothing? |
| `install` | 2 versions, 2 texts, 2 edits, 2 retirements; 2 folders, 2 scopes, 1 client; 2 bindings, 3 occurrences, 2 contents, 3 files | 371,418 | Are edits kept, failures undone and receipts true; are clients served as configured; is no correction swallowed? |
| `install_reverse` | same | violation | Can every installation be reversed? |

The bounds are the smallest in which the interesting cases happen.

* `vault`, `proposals`, `install`: three stored memories make a chain of two corrections,
  or a correction and a bystander, fill the vault, and let each be forgotten in
  any order; two keys let a correction cross from one to the other, two scopes
  give a foreign target.
* `proposals`: five proposals and three proposers overshoot a limit of two by as many
  as can count together. A list of two shows cleanup less than there is.
* `budget`: two calls fill a day, so each limit is reached, by calls and by
  tokens; the rows suffice for all calls the limits admit, so they cut nothing off.
* `search`: three changes of a file allow one before, one during and one after a sync.
* `schedule`: four hours hold two full intervals of two.
* `extraction`: a retry may get fewer candidates, a refused one, the same text as a
  guess from another message, and another statement. A preview can expire, be evicted
  by another, and be confirmed under routes that changed and changed back.
* `sources`: a window ends by its lines, by its messages, or by the end of the file; a page
  of one makes the second file wait for the first, which may be stuck at a record for ever.
* `appserver`: a queue of one is full after one message, as 32 are after 32.
* `install`: two edits fall anywhere: before a comparison, between it and its write, between
  the write and the roll-back. The proofs hold for any number. A worktree and its checkout share a scope, and can be bound apart and
  together again. Two bindings use the same turn number, and a third
  occurrence is that of another client.

Named bounds are `MaxStamp` (changes of files), `LastDay`, `LastHour`, `LastTime` (clocks),
`MaxLines`, `Written` (the kinds of lines each file gets), `MaxReplaced`, `MaxEdits`, `MaxRetired`, `MaxBindings`, `MaxOrdinal`,
`Requests`, `MaxCandidates`, the `Attempt` set (row ids), `Switched` (the modules that are switched
on and off) and `Overtaken` (the folders whose commands others get ahead of); `MaxFiles`, `MaxProposals`,
`MaxListed`, `MaxPreviews`, `QueueSize`, `MaxEvents`, `PageSize` and the window sizes are the
program's own limits made small. Symmetry is used only in runs without
liveness, over values that are compared for equality only. The runs without a deadlock check are `extraction` (when all events are
done and all memories forgotten nothing is left to do) and `sources` (when everything is read).

Fairness:

* `ProviderBudget!FairSpec`: each operation keeps taking steps. Every wait in it
  has a deadline (five seconds for the database, the transport's own for a
  call), so there is always a step to take; processes may still crash.
* `Schedule!FairSpec`: strong fairness of due runs, since the hourly task and the
  dashboard tick keep coming and the lock is held only by runs that end, and weak
  fairness of the end of a run. This is an assumption about a machine that is
  on: without an installed task and with no dashboard open nobody checks.
* `SourceJobs!FairSourceSpec`: strong fairness of a due rule (the dashboard tick), and of an
  extraction that succeeds; weak fairness of the steps in between; and crashes come to
  an end. A file the provider fails on for ever is excluded (see section 4).
* `AppServer!FairSpec`: the caller takes its steps and its waits time out, the timer
  fires, and a reader sees the end of a child that is gone. Nothing is expected of
  the child.

What the properties say is in the comments above them. A few deserve a word:

* `AtomicUntilCrash` is the refinement of `MemoryStore` (`StoreSpec`) up to the first crash.
  `LineageUntilCrash` joins `LineageLinear`, `SupersededHasHeir` and `OneActivePerKey`; the last
  is about histories whose corrections stay within a key: a
  correction by explicit target may carry another key, and the code
  then leaves the active statement of that key beside it.
* `JobsCurrent`, `HistoryKept`: learn and forget write back whole copies, so a
  stale copy would undo somebody's change.
* `TokensWithinBudget` is an action property: a provider that reports more than
  was reserved can itself take the day over the limit
  (`docs/workbench.md` line 285), but no new call is then admitted.
* `OverLimitBounded`: propose counts and writes without a lock, so the cap may be exceeded,
  by no more than the proposers that counted at the same time.
* `RecallComplete` is about searches until two of them overlap.
* `NeverRelearned` is about indexes a receipt records. If a process dies between
  the vault and the receipt, and the retry's candidate quotes another
  message, the vault sees a new memory: the derived id depends on the message.
* `ServedAsConfigured` excepts a call during which the settings changed, an exclusion whose
  folder was bound elsewhere, and every exclusion that stands when a command is written from an
  old read, not only the one that this write takes away.
* `WindowsDisjoint` compares the windows sent since the cursors of the rule were last removed. It
  says nothing of those sent before a deletion that stopped half way (section 4).
* `EverythingRead` ends, in each file, at a record of over 2 MB, which `docs/workbench.md` line 265
  calls unsupported, and at a replacement or truncation; the other files must go on.
* `NothingLeft` lets the directory stay when a request to the child, or the refusal of a
  request of the child, could not be written: closing the pipe fails then, before the removal.
* `KeyBound` is about every profile a key could be resolved for in the present state. Settings that
  another process changes and changes back between two looks keep the key: the workbench cannot tell.
* `NothingSwallowed` is about event ids the model has not used in this turn: under a used one it
  retries, and gets the earlier answer.

## 4. Findings

| Run | What the documentation says | What the code does |
| --- | --- | --- |
| `vault_undo` | README.md:83: "forgetting the latest correction restores its predecessor" | A process that dies between the two writes of forget (`vault.py:461`, `464`) leaves the predecessor superseded; forgetting again returns at line 458. |
| `search_lost` | docs/architecture.md:51: recall synchronizes the index from canonical Markdown | Two syncs around a memory that moves to another path leave a row without text; the file is then skipped as unchanged and never found until it changes. |
| `install_reverse` | integration_install.py:1: "Owned, reversible global Codex configuration" | A project connection that was retired, set up again and retired again is listed twice in the receipt; removal plans its files twice, the second comparison meets the first write (`integration_install.py:84`), and everything is rolled back, every time. |

Seen while modelling, without a run of their own:

* Two concurrent searches after a new memory can end one of them with a false
  duplicate-id error (`search.py:166`) or a miss; both are gone at the next search.
* An acceptance that dies after saving the memory leaves the proposal pending; rejecting
  it then leaves the memory, against README.md:87. With more than 1,000 proposal files, which
  unlocked proposers can reach, every read of the store fails.
* Cleanup forgets a duplicate that somebody corrected since it was listed; its statement
  stays in the kept row, but forgetting the correction no longer restores it.
* A window whose extraction fails for ever is retried first in every run, and holds
  up the other files of its rule.
* A request or a reply that cannot be written to the app server leaves text in the pipe's buffer;
  closing the pipe then raises (`codex_subscription.py:257`) before the directory is removed.
* A deletion of a source rule removes its cursors and then saves the rules (`source_jobs.py:73`,
  `:83`). When the second does not happen the rule stays under its id and reads from the start: a
  file that has grown meanwhile is cut into other windows, so that statements that were extracted
  are sent again under other events.
* A record of over 2 MB at the start of a window raises in every run
  (`source_history.py:52`): the rest of its file is never read, with a warning only.
* After a crash in the middle of an installation, or a lost answer of the task script, later
  installations and removals refuse until the user cleans up.
* Settings that another process saves between the workbench's comparison and the load of its
  engine are not noticed. Previews survive when the sources module is
  disabled and enabled again from the command line.
* Binding a folder to another scope takes its exclusions along: a worktree that follows the
  same checkout is open again in the old scope. A `bind` written from an
  old read of `projects.json` takes away an exclusion made in between.

## 5. Proofs

All proofs are for arbitrary constants: any number of processes, memories, files, rows, rules and
hours, and any value of the bounds. What they assume of the constants is named in each module, and
TLC evaluates it in every run:

* null values differ from what they stand in for (`DistinctNames`, `DistinctHolder`,
  `DistinctJob`, `NoRowAssumption`, parts of the others);
* limits and bounds are natural numbers, and sizes and daily limits at least one
  (`LimitAssumption`, `BudgetAssumption`, `ScheduleAssumption`, `HistoryAssumption`,
  `AppServerAssumption`, ...);
* a derived id (uuid5) is injective by the structure of `Id`, and no random id (uuid4) equals a
  derived one (`HermesAssumption`);
* `Proc` of `Proposals` is finite and not empty (`ProcAssumption`): the bound counts processes;
* the bindings a folder may follow are a sequence of folders and its automatic scope is a scope
  (`ConnectionAssumption`); the folder of a rule is a set of files (`SourceAssumption`).

| Module | Theorem | Establishes |
| --- | --- | --- |
| `VaultProofs` | `TypeCorrect`, `CopiesCurrent`, `HistoryClosed`, `LimitKept` | `TypeOK`, `JobsCurrent`, `LineageClosed`, `FileLimit`, crashes included |
| | `ForgettingIsFinal`, `ContentKept`, `StatementsKept`, `InferencesStayOut` | `ForgottenIsFinal`, `HistoryKept`, `NeverLost`, `ProvisionalStaysOut`, crashes included |
| | `Atomic`, `AtomicBeforeCrash` | the refinement: `Spec => StoreSpec`, and `AtomicUntilCrash` |
| | `LineageBeforeCrash` | `LineageUntilCrash` |
| `ProposalsProofs` | `TypeCorrect`, `AcceptedSaved`, `Decided`, `SavedOnlyByAcceptance` | `TypeOK`, `AcceptedIsSaved`, `DecidedOnce`, `SavedByAcceptance` |
| | `OverLimitSmall` | `OverLimitBounded` |
| | `DuplicatesOnly` | `OnlyDuplicatesGo` (`Cleanup`) |
| `ProviderBudgetProofs` | `TypeCorrect`, `CallsLimited`, `CallsHaveReservations`, `NeverPaidAfterCodex`, `Kept` | `TypeOK`, `CallsWithinBudget`, `CallsReserved`, `NoPaidFallback`, `ReservationsKept` |
| | `TokensLimited` | `TokensWithinBudget` |
| `SearchIndexProofs` | `TypeCorrect`, `SkippedIsFresh`, `OnlyVisibleFound` | `TypeOK`, `StampFresh`, `NoInactiveHit` |
| | `AllFound`, `SearchableAlone` | `RecallComplete`; `RowsSearchable` until two searches overlap |
| `ScheduleProofs` | `TypeCorrect`, `Spaced`, `OnlyItsRunsMove` | `TypeOK`, `Spacing`, `DeadlineMoves` |
| | `SourceInvariant`, `WindowsApart`, `NothingPassedOver` | `SourceInv`, `WindowsDisjoint`, `ConsumedIsDone` (`SourceJobs`) |
| `ExtractionProofs` | `TypeCorrect`, `Truthful`, `OutcomesKept`, `LearnedOnce`, `ForgottenForGood` | `TypeOK`, `ReceiptTruthful`, `OutcomeKept`, `NeverRelearned`, `ForgottenStays` |
| | `SentWhereShown`, `KeysStayBound` | `SentAsShown`, `KeyBound` (`Workbench`) |
| `AppServerProofs` | `Invariant`, `Left`, `Ordered` | `IInv`, `NothingLeft`, `ScratchLast` |
| `InstallationProofs` | `InstallationTypes`, `RolledBack`, `ReceiptRight`, `EditsOutliveInstallation` | `TypeOK`, `AllOrNothing`, `ReceiptTrue`, `LaterEditsKept` (`Installation`) |
| | `TaskInvariant`, `ReceiptExact`, `EditsSurvive` | `TaskInv`, `TaskTrue`, `TaskEditsKept` (`ScheduledTask`) |
| | `ConnectionTypes`, `ServedRight` | `ConnectionTypeOK`, `ServedAsConfigured` (`Connections`) |
| | `HermesTypes`, `CorrectionsHeard` | `HermesTypeOK`, `NothingSwallowed` (`Hermes`) |

So every safety property that a passing run checks is also a theorem. The type invariants,
`LineageClosed`, `FileLimit`, `CallsReserved`, `SavedByAcceptance`, `ReservationsKept` and
`OutcomeKept` are proved and not part of a run.

The inductive invariants, and why they are needed:

* **Vault.** `IInv` adds to the properties that only the lock holder is in an
  operation (`Held`), that its copies equal the files and its new id is nobody's
  predecessor (`JobsCurrent`), that the stored ids are finite, and that
  there is room while a write is pending (`RoomLeft`). `LineageClosed` needs the
  second: undoing a creation removes a file, and only nobody's predecessor
  may go. `FileLimit` needs the last, since the count was taken a step earlier.
  The four action properties follow from `IInv` step by step: what a step writes is the copy it
  read, with another status.
* **Refinement.** At most one process is at work, so the committed files are the files seen through
  the step of that process (`View`). `Planned` says that its plan still fits the committed files:
  a new memory has room, is no duplicate and replaces what learn would choose, and a forget
  restores what `MemoryStore` would. Then the last write of each operation (which needs no undo any
  more) is one step of `MemoryStore`, and every other write, undone or not, is none. For
  `LineageUntilCrash` the same invariant is joined by the chains of the committed files, which each
  step of `MemoryStore` keeps (`Sound`).
* **Proposals.** The holder's proposal is still pending, and a saved one has its
  memory. For the cap, files and counted processes together stay below the limit plus the
  processes (`OverInv`): a count below the limit is what lets a process in.
* **Cleanup.** A row of the list is in force or was retracted by somebody since (`RowsTrue`), and
  every text seen is that of a row that was kept (`SeenKept`).
* **ProviderBudget.** Whoever is about to insert holds the transaction and fits
  into the day it is *now*, in calls (`HolderFits`) and in tokens (`HolderPays`): on the day it
  read because nobody else can write, neither a row nor an answer that reports more than was
  reserved, and after midnight because no row is dated in the future (`FutureEmpty`) and a
  request within the limit fits an empty day. `Remembered` ties the flag `codex_seen` to the
  providers tried. `Tokens` is a fold over the rows; that it exists, does not depend on the order
  of the rows, and grows by the new row's tokens is proved by looking at a counterexample of
  fewest rows (`TotalsExist`, `AnyOrder`, `TotalOneMore`).
* **SearchIndex.** Every row, committed or not, and every row a sync is about to
  write, tells the truth about its file or carries a stamp the file no longer has. The
  stamp is taken before the read, and stamps only grow. A hit is read again from the file, so a hit of a file
  that did not change since the search began is active (`HitsRead`). Until two searches overlap
  (`AloneInv`), the rows and the text agree (`Consistent`), and of the files that did not change
  since the search began the rows are up to date as soon as the sync has looked at them
  (`Looking`), and stay so through query and hits (`Found`). What a search that died left behind
  is rolled back, or is what the next one begins with.
* **Schedule.** While the schedule in `jobs.json` is on, the deadline is one
  interval after an anchor that no run of its scope began after (`Sound`); every way to
  change the file first takes over the settings, which keeps this.
* **SourceJobs.** What was sent of a file since the cursors were last removed lies before its
  cursor or is the range the cursor has frozen (`SentBehind`), and a frozen range is what a retry reads again (`RangesFrozen`), since
  files only grow at their end: so a new window begins where all that was sent ends. No
  cursor is ahead of its file (`CursorsWithin`), and the event of the run is the frozen range of
  the file it is at (`EventFrozen`); a cursor moves over a range only when that event is done.
* **Extraction.** Only the lock holder has a copy of a receipt, its event is not
  done, and the copy differs from the receipt at most in the candidate about to be
  saved, which is open there and stored in the vault.
* **Workbench.** After the comparison, and until the call, the settings are those of the preview,
  or somebody saved in between; and the engine is what was loaded then (`AsShown`). Every key
  held is tagged with the identity it was entered for, and the user's word for that identity still
  stands (`KeysStand`); so pruning on every save of the dashboard and every use is what keeps a
  key from coming back with an identity that was changed and changed back there.
* **AppServer.** A server is gone, or it is that of the pending login, or the one the caller
  uses or is closing (`Gone`, `InUse`), and gone means without its directory unless a
  message stuck in the buffer; whoever is inside `close()` has done the steps
  before (`InOrder`). The lock of `close()` makes one thread do them all, and the other waits.
* **Installation.** Of every file nobody edited since the transaction began, the disk holds what the
  plan says at this point (`AsPlanned`); between a comparison and its write the file is as compared
  or somebody edited it in the window (`Looked`); our part of a settings file
  is what the plan says unless somebody edited that part (`Parts`); and an emptied project connection is counted in the receipt
  before or after (`Retirement`), which is what `ReceiptTrue` needs at the end.
* **ScheduledTask.** Until a call ends unfinished, the task is the one of the receipt, the one
  the call is about to change from or to, or one the user touched (`TaskAccounted`); after a
  comparison it is what was compared or was touched since (`TaskCompared`); receipts never
  name a task the user edited (`TaskOurs`).
* **Connections.** An exclusion that still stands is written in a binding of its scope
  (`BarredWritten`), and what a call has looked at still holds unless the settings changed
  (`LookedAt`).
* **Hermes.** What was learned from the adapter was named in this turn, under a used event id, or in
  an earlier turn or binding (`NamedBefore`), so that a statement under a new event id meets no
  occurrence of its own; the user speaks only in a turn of a session (`Spoken`).

Only model-checked: the liveness properties `OperationEnds`, `Served`, `EverythingRead`,
`RequestEnds` and `LoginExpires`, since the prover does not reason about fairness and ENABLED; and
the three counterexamples of section 4, which need no proof. That an instance reaches the
interesting cases is also for TLC to show: a theorem does not say that anything happens.

## 6. Not modelled

* Text: Markdown syntax, slugs, limits on lengths, secret detection, query language and ranking,
  HTTP payloads, JSON validation. A candidate is valid or not, a query matches.
* Discarding a corrupt index and migrating its tables; creating and opening a vault.
* The "recent" mode of source schedules, and the choice of a file by hand.
* Read-only or delegating parts: conversation readers, CLI, plugin lookup, settings
  validation. They keep no state. Of the MCP server and the hooks only
  the checks before a call are modelled; the thread an MCP process is bound to changes nothing else.
* Clients of the MCP server and the hooks that are started with an explicit `--scope`: `Connections`
  has those that are bound by their folder.
* Three small races: the list that cleanup begins with is read file by file (`core.py:75`), and
  is one step in `Cleanup`; enabling a module reads and writes `config.toml` without a lock
  (`config.py:106`), and is one step in `Connections`; and `projects.json`, which the connection of a
  project writes too, is no file of the transaction in `Installation`.
* HTTP handling of the workbench, and the roll-back of the interactive setup
  (`setup_options.py`); the preparation of a new Hermes home.
* The V2 tool with its scripts and its MCP server: about nine tenths of the repository's
  Python. It is the previous generation: `pyproject.toml` does not package it and
  nothing of V3 calls it. Its plugins and skills, the site, contracts and
  sample data are not programs of V3 either.
* File systems that lose a completed rename, clocks that run backwards, and two
  changes of a file with the same time and size.

## 7. Plan

What is left, in this order:

1. The "recent" mode of source schedules in `SourceJobs`, and with it `WindowsDisjoint` for files
   known by their hash.
2. The interactive setup and its roll-back (`setup_options.py`) as a client of `Installation` and
   `ScheduledTask`.
3. What survives a crash in the vault, as a second refinement: `MemoryStore` with a step
   that loses the status of one memory, implemented by `CrashSpec`.
4. `Cleanup`, `Extraction` and `Hermes` see the vault as single steps: compose the theorem
   `Atomic` with theirs, so that what they prove holds over `Vault` until a crash.
