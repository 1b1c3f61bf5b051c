----------------------------- MODULE Connections -----------------------------
(***************************************************************************)
(* Which project a client works in, and whether it may: projects.py binds  *)
(* folders to scopes and excludes clients from them, config.py enables     *)
(* modules, and every call of a connected client looks at both again       *)
(* (mcp.py ClientBinding, harness.py main).  Each look reads the files     *)
(* anew, and the commands that change them read a file and write it back   *)
(* without a lock.                                                         *)
(***************************************************************************)
EXTENDS Naturals, Sequences

CONSTANTS
    Folder,
    ProjectScope,
    Harness,      \* the clients: codex, and claude
    Codex,        \* the first of them, which has an MCP process for every folder
    Follows,      \* the folders whose binding a folder follows: itself and those
                  \* around it, nearest first, else its main Git checkout
    Automatic,    \* the scope of a folder without a binding
    Switched,     \* bound: the modules that are switched on and off
    Overtaken,    \* bound: the folders whose commands others get ahead of
    NoEntry, NoScope, NoWork, NoVisit

VARIABLES
    projects,  \* projects.json: the scope of a folder and the clients excluded there
    modules,   \* config.toml: the enabled modules
    work,      \* a command that others get ahead of, with the file as it read it
    visit,     \* a call of a client: a tool of the MCP process, or a prompt hook
    barred,    \* auxiliary: what exclude commands promised, until it is taken back
    shifted    \* auxiliary: settings changed since the call began

connectionVars == <<projects, modules, work, visit, barred, shifted>>

Module == Harness \cup {"mcp"}
Entry == [scope : ProjectScope, excluded : SUBSET Harness]
Projects == [Folder -> Entry \cup {NoEntry}]

\* bind, exclude and include.  The latter two may name a scope too, which is a
\* binding and an exclusion in one write; they are given without one here.
Commands ==
    [folder : Folder, scope : ProjectScope, excludes : {{}}, includes : {{}}]
    \cup [folder : Folder, scope : {NoScope}, excludes : {{c} : c \in Harness}, includes : {{}}]
    \cup [folder : Folder, scope : {NoScope}, excludes : {{}}, includes : {{c} : c \in Harness}]

\* The MCP process of a folder has a scope from the start, a prompt hook has none.
Visit == [client : Harness, folder : Folder, scope : ProjectScope \cup {NoScope},
          step : {"admit", "locate", "serve"}]

ASSUME ConnectionAssumption ==
    /\ Codex \in Harness /\ Switched \subseteq Module
    /\ Follows \in [Folder -> Seq(Folder)]
    /\ Automatic \in [Folder -> ProjectScope]
    /\ NoEntry \notin Entry /\ NoScope \notin ProjectScope
    /\ NoWork \notin [command : Commands, read : Projects] /\ NoVisit \notin Visit

ConnectionTypeOK ==
    /\ projects \in Projects
    /\ modules \subseteq Module
    /\ work \in [command : Commands, read : Projects] \cup {NoWork}
    /\ visit \in Visit \cup {NoVisit}
    /\ barred \subseteq ProjectScope \X Harness
    /\ shifted \in BOOLEAN

ConnectionInit ==
    /\ projects = [f \in Folder |-> NoEntry]
    /\ modules = Module
    /\ work = NoWork
    /\ visit = NoVisit
    /\ barred = {} /\ shifted = FALSE

-----------------------------------------------------------------------------
(***************************************************************************)
(* resolve_project.                                                        *)
(***************************************************************************)
Bound(data, f) == {i \in DOMAIN Follows[f] : data[Follows[f][i]] # NoEntry}

Nearest(data, f) ==
    LET first == CHOOSE i \in Bound(data, f) : \A j \in Bound(data, f) : i <= j
    IN  Follows[f][first]

ScopeOf(data, f) == IF Bound(data, f) = {} THEN Automatic[f] ELSE data[Nearest(data, f)].scope

\* Mutant: the exclusions of the folder's own binding only.
ExcludedHere(data, f) == IF Bound(data, f) = {} THEN {} ELSE data[Nearest(data, f)].excluded

\* The exclusions of every binding to the same scope; that of the folder is one
\* of them.
Excluded(data, f) ==
    UNION {data[g].excluded : g \in {h \in Folder : data[h] # NoEntry /\ data[h].scope = ScopeOf(data, f)}}

-----------------------------------------------------------------------------
(***************************************************************************)
(* configure_project.                                                      *)
(***************************************************************************)

\* A new binding keeps the exclusions of the folder; one for the sake of an
\* exclusion keeps the scope the folder has, for which the file is read again.
Configured(data, now, c) ==
    LET kept  == IF data[c.folder] = NoEntry THEN {} ELSE data[c.folder].excluded
        scope == CASE c.scope # NoScope                              -> c.scope
                   [] c.scope = NoScope /\ data[c.folder] # NoEntry -> data[c.folder].scope
                   [] OTHER                                          -> ScopeOf(now, c.folder)
        own   == [data EXCEPT ![c.folder] = [scope |-> scope, excluded |-> kept]]
    IN  [g \in Folder |->
            IF own[g] # NoEntry /\ own[g].scope = scope
            THEN [own[g] EXCEPT !.excluded = (@ \cup c.excludes) \ c.includes]
            ELSE own[g]]

\* What the user may rely on afterwards.  Binding an excluded folder to another
\* scope takes its exclusions along, so that the old scope may be open again.
Promised(before, data, c) ==
    LET scope == Configured(data, projects, c)[c.folder].scope
        moved == IF data[c.folder] = NoEntry \/ data[c.folder].scope = scope THEN {}
                 ELSE {data[c.folder].scope} \X data[c.folder].excluded
    IN  ((before \ moved) \cup ({scope} \X c.excludes)) \ ({scope} \X c.includes)

\* The whole file is written back.  When it was changed since it was read that
\* change is lost, and with it everything promised before.
WriteBack(command, read) ==
    /\ projects' = Configured(read, projects, command)
    /\ barred' = Promised(IF read = projects THEN barred ELSE {}, read, command)
    /\ shifted' = (visit # NoVisit)
    /\ UNCHANGED <<modules, visit>>

\* A command at one go, and one that is interrupted between read and write.
Configure(command) == WriteBack(command, projects) /\ UNCHANGED work

BeginCommand(command) ==
    /\ command.folder \in Overtaken
    /\ work = NoWork
    /\ work' = [command |-> command, read |-> projects]
    /\ UNCHANGED <<projects, modules, visit, barred, shifted>>

EndCommand ==
    /\ work # NoWork
    /\ WriteBack(work.command, work.read)
    /\ work' = NoWork

\* set_module_enabled, for a module that is on or off.
Toggle(m) ==
    /\ modules' = IF m \in modules THEN modules \ {m} ELSE modules \cup {m}
    /\ shifted' = (visit # NoVisit)
    /\ UNCHANGED <<projects, work, visit, barred>>

-----------------------------------------------------------------------------
(***************************************************************************)
(* Clients.                                                                *)
(***************************************************************************)

Visits(c, f, s) ==
    /\ visit = NoVisit
    /\ visit' = [client |-> c, folder |-> f, scope |-> s, step |-> "admit"]
    /\ shifted' = FALSE
    /\ UNCHANGED <<projects, modules, work, barred>>

\* The MCP process that Codex runs in a folder has fixed its scope when it
\* started, which may have been any: the folder may have been bound to it then.
Tool(f, s) == Visits(Codex, f, s)

\* The hook of a connection that finds its scope by itself.
Prompt(c, f) == Visits(c, f, NoScope)

Ended == visit' = NoVisit /\ shifted' = FALSE
Onward(s, step) == visit' = [visit EXCEPT !.scope = s, !.step = step] /\ UNCHANGED shifted

\* The modules are enabled, and the client is not excluded.
Permitted ==
    /\ visit.scope # NoScope => "mcp" \in modules
    /\ visit.client \in modules \ Excluded(projects, visit.folder)

Admit ==
    /\ visit # NoVisit /\ visit.step = "admit"
    /\ IF Permitted THEN Onward(visit.scope, "locate") ELSE Ended
    /\ UNCHANGED <<projects, modules, work, barred>>

\* The project is resolved a second time.  A hook takes the scope it finds; the
\* MCP process asks its client to reconnect when it is not its own.
Locate ==
    /\ visit # NoVisit /\ visit.step = "locate"
    /\ LET s == ScopeOf(projects, visit.folder) IN
       IF visit.scope \in {NoScope, s} THEN Onward(s, "serve") ELSE Ended
    /\ UNCHANGED <<projects, modules, work, barred>>

\* The vault is opened, and searched or written to.
Serve ==
    /\ visit # NoVisit /\ visit.step = "serve"
    /\ Ended
    /\ UNCHANGED <<projects, modules, work, barred>>

ConnectionNext ==
    \/ \E command \in Commands : Configure(command) \/ BeginCommand(command)
    \/ EndCommand
    \/ \E m \in Switched : Toggle(m)
    \/ \E f \in Folder, s \in ProjectScope : Tool(f, s)
    \/ \E f \in Folder, c \in Harness : Prompt(c, f)
    \/ Admit \/ Locate \/ Serve

ConnectionSpec == ConnectionInit /\ [][ConnectionNext]_connectionVars

-----------------------------------------------------------------------------

\* integrations.md: "Exclusion/re-enablement applies to aliases sharing that
\* project scope, including known worktrees", and "a changed scope requires
\* reconnecting the client".  Whatever was bound, excluded and included before
\* in whatever order, a client is served only in the scope its folder has, and
\* not in one it was excluded from; unless a later command overwrote
\* another, or the settings changed between the looks of this very call.
ServedAsConfigured ==
    [][Serve /\ ~shifted =>
          /\ visit.scope = ScopeOf(projects, visit.folder)
          /\ <<visit.scope, visit.client>> \notin barred]_connectionVars
=============================================================================
