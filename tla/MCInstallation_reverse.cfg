SPECIFICATION MCSpec
CONSTANTS
    Version = {v1, v2}
    Target = {v1, v2}
    Text = {t1, t2}
    MaxEdits = 2
    MaxRetired = 2
    None = None
    Missing = Missing
    Edited = Edited
    Folder = {main, worktree}
    main = main
    worktree = worktree
    ProjectScope = {scope1, scope2}
    scope1 = scope1
    scope2 = scope2
    Harness = {codex}
    Codex = codex
    Follows <- FollowsDef
    Automatic <- AutomaticDef
    Switched = {codex}
    Overtaken = {worktree}
    NoEntry = NoEntry
    NoScope = NoScope
    NoWork = NoWork
    NoVisit = NoVisit
    Scope = {h}
    Profile = h
    Key = {k}
    Content = {c1, c2}
    Event = {e1}
    o1 = o1
    Occurrence <- OccurrenceDef
    MaxBindings = 2
    MaxOrdinal = 1
    Uuid = {u1}
    MaxFiles = 3
    NoKey = NoKey
    NoId = NoId
    NoFile = NoFile
SYMMETRY Symmetry
INVARIANT Reversible
