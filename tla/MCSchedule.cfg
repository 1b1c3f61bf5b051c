SPECIFICATION FairSpec
CONSTANTS
    Proc = {p1, p2}
    Scope = {global, project}
    Interval = {1, 2}
    LastHour = 4
    NoProc = NoProc
    None = None
PROPERTY Spacing
PROPERTY DeadlineMoves
PROPERTY Served
