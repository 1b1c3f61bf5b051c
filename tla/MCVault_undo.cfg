SPECIFICATION UntilCrashSpec
CONSTANTS
    Scope = {s1}
    Key = {k1}
    Content = {c1, c2}
    Occurrence = {o1, o2}
    Uuid = {u1}
    MaxFiles = 3
    NoKey = NoKey
    NoId = NoId
    NoFile = NoFile
    Proc = {p1, p2}
    NoProc = NoProc
    NoJob = NoJob
SYMMETRY Symmetry
INVARIANT ForgettingRestores
