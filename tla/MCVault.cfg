SPECIFICATION UntilCrashSpec
CONSTANTS
    Scope = {s1, s2}
    Key = {k1, k2}
    Content = {c1, c2}
    Occurrence = {o1, o2}
    Uuid = {u1}
    MaxFiles = 3
    NoKey = NoKey
    NoId = NoId
    NoFile = NoFile
    Proc = {p1, p2}
    NoProc = NoProc
    NoJob = NoJob
SYMMETRY Symmetry
INVARIANT JobsCurrent
INVARIANT LineageUntilCrash
PROPERTY AtomicUntilCrash
PROPERTY ForgottenIsFinal
PROPERTY HistoryKept
PROPERTY NeverLost
PROPERTY ProvisionalStaysOut
