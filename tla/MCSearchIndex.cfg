SPECIFICATION AloneSpec
CONSTANTS
    Searcher = {s1, s2}
    Path = {f1, f2}
    Id = {i1, i2}
    MaxStamp = 3
    NoSearcher = NoSearcher
    NoFile = NoFile
SYMMETRY Symmetry
INVARIANT StampFresh
INVARIANT NoInactiveHit
INVARIANT RecallComplete
