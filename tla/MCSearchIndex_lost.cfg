SPECIFICATION AloneSpec
CONSTANTS
    Searcher = {s1, s2}
    Path = {f1, f2}
    Id = {i1}
    MaxStamp = 2
    NoSearcher = NoSearcher
    NoFile = NoFile
SYMMETRY Symmetry
INVARIANT RowsSearchable
