SPECIFICATION MCSpec
CONSTANTS
    Proc = {p1, p2, p3}
    Proposal = {x1, x2, x3, x4, x5}
    MaxProposals = 2
    NoProc = NoProc
    NoProposal = NoProposal
    Scope = {global, project}
    Key = {k}
    Content = {c1, c2}
    Occurrence = {o1, o2}
    Uuid = {u1}
    MaxFiles = 3
    NoKey = NoKey
    NoId = NoId
    NoFile = NoFile
    Global = global
    MaxListed = 2
SYMMETRY Symmetry
INVARIANT AcceptedIsSaved
INVARIANT OverLimitBounded
PROPERTY DecidedOnce
PROPERTY OnlyDuplicatesGo
