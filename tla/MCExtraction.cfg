SPECIFICATION MCSpec
CONSTANTS
    Proc = {p1, p2}
    Event = {e1, e2}
    t1 = t1
    t2 = t2
    x1 = x1
    x2 = x2
    Turn = {t1, t2}
    Text = {x1, x2}
    Answers <- AnswerSet
    MaxCandidates = 2
    Open = Open
    Rejected = Rejected
    NoProc = NoProc
    NoJob = NoJob
    NoMemory = NoMemory
    Invalid = Invalid
    a = a
    b = b
    i1 = i1
    i2 = i2
    Provider = {a, b}
    Settings <- SettingsSet
    Identity = {i1, i2}
    Life = 1
    MaxPreviews = 2
    LastTime = 1
    NoKey = NoKey
    NoPreview = NoPreview
SYMMETRY Symmetry
INVARIANT ReceiptTruthful
PROPERTY NeverRelearned
PROPERTY ForgottenStays
PROPERTY SentAsShown
INVARIANT KeyBound
CHECK_DEADLOCK FALSE
