SPECIFICATION FairSpec
CONSTANTS
    Run = {r1, r2}
    DailyCalls = 2
    DailyTokens = 2
    LastDay = 1
    NoRun = NoRun
    NoRow = NoRow
    Attempt = {1, 2, 3, 4}
    Routes <- RouteSet
    Estimates <- Estimate
    Usages <- Usage
INVARIANT CallsWithinBudget
INVARIANT NoPaidFallback
PROPERTY TokensWithinBudget
PROPERTY OperationEnds
