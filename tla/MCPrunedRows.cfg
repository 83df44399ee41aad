CONSTANTS
    Statements <- MCSharedRange
    TimeColumn <- MCTimeColumn
    Content <- MCContent
    InstantsPerDay = 1
    FirstDay = 0
    LastDay = 9
SPECIFICATION RewriteSpec
CHECK_DEADLOCK FALSE
INVARIANTS
    PrunedAnswersAreExact

