SPECIFICATION RuleSpec
CONSTANTS
    Evaluators = {e1}
    status = status
    notice = status
    d1 = d1
    d2 = d2
    r1 = r1
    Keys = {status}
    Values = {d1, d2}
    Dates = {d1, d2}
    Unknown = unknown
    NoWork = nowork
    RuleVersions = {r1}
    Conditions <- MCConditions
    AnchorKeys <- MCAnchorKeys
    Days <- MCDays
    DayOf <- MCDayOf
    Derivations <- MCDerivations
    Interval = 3
    LastDay = 4
    MaxClaims = 3
    MaxCommits = 3
    MaxTime = 0
    MaxEvaluations = 2
INVARIANTS
    AffectedComplete
