SPECIFICATION RuleSpec
CONSTANTS
    Evaluators = {e1}
    status = status
    notice = notice
    d1 = d1
    d2 = d2
    r1 = r1
    Keys = {status, notice}
    Values = {d1, d2}
    Dates = {d1, d2}
    Unknown = unknown
    NoWork = nowork
    RuleVersions = {r1}
    Conditions <- MCConditions
    AnchorKeys <- MCAnchorKeys
    Days <- MCDays
    DayOf <- MCDayOf
    Derivations <- MCDerivations
    Interval = 3
    LastDay = 4
    MaxClaims = 3
    MaxCommits = 4
    MaxTime = 0
    MaxEvaluations = 1
INVARIANTS
    RuleTypeOK
    EvaluationReproducible
    InputsHadBeenVerified
