SPECIFICATION RegistrySpec
CONSTANTS
    Evaluators = {e1, e2}
    status = status
    d1 = d1
    d2 = d2
    first = first
    second = second
    zero = zero
    misdated = misdated
    empty = empty
    ruleA = ruleA
    ruleB = ruleB
    Keys = {status}
    Values = {d1, d2}
    Dates = {d1, d2}
    Unknown = unknown
    NoWork = nowork
    RuleVersions = {first, second, zero, misdated, empty}
    Identities = {ruleA, ruleB}
    Misdated = {misdated}
    MaxConditions = 1
    IdentityOf <- MCIdentityOf
    NumberOf <- MCNumberOf
    Conditions <- MCConditions
    AnchorKeys <- MCAnchorKeys
    Days <- MCDays
    DayOf <- MCDayOf
    Derivations <- MCDerivations
    Interval = 3
    LastDay = 4
    MaxClaims = 2
    MaxCommits = 3
    MaxTime = 0
    MaxEvaluations = 2
SYMMETRY Interchangeable
INVARIANTS
    OneEvaluationPerInputs
    WorkIsJustified
    AffectedExact
    RegistryIsWhole
    DeadlineAnswersAreTraceable
