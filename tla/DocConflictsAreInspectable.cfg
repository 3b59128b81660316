SPECIFICATION ServiceSpec
CONSTANTS
    Workers = {w1}
    Idle = idle
    Keys = {k1}
    Values = {v1, v2}
    Unknown = unknown
    Derivations = {}
    MaxClaims = 2
    MaxCommits = 4
    MaxTime = 0
INVARIANTS
    ConflictsAreInspectable
