SPECIFICATION PipelineSpec
CONSTANTS
    Workers = {w1}
    Idle = idle
    k1 = k1
    v1 = v1
    v2 = v2
    Keys = {k1}
    Values = {v1, v2}
    Unknown = unknown
    Derivations = {}
    note = note
    twice = twice
    blank = blank
    photo = photo
    Documents = {note}
    FieldsOf <- MCFieldsOf
    RefusalOf <- MCRefusalOf
    Questions <- MCQuestions
    MaxClaims = 3
    MaxCommits = 3
    MaxTime = 0
INVARIANTS
    RetriesAreHarmless
