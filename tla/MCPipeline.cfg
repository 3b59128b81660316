SPECIFICATION PipelineSpec
CONSTANTS
    Workers = {w1, w2}
    Idle = idle
    k1 = k1
    v1 = v1
    v2 = v2
    Keys = {k1}
    Values = {v1, v2}
    Unknown = unknown
    Derivations = {}
    note = note
    twice = twice
    blank = blank
    photo = photo
    Documents = {twice, blank, photo}
    FieldsOf <- MCFieldsOf
    RefusalOf <- MCRefusalOf
    Questions <- MCQuestions
    MaxClaims = 2
    MaxCommits = 3
    MaxTime = 1
SYMMETRY Interchangeable
INVARIANTS
    ServiceTypeOK
    EstablishedIsGrounded
    RepliesAreWhole
    RepeatedClaimsCorroborate
PROPERTIES
    StoreSpec
    ConflictIsNeverSettled
