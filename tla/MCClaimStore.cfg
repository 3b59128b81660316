SPECIFICATION StoreSpec
CONSTANTS
    Keys = {k1, k2}
    Values = {v1, v2}
    Unknown = unknown
    Derivations = {}
    MaxClaims = 3
    MaxCommits = 5
    MaxTime = 1
SYMMETRY Interchangeable
INVARIANTS
    TypeOK
    DetectionExact
    ContradictionVisible
    CorrectionsTraceToEvidence
    HistoryAccountable
    FactsMatchVerifications
    EstablishedHasFact
PROPERTIES
    AuditedGrowth
    VerificationIsNotRegained
    WithdrawalUndoneOnlyByReview
\* Nothing is enabled once MaxCommits transactions have committed.
CHECK_DEADLOCK FALSE
