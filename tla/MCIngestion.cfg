SPECIFICATION IngestSpec
CONSTANTS
    t1 = t1
    t2 = t2
    p1 = p1
    p2 = p2
    Threads = {t1, t2}
    Processes = {p1, p2}
    ProcessOf <- MCProcessOf
    Contents = {c1, c2}
    ArtifactKeys = {a1}
    Sources = {s1, s2}
    Unrevised = {s2}
    Purposes <- MCPurposes
    Broken = broken
    Absent = absent
    DirectorySynced = TRUE
    MaxTemps = 1
    MaxDamage = 0
    MaxIngests = 3
SYMMETRY Interchangeable
INVARIANTS
    IngestTypeOK
    LogTellsVersions
    SourcesAreDeliveries
PROPERTIES
    ArchiveSpec
