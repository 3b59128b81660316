SPECIFICATION IngestSpec
CONSTANTS
    t1 = t1
    t2 = t2
    p1 = p1
    p2 = p2
    Threads = {t1, t2}
    Processes = {p1, p2}
    ProcessOf <- MCProcessOf
    Contents = {c1}
    ArtifactKeys = {a1}
    Sources = {s1, s2}
    Unrevised = {s2}
    Purposes <- MCPurposes
    Broken = broken
    Absent = absent
    DirectorySynced = FALSE
    MaxTemps = 2
    MaxDamage = 0
    MaxIngests = 2
INVARIANTS
    IngestedIsPreserved
