SPECIFICATION FilesSpec
CONSTANTS
    t1 = t1
    t2 = t2
    t3 = t3
    p1 = p1
    p2 = p2
    Threads = {t1, t2, t3}
    Processes = {p1, p2}
    ProcessOf <- MCProcessOf
    Contents = {c1}
    Purposes = {any}
    Broken = broken
    Absent = absent
    DirectorySynced = FALSE
    MaxTemps = 2
    MaxDamage = 1
SYMMETRY Interchangeable
INVARIANTS
    TempsAreOwned
    PublishedIsWhole
PROPERTIES
    PutSucceedsOnlyWhole
    PublishedIsForever
