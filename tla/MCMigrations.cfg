SPECIFICATION MigrationSpec
CONSTANTS
    m1 = m1
    m2 = m2
    m3 = m3
    m4 = m4
    m2edited = m2edited
    new1 = new1
    new2 = new2
    old = old
    changed = changed
    Programs = {new1, new2, old, changed}
    Sources <- MCSources
    Contents = {m1, m2, m3, m4, m2edited}
    MaxFailures = 1
INVARIANTS
    SchemaIsRecorded
    OpenedAgrees
PROPERTIES
    NeverLeftHalfway
