CONSTANTS
    p1 = p1
    p2 = p2
    r1 = r1
    x = x
    y = y
    z = z
    Posters = {p1, p2}
    Readers = {r1}
    Sessions = {x, y, z}
    MaxPosts = 5
SPECIFICATION Spec
INVARIANTS
    TypeOK
    StoredRecordsKept
    OneRecordPerSession
PROPERTIES
    CountsCoverTotal
CHECK_DEADLOCK FALSE
SYMMETRY Symmetric
