SPECIFICATION Spec
CONSTANTS
    r1 = r1
    r2 = r2
    c1 = c1
    c2 = c2
    p1 = p1
    p2 = p2
    a = a
    b = b
    i1 = i1
    n1 = n1
    t1 = t1
    x1 = x1
    Requests = {r1, r2}
    ItemIds = {i1}
    NoteIds = {}
    TicketIds = {}
    AnnouncementIds = {}
    Scopes <- AllScopes
    Names = {a, b, Blank}
    Blank = Blank
    Nobody = Nobody
    Absent = Absent
    PoolSize = 2
    MaxCalls = 3
INVARIANTS
    ConflictMeansStale
