CONSTANTS
    None = None
    Conn = {c1, c2}
    Lookup = {p1, p2}
    CursorBound = 10
SPECIFICATION LookupSpec
PROPERTY NoneOnlyIfDead
