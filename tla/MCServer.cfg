\* Four beginnings: two servers with two sign-ins or enrollments, one with three.
SPECIFICATION Spec
CONSTANTS
    Process = {p1, p2}
    Newest = 2
    MaxStarts = 3
    Browser = {b1, b2}
    Machine = {m1, m2}
    Token = {t1}
    MaxUses = 1
    MaxBegun = 4
    p1 = p1
    p2 = p2
    b1 = b1
    b2 = b2
    m1 = m1
    m2 = m2
    t1 = t1
INVARIANTS
    TypeOK
    SchemaFits
    SessionIsOwn
    UsesAreAccounted
CHECK_DEADLOCK FALSE
SYMMETRY Symmetry
