SPECIFICATION EventSpec
CONSTANTS
    ana = ana
    beto = beto
    e1 = e1
    e2 = e2
    f1 = f1
    f2 = f2
    a = a
    b = b
    padded = padded
    malformed = malformed
    r1 = r1
    r2 = r2
    Nil = Nil
    Absent = Absent
    Clean <- MCClean
    User = {ana}
    EventId = {e1, e2}
    MalformedId = {}
    Field = {f1}
    Value = {a}
    ValidValue = {a}
    NulValue = {}
    Document <- MCOneItem
    EventRequest = {r1, r2}
    LastInstant = 0
    EventFaults = 0
SYMMETRY MCSymmetry
CHECK_DEADLOCK FALSE
INVARIANT
    PartialImportNeverAborts
