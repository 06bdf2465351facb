SPECIFICATION EventSpec
CONSTANTS
    ana = ana
    beto = beto
    e1 = e1
    e2 = e2
    f1 = f1
    f2 = f2
    a = a
    b = b
    padded = padded
    malformed = malformed
    r1 = r1
    r2 = r2
    Nil = Nil
    Absent = Absent
    Clean <- MCClean
    User = {ana}
    EventId = {e1, e2}
    MalformedId = {malformed}
    Field = {f1}
    Value = {a, b, padded}
    ValidValue = {a, padded}
    NulValue = {}
    Document <- MCDocument
    EventRequest = {r1, r2}
    LastInstant = 1
    EventFaults = 1
SYMMETRY MCSymmetry
CHECK_DEADLOCK FALSE
INVARIANTS
    EventInv
    SealedInOrder
    DeletedStaysDeleted
    SummaryAccountsForAll
PROPERTIES
    AtomicIsAllValid
