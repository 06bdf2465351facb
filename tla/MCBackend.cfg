SPECIFICATION BackendSpec
CONSTANTS
    u1 = u1
    u2 = u2
    ana = ana
    g1 = g1
    pw8 = pw8
    e1 = e1
    e2 = e2
    f1 = f1
    a = a
    bad = bad
    nul = nul
    malformed = malformed
    r1 = r1
    r2 = r2
    UserId = {u1, u2}
    User = {u1, u2}
    NoUser = Nil
    RawEmail = {ana}
    NoEmail = NoEmail
    Lower <- MCLower
    ValidEmail = {ana}
    NulEmail = {}
    Sub = {}
    NoSub = NoSub
    Password = {pw8}
    NoPassword = NoPassword
    PasswordLen <- MCPasswordLen
    TokenId = {}
    NotUsed = NotUsed
    LegacyId = {}
    MaxFaults = 0
    Request = {r1}
    EventId = {e1, e2}
    Nil = Nil
    MalformedId = {malformed}
    Field = {f1}
    Value = {a, bad, nul}
    ValidValue = {a, nul}
    NulValue = {nul}
    Clean <- MCClean
    Absent = Absent
    Document <- MCDocument
    EventRequest = {r1}
    LastInstant = 1
    EventFaults = 0
SYMMETRY MCSymmetry
CHECK_DEADLOCK FALSE
PROPERTIES
    OnlyItsOwner
    ShowsOwnEvents
    
    ImplementsEventBook
