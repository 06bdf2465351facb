SPECIFICATION AuthSpec
CONSTANTS
    u1 = u1
    u2 = u2
    ana = ana
    ANA = ANA
    beto = beto
    anaNul = anaNul
    g1 = g1
    g2 = g2
    pw8 = pw8
    pw73 = pw73
    r1 = r1
    r2 = r2
    UserId = {u1, u2}
    NoUser = NoUser
    RawEmail = {ana, beto}
    NoEmail = NoEmail
    Lower <- MCLower
    ValidEmail = {ana, beto}
    NulEmail = {}
    Sub = {g1, g2}
    NoSub = NoSub
    Password = {pw8}
    NoPassword = NoPassword
    PasswordLen <- MCPasswordLen
    TokenId = {}
    NotUsed = NotUsed
    LegacyId = {u1, u2}
    Request = {r1, r2}
    MaxFaults = 0
SYMMETRY MCSymmetry
CHECK_DEADLOCK FALSE
PROPERTIES
    SameSubRaceSignsIn
