SPECIFICATION PatientSpec
CONSTANTS
    u1 = u1
    u2 = u2
    ana = ana
    beto = beto
    pw8 = pw8
    t1 = t1
    t2 = t2
    t3 = t3
    r1 = r1
    r2 = r2
    UserId = {u1}
    NoUser = NoUser
    RawEmail = {ana, beto}
    NoEmail = NoEmail
    Lower <- MCLower
    ValidEmail = {ana, beto}
    NulEmail = {}
    Sub = {}
    NoSub = NoSub
    Password = {pw8}
    NoPassword = NoPassword
    PasswordLen <- MCPasswordLen
    TokenId = {t1, t2, t3}
    NotUsed = NotUsed
    LegacyId = {}
    MaxFaults = 1
    VRequest = {r1, r2}
    NoToken = NoToken
    TTL = 2
    MaxClock = 2
CHECK_DEADLOCK FALSE
PROPERTIES
    EventuallyVerified
