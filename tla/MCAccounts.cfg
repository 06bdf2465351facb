SPECIFICATION AccountsSpec
CONSTANTS
    u1 = u1
    u2 = u2
    ana = ana
    g1 = g1
    pw8 = pw8
    t1 = t1
    t2 = t2
    r1 = r1
    v1 = v1
    v2 = v2
    UserId = {u1, u2}
    NoUser = NoUser
    RawEmail = {ana}
    NoEmail = NoEmail
    Lower <- MCLower
    ValidEmail = {ana}
    NulEmail = {}
    Sub = {g1}
    NoSub = NoSub
    Password = {pw8}
    NoPassword = NoPassword
    PasswordLen <- MCPasswordLen
    TokenId = {t1, t2}
    NotUsed = NotUsed
    LegacyId = {u1}
    MaxFaults = 1
    Request = {r1}
    VRequest = {v1, v2}
    NoToken = NoToken
    TTL = 1
    MaxClock = 1
SYMMETRY MCSymmetry
CHECK_DEADLOCK FALSE
INVARIANTS
    AccountsInv
    VerifiedByLink
    OneConfirmer
    UsedBeforeExpiry
    NoOrphanTokens
