SPECIFICATION FairSpec
CONSTANTS
    Signups = {s1, s2}
    Signins = {i1}
    Refreshes = {r1}
    Emails = {e1, e2}
    Passwords = {p1}
    Nothing = Nothing
    TTL = 1
    MaxTime = 1
    PasswordSelected = TRUE
    Faulty = TRUE
    RejectionEffects = {"reported", "exit"}
INVARIANTS
    TypeOK
    UniqueEmail
    OneRowPerUser
    RowOwned
    AnsweredUserIsDurable
    StoredTokenIsHeld
    SessionUnderWay
PROPERTIES
    ImplementsAccounts
    AccountGetsSession
    EveryRequestEnds
CHECK_DEADLOCK FALSE
