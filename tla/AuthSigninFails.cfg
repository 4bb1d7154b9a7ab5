SPECIFICATION FairSpec
CONSTANTS
    Signups = {s1}
    Signins = {i1}
    Refreshes = {r1}
    Emails = {e1}
    Passwords = {p1}
    Nothing = Nothing
    TTL = 2
    MaxTime = 1
    PasswordSelected = FALSE
    Faulty = FALSE
    RejectionEffects = {"reported", "exit"}
INVARIANT
    SigninSucceeds
CHECK_DEADLOCK FALSE
