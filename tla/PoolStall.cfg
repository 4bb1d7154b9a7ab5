SPECIFICATION FairSpec
CONSTANTS
    Signups = {s1, s2}
    Uploads = {u1}
    Plain = {}
    PoolSize = 2
    MaxStatements = 2
PROPERTY
    SignupsReleaseTheirs
CHECK_DEADLOCK FALSE
