SPECIFICATION FairSpec
CONSTANTS
    Signups = {s1, s2}
    Uploads = {u1}
    Plain = {q1}
    PoolSize = 3
    MaxStatements = 2
INVARIANTS
    TypeOK
    NoConnectionLeaks
    NeverStalled
PROPERTY
    EveryRequestEnds
CHECK_DEADLOCK FALSE
