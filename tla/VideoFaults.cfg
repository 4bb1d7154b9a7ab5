SPECIFICATION FairSpec
CONSTANTS
    Uploads = {u1, u2}
    Downloads = {d1, d2}
    Names <- MCNames
    Subtypes = {"mp4"}
    Nothing = Nothing
    Faulty = TRUE
INVARIANTS
    TypeOK
    FoundVideosAreWhole
    AnnouncedIsCommitted
    CountCoversDownloads
    EventUnderWay
PROPERTIES
    ImplementsLibrary
    EveryRequestEnds
CHECK_DEADLOCK FALSE
