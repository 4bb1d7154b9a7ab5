SPECIFICATION FairSpec
CONSTANTS
    Uploads = {u1}
    Downloads = {d1}
    Names <- MCNames
    Subtypes = {"mp4"}
    Nothing = Nothing
    Faulty = FALSE
INVARIANT
    NamedClipsAreServed
CHECK_DEADLOCK FALSE
