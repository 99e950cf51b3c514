SPECIFICATION FileSpec
CHECK_DEADLOCK FALSE
CONSTANTS
    None = None
    Publishers = {w1, w2}
    Contents = {"one", "other"}
    MaxCalls = 2
    MaxMishaps = 2
INVARIANT
    IndexIsPublishedAtomically
