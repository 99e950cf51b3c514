SPECIFICATION Spec
CHECK_DEADLOCK FALSE
CONSTANTS
    w1 = w1
    w2 = w2
    w3 = w3
    r = r
    c = c
    d = d
    Writers <- MCWriters
    Readers <- MCReaders
    Contents <- MCContents
    ContentOf <- MCContentOf
    MaxCalls = 1
    MaxMishaps = 2
SYMMETRY MCSymmetry
INVARIANTS
    OneNameAfterSuccess
    FailureFindsItPublished
PROPERTIES
    ImplementsContentStore
