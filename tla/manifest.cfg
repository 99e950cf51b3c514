SPECIFICATION MCSpec
CHECK_DEADLOCK FALSE
CONSTANTS
    wa = wa
    wb = wb
    wc = wc
    r = r
    None = None
    Writers <- MCWriters
    Readers <- MCReaders
    BatchOf <- MCBatchOf
    Calls <- MCCalls
    MaxMishaps = 2
    Runs <- MCRuns
    Universe <- MCUniverse
    Fetches <- MCFetches
    ClientVersion <- MCClientVersion
    MaxTries = 2
    MaxSetbacks = 2
INVARIANTS
    RecordsHaveSnapshots
    UniverseIsWhole
PROPERTIES
    ImplementsBatchLog
    CallsReturn
    FirstRecordStands
