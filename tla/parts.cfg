SPECIFICATION PartsSpec
CHECK_DEADLOCK FALSE
CONSTANTS
    w1 = w1
    w2 = w2
    w3 = w3
    b = b
    c = c
    d = d
    None = None
    Absent = Absent
    Refused = Refused
    Publishers <- MCPublishers
    Exporters <- MCExporters
    Files <- MCFiles
    CalendarWriters <- MCCalendarWriters
    Calendars <- MCCalendars
    CalendarOf <- MCCalendarOf
    ActionWriters <- MCActionWriters
    ActionBundles <- MCActionBundles
    RecordOf <- MCRecordOf
    Instruments <- MCInstruments
    KindOf <- MCKindOf
    Contents = {"one", "other"}
    MaxSingle = 60
    MaxGross = 95
    MinCash = 10
    Eligible = {"A", "B"}
    Named = {"A", "B", "Z"}
    Weights = {0, 50, 65}
    Sessions = {1, 2, 3}
    MaxCalls = 2
    MaxMishaps = 2
    Symbols = {"A"}
    Calendar <- MCCalendar
    Kind <- MCKind
    CommissionRate <- MCRate
    CommissionMin <- MCMin
    TransferFee <- MCTransfer
    StampDuty <- MCStamp
    Symbol = "A"
    InitialBalances <- MCBalances
    WeightPercent = 100
    Period = 2
    Bars <- MCBars
    Frames <- MCFrames
    ActionSets <- MCActionSets
INVARIANTS
    RecordedCalendarsLoad
    RecordedActionsLoad
    BundlesShownWhole
    FailuresAreContained
    DividendsAddUp
    AcceptedBarsAgree
    BatchesAreConsistent
    LatestSignalStands
    PlansFollowDecisions
    OrdersAreDecidedOnTheNextSession
    LedgersFollowFromTheRecords
PROPERTY
    BundlesAreContentStore
    FilesAreContentStore
