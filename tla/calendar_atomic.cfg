SPECIFICATION CalendarSpec
CHECK_DEADLOCK FALSE
CONSTANTS
    w1 = w1
    w2 = w2
    w3 = w3
    c = c
    d = d
    None = None
    CalendarWriters <- MCWriters
    Calendars <- MCCalendars
    CalendarOf <- MCCalendarOf
    MaxCalls = 2
    MaxMishaps = 2
INVARIANT
    ManifestPublishedAtomically
