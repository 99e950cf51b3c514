SPECIFICATION Spec
CHECK_DEADLOCK FALSE
CONSTANTS
    Absent = Absent
    MaxMishaps = 2
    MaxCommits = 4
INVARIANTS
    EvidenceIsOfWhatRan
    VerifiedReplayIsApproved
