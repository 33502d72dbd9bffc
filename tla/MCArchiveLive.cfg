SPECIFICATION FairSpec
CHECK_DEADLOCK FALSE
CONSTANTS
    Links = {l1}
    Tasks = {t1, t2}
    NoLink = NoLink
    Workers = 2
    MaxUploads = 1
    DailyLimit = 2
    ErrorLimit = 1
    ConnectionLimit = 0
    MaxIaTasks = 1
    MaxFaults = 0
    MaxToggles = 1
    MaxEdits = 1
    MaxDeletionRuns = 1
PROPERTY
    SubmittedMovesOn
