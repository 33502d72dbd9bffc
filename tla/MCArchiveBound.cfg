SPECIFICATION Spec
CHECK_DEADLOCK FALSE
CONSTANTS
    Links = {l1, l2}
    Tasks = {t1, t2}
    NoLink = NoLink
    Workers = 1
    MaxUploads = 1
    DailyLimit = 2
    ErrorLimit = 2
    ConnectionLimit = 1
    MaxIaTasks = 2
    MaxFaults = 1
    MaxToggles = 1
    MaxEdits = 0
    MaxDeletionRuns = 0
SYMMETRY TaskSymmetry
INVARIANTS
    UploadsBounded
