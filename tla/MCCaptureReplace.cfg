SPECIFICATION Spec
CONSTANTS
    Links = {l1}
    Workers = {w1, w2}
    Replacers = {l1}
    NoLink = NoLink
    HardLimit = 1
    MaxTasks = 2
    MaxLost = 1
    MaxPatches = 2
    MaxDeploys = 0
SYMMETRY WorkerSymmetry
INVARIANTS
    TypeOK
    OneCaptureAtATime
    AtMostOneAttempt
    UploadKept
    SweepSparesLiveCaptures
    CompletedHasArchive
    CaptureInv
PROPERTIES
    SupersededKept
    OutcomeIsFinal
