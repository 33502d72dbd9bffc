SPECIFICATION FairSpec
CONSTANTS
    Links = {l1}
    Workers = {w1}
    Replacers = {l1}
    NoLink = NoLink
    HardLimit = 1
    MaxTasks = 1
    MaxLost = 1
    MaxPatches = 1
    MaxDeploys = 1
PROPERTIES
    JobsEnd
    PauseDrains
