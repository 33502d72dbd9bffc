SPECIFICATION Spec
CONSTANTS
    Links = {l1}
    Workers = {w1, w2}
    Replacers = {}
    NoLink = NoLink
    HardLimit = 1
    MaxTasks = 2
    MaxLost = 2
    MaxPatches = 0
    MaxDeploys = 0
SYMMETRY FullSymmetry
PROPERTY
    ServiceSpec
