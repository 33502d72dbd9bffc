SPECIFICATION FairSpec
CONSTANTS
  Links = {l1}
  Files = {f1, f2}
  Converters = {w1, w2}
  NoLink = nolink
INVARIANTS ArchivesInv CachedStatusTrue
PROPERTIES ArchiveKept StatusIsCached
CHECK_DEADLOCK FALSE
